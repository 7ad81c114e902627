------------------------------ MODULE Episodes ------------------------------
(***************************************************************************)
(* The EIDOS loop around a tool call (lib/eidos/integration.py): a hook    *)
(* before the call creates a step in the session's episode, a hook after   *)
(* it evaluates that step, and a hook at the session's end closes the      *)
(* episode.  Each hook is a process of its own, of this session or of      *)
(* another one, and may be killed; between them there are only files: the  *)
(* mapping from sessions to episodes, the active step of each session, and *)
(* the rows of episodes and steps in SQLite.                               *)
(*                                                                         *)
(* Episodes and calls are numbered; a step has the number of its call.      *)
(* Goals, predictions, evidence and distillations are data.  A tool fails  *)
(* in one way only, so its name is the signature of the error.  The guard  *)
(* rails and the watchers other than the one for repeated failures advise  *)
(* and change nothing.                                                     *)
(***************************************************************************)
EXTENDS Integers, Sequences, FiniteSets

CONSTANTS
  Agents,    \* what makes tool calls, one at a time each
  Sessions,
  Tools,
  MaxSteps,  \* Budget.max_steps
  MaxCalls,  \* bound: tool calls
  MaxKills   \* bound: killed hooks

ASSUME EpisodesAssumption ==
  /\ MaxSteps \in Nat \ {0}
  /\ {MaxCalls, MaxKills} \subseteq Nat

Calls == 1..MaxCalls
\* Each of a call's two hooks creates one episode at most.
Ids == 1..2 * MaxCalls
None == 0

Evaluations == {"pass", "fail"}
Outcomes == {"in_progress", "success", "failure", "partial", "escalated"}
\* Nothing puts an episode into the other phases of models.py.
Phases == {"explore", "halt", "consolidate"}

Rows == [outcome : Outcomes, phase : Phases, count : 0..MaxCalls, errs : [Tools -> 0..MaxCalls]]
NewRow == [outcome |-> "in_progress", phase |-> "explore", count |-> 0,
           errs |-> [t \in Tools |-> 0]]
NoStep == [ep |-> None, eval |-> "unknown", by |-> None]

Mappings == [Sessions -> Ids \cup {None}]
NoMapping == [s \in Sessions |-> None]
\* The mapping file between its truncation and its new content.
Torn == [s \in Sessions |-> -1]
Actives == [Sessions -> Calls \cup {None}]
NoActive == [s \in Sessions |-> None]

VARIABLES
  \* Files.
  mapping,  \* eidos_active_episodes.json
  active,   \* eidos_active_steps.json
  tmp,      \* its .tmp, one name for all processes; NoTmp if there is none
  rows,     \* table episodes
  steps,    \* table steps: its episode, its evaluation, the call that gave it
  \* Agents and hooks.
  session,  \* of each agent
  h,        \* what each agent and its hook do
  calls, tool,      \* calls so far, their tools
  owner,            \* the sessions of the episodes so far
  old, aged,        \* episodes and calls from before the last half hour
  \* History.
  parallel,   \* sessions in which calls have overlapped
  mapClash,   \* the mapping was written over what its writer had not seen
  stepClash,  \* likewise the active steps
  kills

files   == <<mapping, active, tmp, rows, steps>>
world   == <<session, calls, tool, owner, old, aged>>
history == <<parallel, mapClash, stepClash, kills>>
vars == <<files, h, world, history>>

NoTmp == [s \in Sessions |-> -1]

\* What a hook knows: its place, the call, the step it evaluates, the mapping
\* and the active steps it has read, its episode and the row it has read, and
\* whether the watcher has noticed a repeated failure.
Idle == [pc |-> "idle", kind |-> "none", call |-> None, step |-> None, m |-> NoMapping,
         act |-> NoActive, ep |-> None, row |-> NewRow, noticed |-> FALSE]

Init ==
  /\ mapping = NoMapping /\ active = NoActive /\ tmp = NoTmp
  /\ rows = <<>> /\ steps = [c \in Calls |-> NoStep]
  /\ session \in [Agents -> Sessions]
  /\ h = [a \in Agents |-> Idle]
  /\ calls = 0 /\ tool \in [Calls -> Tools]
  /\ owner = <<>>
  /\ old = {} /\ aged = {}
  /\ parallel = {} /\ mapClash = FALSE /\ stepClash = FALSE /\ kills = 0

Episodes == 1..Len(owner)
Fellows(a) == {b \in Agents \ {a} : session[b] = session[a]}
Goto(a, where) == h' = [h EXCEPT ![a].pc = where]
Done(a) == h' = [h EXCEPT ![a] = Idle]

-----------------------------------------------------------------------------
(* get_or_create_episode.  Reads of files that only hooks of one session    *)
(* write are one step with the read before them.                           *)

\* _load_active_episodes: what cannot be parsed is no mapping.
Loaded == IF mapping = Torn THEN NoMapping ELSE mapping

\* What the hook does once it has its episode.
Work(kind) == IF kind = "pre" THEN "create_step" ELSE "evaluate"

\* The session's episode, if it has an open one; it is closed first if stale.
Lookup(a, hook) ==
  LET e == Loaded[session[a]]
      found == [hook EXCEPT !.ep = e, !.row = rows[e]]
  IN  IF e = None \/ (e # None /\ rows[e].outcome # "in_progress")
        THEN [hook EXCEPT !.pc = "create", !.m = Loaded]
      ELSE IF e \in old /\ rows[e].count > 0
        THEN [found EXCEPT !.pc = "close", !.m = Loaded]
        ELSE [found EXCEPT !.pc = Work(hook.kind)]

-----------------------------------------------------------------------------
(* The host: tool calls and the end of a turn.                             *)

\* PreToolUse.  A session makes its calls one by one or several at once.
CallTool(a) ==
  /\ h[a].pc = "idle" /\ calls < MaxCalls
  /\ \A b \in Fellows(a) : h[b].kind # "end"
  /\ calls' = calls + 1
  /\ h' = [h EXCEPT ![a] = Lookup(a, [Idle EXCEPT !.kind = "pre", !.call = calls'])]
  /\ parallel' = IF \E b \in Fellows(a) : h[b].pc # "idle"
                   THEN parallel \cup {session[a]} ELSE parallel
  /\ UNCHANGED <<files, session, tool, owner, old, aged, mapClash, stepClash, kills>>

\* PostToolUse, or PostToolUseFailure: the hook looks for the session's active
\* step, and goes on if that is one of the same tool.
ToolReturns(a) ==
  /\ h[a].pc = "tool"
  /\ LET c == active[session[a]]
     IN  IF c = None \/ (c # None /\ tool[c] # tool[h[a].call]) THEN Done(a)
         ELSE \E ev \in Evaluations :
                h' = [h EXCEPT ![a] = [Idle EXCEPT !.pc = "look_up", !.kind = ev,
                                                   !.call = h[a].call, !.step = c]]
  /\ UNCHANGED <<files, world, history>>

FindEpisode(a) ==
  /\ h[a].pc = "look_up"
  /\ h' = [h EXCEPT ![a] = Lookup(a, @)]
  /\ UNCHANGED <<files, world, history>>

\* The user interrupts the tool: no hook runs after it.
ToolInterrupted(a) == h[a].pc = "tool" /\ Done(a) /\ UNCHANGED <<files, world, history>>

\* Stop or SessionEnd.
EndSession(a) ==
  /\ h[a].pc = "idle"
  /\ \A b \in Fellows(a) : h[b].pc = "idle"
  /\ Loaded[session[a]] # None
  /\ h' = [h EXCEPT ![a] = [Idle EXCEPT !.pc = "finish", !.kind = "end", !.m = Loaded]]
  /\ UNCHANGED <<files, world, history>>

-----------------------------------------------------------------------------
(* Closing and creating episodes.                                          *)

Count(e, ev) == Cardinality({c \in Calls : steps[c].ep = e /\ steps[c].eval = ev})
AutoOutcome(e) ==
  LET passed == Count(e, "pass")
      failed == Count(e, "fail")
  IN  CASE failed > passed -> "failure"
        [] failed <= passed /\ passed > 0 /\ failed = 0 -> "success"
        [] failed <= passed /\ passed > 0 /\ failed > 0 -> "partial"
        [] passed = 0 /\ failed = 0 -> "escalated"

Closed(row, outcome) == [row EXCEPT !.outcome = outcome, !.phase = "consolidate"]

\* _auto_close_episode.
Close(a) ==
  /\ h[a].pc = "close"
  /\ rows' = [rows EXCEPT ![h[a].ep] = Closed(h[a].row, AutoOutcome(h[a].ep))]
  /\ h' = [h EXCEPT ![a] = [@ EXCEPT !.pc = "truncate", !.ep = None, !.row = NewRow]]
  /\ UNCHANGED <<mapping, active, tmp, steps, world, history>>

Create(a) ==
  /\ h[a].pc = "create"
  /\ owner' = Append(owner, session[a])
  /\ rows' = Append(rows, NewRow)
  /\ h' = [h EXCEPT ![a] = [@ EXCEPT !.pc = "truncate", !.ep = Len(owner'), !.row = NewRow]]
  /\ UNCHANGED <<mapping, active, tmp, steps, session, calls, tool, old, aged, history>>

EndOutcome(e) ==
  LET passed == Count(e, "pass")
      failed == Count(e, "fail")
  IN  CASE failed > passed /\ passed = 0 -> "failure"
        [] failed > passed /\ passed > 0 -> "partial"
        [] failed <= passed -> "success"

\* complete_episode, which does not ask whether the episode is closed already.
Finish(a) ==
  /\ h[a].pc = "finish"
  /\ LET e == h[a].m[session[a]]
     IN  rows' = [rows EXCEPT ![e] = Closed(@, EndOutcome(e))]
  /\ Goto(a, "truncate")
  /\ UNCHANGED <<mapping, active, tmp, steps, world, history>>

\* _save_active_episodes opens the file for writing ...
Truncate(a) ==
  /\ h[a].pc = "truncate"
  /\ mapping' = Torn
  /\ mapClash' = (mapClash \/ mapping # h[a].m)
  /\ Goto(a, "fill")
  /\ UNCHANGED <<active, tmp, rows, steps, world, parallel, stepClash, kills>>

\* Mutant of NewMapping: only this session's entry is written.
OnlyMine(a) == [NoMapping EXCEPT ![session[a]] = h[a].ep]
NewMapping(a) == [h[a].m EXCEPT ![session[a]] = h[a].ep]

\* ... and writes the mapping it has read, with its own entry changed.
Fill(a) ==
  /\ h[a].pc = "fill"
  /\ mapping' = NewMapping(a)
  /\ IF h[a].kind = "end" THEN Done(a)
     ELSE h' = [h EXCEPT ![a] =
            IF h[a].ep = None THEN [@ EXCEPT !.pc = "create", !.m = mapping']
            ELSE [@ EXCEPT !.pc = Work(h[a].kind), !.m = NoMapping]]
  /\ UNCHANGED <<active, tmp, rows, steps, world, history>>

-----------------------------------------------------------------------------
(* create_step_before_action.                                              *)

\* The step is saved; then _save_active_step reads all sessions' steps, ...
CreateStep(a) ==
  /\ h[a].pc = "create_step"
  /\ steps' = [steps EXCEPT ![h[a].call] = [NoStep EXCEPT !.ep = h[a].ep]]
  /\ h' = [h EXCEPT ![a] = [@ EXCEPT !.pc = "write_tmp", !.act = active]]
  /\ UNCHANGED <<mapping, active, tmp, rows, world, history>>

\* Mutant of Entry: a step that waits for its evaluation is kept.
KeepEntry(a) == IF h[a].kind = "pre"
                  THEN IF h[a].act[session[a]] = None THEN h[a].call ELSE h[a].act[session[a]]
                  ELSE None
Entry(a) == IF h[a].kind = "pre" THEN h[a].call ELSE None

\* ... drops those of over ten minutes, writes the rest to the one .tmp, ...
WriteTmp(a) ==
  /\ h[a].pc = "write_tmp"
  /\ tmp' = [s \in Sessions |-> IF s = session[a] THEN Entry(a)
                                ELSE IF h[a].act[s] \in aged THEN None ELSE h[a].act[s]]
  /\ stepClash' = (stepClash \/ tmp # NoTmp)
  /\ Goto(a, "replace")
  /\ UNCHANGED <<mapping, active, rows, steps, world, parallel, mapClash, kills>>

\* Mutant of Moved: the file is removed before the new one is moved there.
MovedBlindly == tmp
\* If another process has moved it away already, the exception is swallowed.
Moved == IF tmp = NoTmp THEN active ELSE tmp

\* ... and moves that over the file.
Replace(a) ==
  /\ h[a].pc = "replace"
  /\ active' = Moved
  /\ tmp' = NoTmp
  /\ stepClash' = (stepClash \/ tmp = NoTmp \/ active # h[a].act)
  /\ IF h[a].kind = "pre" THEN Goto(a, "count") ELSE Done(a)
  /\ UNCHANGED <<mapping, rows, steps, world, parallel, mapClash, kills>>

\* _check_repeat_failure.
RepeatFailure(row) == \E t \in Tools : row.errs[t] >= 2

\* The step is counted in the row read before, then the control plane is asked;
\* the tool runs whatever it says.
CountStep(a) ==
  /\ h[a].pc = "count"
  /\ LET row == [h[a].row EXCEPT !.count = @ + 1]
     IN  /\ rows' = [rows EXCEPT ![h[a].ep] = row]
         /\ h' = [h EXCEPT ![a] = [Idle EXCEPT !.pc = "tool", !.kind = "tool",
                     !.call = h[a].call, !.ep = h[a].ep, !.noticed = RepeatFailure(row)]]
  /\ UNCHANGED <<mapping, active, tmp, steps, world, history>>

-----------------------------------------------------------------------------
(* complete_step_after_action.                                             *)

\* Mutant of EvaluatedIn: the episode in which the step was created.
CreatedIn(a) == steps[h[a].step].ep
EvaluatedIn(a) == h[a].ep

\* The row of the step is replaced; it belongs to the episode of now.
Evaluate(a) ==
  /\ h[a].pc = "evaluate"
  /\ steps' = [steps EXCEPT ![h[a].step] =
                 [ep |-> EvaluatedIn(a), eval |-> h[a].kind, by |-> h[a].call]]
  /\ Goto(a, "phase")
  /\ UNCHANGED <<mapping, active, tmp, rows, world, history>>

\* Mutant of BudgetExceeded: one step more than the budget.
BudgetOverrun(row, e) == row.count > MaxSteps \/ e \in old
BudgetExceeded(row, e) == row.count >= MaxSteps \/ e \in old

\* process_after_action notes an error in its copy of the row, and the row is
\* saved if the phase has changed; then _save_active_step begins.
ChangePhase(a) ==
  /\ h[a].pc = "phase"
  /\ LET t == tool[h[a].step]
         row == IF h[a].kind = "fail" THEN [h[a].row EXCEPT !.errs[t] = @ + 1] ELSE h[a].row
         phase == IF BudgetExceeded(row, h[a].ep) THEN "halt" ELSE row.phase
     IN  rows' = IF phase = row.phase THEN rows
                 ELSE [rows EXCEPT ![h[a].ep] = [row EXCEPT !.phase = phase]]
  /\ h' = [h EXCEPT ![a] = [Idle EXCEPT !.pc = "write_tmp", !.kind = h[a].kind,
                                              !.act = active]]
  /\ UNCHANGED <<mapping, active, tmp, steps, world, history>>

-----------------------------------------------------------------------------

\* The host kills a hook that takes too long; the tool runs all the same.
Kill(a) ==
  /\ h[a].pc \notin {"idle", "tool"} /\ kills < MaxKills
  /\ kills' = kills + 1
  /\ h' = [h EXCEPT ![a] = IF h[a].kind = "pre"
             THEN [Idle EXCEPT !.pc = "tool", !.kind = "tool", !.call = h[a].call] ELSE Idle]
  /\ UNCHANGED <<files, world, parallel, mapClash, stepClash>>

HalfAnHour ==
  /\ old # Episodes /\ old' = Episodes /\ aged' = 1..calls
  /\ UNCHANGED <<files, h, session, calls, tool, owner, history>>

HookStep(a) ==
  \/ FindEpisode(a) \/ Close(a) \/ Create(a) \/ Finish(a) \/ Truncate(a) \/ Fill(a)
  \/ CreateStep(a) \/ WriteTmp(a) \/ Replace(a) \/ CountStep(a) \/ Evaluate(a) \/ ChangePhase(a)
HostStep(a) == CallTool(a) \/ ToolReturns(a) \/ ToolInterrupted(a) \/ EndSession(a) \/ Kill(a)

Next == (\E a \in Agents : HookStep(a) \/ HostStep(a)) \/ HalfAnHour

Spec == Init /\ [][Next]_vars

-----------------------------------------------------------------------------
(* Properties.                                                             *)

Places == {"idle", "look_up", "close", "create", "truncate", "fill", "create_step",
           "write_tmp", "replace", "count", "tool", "evaluate", "phase", "finish"}
Kinds == {"none", "pre", "end", "tool"} \cup Evaluations

\* The variables have the types their definitions promise, and no hook creates
\* more episodes than its call may.
TypeOK ==
  /\ mapping \in Mappings \cup {Torn}
  /\ active \in Actives /\ tmp \in Actives \cup {NoTmp}
  /\ rows \in Seq(Rows) /\ Len(rows) = Len(owner)
  /\ steps \in [Calls -> [ep : Ids \cup {None}, eval : Evaluations \cup {"unknown"},
                          by : Calls \cup {None}]]
  /\ session \in [Agents -> Sessions]
  /\ h \in [Agents -> [pc : Places, kind : Kinds, call : Calls \cup {None},
                       step : Calls \cup {None}, m : Mappings, act : Actives,
                       ep : Ids \cup {None}, row : Rows, noticed : BOOLEAN]]
  /\ calls \in 0..MaxCalls /\ tool \in [Calls -> Tools]
  /\ owner \in Seq(Sessions)
  /\ old \subseteq Episodes /\ aged \subseteq 1..calls
  /\ parallel \subseteq Sessions /\ mapClash \in BOOLEAN /\ stepClash \in BOOLEAN
  /\ kills \in 0..MaxKills

\* Calls of s have not overlapped and no hook was killed.
Undisturbed(s) == s \notin parallel /\ kills = 0
\* No hook of s runs.
Quiet(s) == \A a \in Agents : session[a] = s => h[a].pc \in {"idle", "tool"}
OpenEpisodes(s) == {e \in Episodes : owner[e] = s /\ rows[e].outcome = "in_progress"}

\* Whatever is closed as stale and created anew, a session has one open episode
\* at most and no orphan beside it, as long as no process overwrote the mapping
\* of another (integration.py:69).
OneOpenEpisode ==
  ~mapClash => \A s \in Sessions :
    Undisturbed(s) /\ Quiet(s) => Cardinality(OpenEpisodes(s)) <= 1

\* "Let complete_episode infer the outcome from step data rather than always
\* claiming SUCCESS" (observe.py:955): the outcome of a closed episode agrees
\* with its steps, whatever is evaluated after it was closed.  A killed hook, or
\* two that hand over active steps at once, may leave an evaluated step active:
\* a later call then takes it to another episode.
OutcomeTold ==
  ~stepClash => \A e \in Episodes : Undisturbed(owner[e]) =>
    LET passed == Count(e, "pass")
        failed == Count(e, "fail")
    IN  /\ rows[e].outcome = "success" => failed <= passed
        /\ rows[e].outcome = "failure" => failed > passed
        /\ rows[e].outcome = "partial" => failed > 0 /\ passed > 0
        /\ rows[e].outcome = "escalated" => failed = 0 /\ passed = 0

\* "Budget exhaustion triggers: auto transition -> HALT" (models.py:105): an
\* open episode that has spent its steps, all of them evaluated, has halted.
BudgetHalts ==
  ~mapClash => \A s \in Sessions : Undisturbed(s) /\ Quiet(s) =>
    \A e \in OpenEpisodes(s) :
      rows[e].count >= MaxSteps /\ Count(e, "unknown") = 0 => rows[e].phase = "halt"

\* A step is evaluated with the result of its own call, however the calls of
\* different sessions and interrupted ones interleave (integration.py:93): unless
\* two processes have handed over active steps at once.
OwnResult ==
  ~stepClash => \A c \in 1..calls :
    (steps[c].ep # None => Undisturbed(owner[steps[c].ep])) => steps[c].by \in {None, c}

\* "Repeat Failure: Same error 2x" (elevated_control.py:234): before a tool runs, its
\* episode's second failure of one tool has been noticed.
RepeatsAreNoticed ==
  \A a \in Agents, t \in Tools :
    /\ h[a].pc = "tool" /\ kills = 0
    /\ Cardinality({c \in Calls : /\ steps[c].ep = h[a].ep /\ steps[c].eval = "fail"
                                  /\ tool[c] = t}) >= 2
    => h[a].noticed
=============================================================================
