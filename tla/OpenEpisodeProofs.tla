------------------------- MODULE OpenEpisodeProofs --------------------------
(***************************************************************************)
(* Proofs about Episodes, for any agents, sessions, tools and bounds: a    *)
(* session has one open episode at most; the outcome of a closed episode   *)
(* agrees with its steps; an episode that has spent its budget halts; and  *)
(* the variables have their types, which needs that hooks create no more   *)
(* episodes than one each.                                                 *)
(***************************************************************************)
EXTENDS EpisodesProofs, FiniteSetTheorems, SequenceTheorems

\* A row, its counts without a limit.
AnyRow == [outcome : Outcomes, phase : Phases, count : Nat, errs : [Tools -> Nat]]

RowsSound ==
  /\ rows \in Seq(AnyRow) /\ Len(rows) = Len(owner)
  /\ \A a \in Agents : h[a].row \in AnyRow

\* What a hook has after it looked for its episode: none, or that of the mapping.
Found(a, x) ==
  LET e == Loaded[session[a]]
  IN  \/ /\ x.pc = "create" /\ x.m = Loaded /\ x.row = NewRow
         /\ e = None \/ rows[e].outcome # "in_progress"
      \/ /\ x.pc \in {"close", "create_step", "evaluate"}
         /\ e # None /\ x.ep = e /\ x.row = rows[e]

\* What each step leaves in the memory of its agent, as far as episodes and
\* rows go.
Same(a) == h'[a].ep = h[a].ep /\ h'[a].m = h[a].m /\ h'[a].row = h[a].row
Move(a) ==
  \/ (CallTool(a) \/ FindEpisode(a)) /\ Found(a, h'[a])
  \/ Close(a) /\ h'[a].pc = "truncate" /\ h'[a].ep = None /\ h'[a].row = NewRow
  \/ /\ Create(a) /\ h'[a].pc = "truncate" /\ h'[a].row = NewRow
     /\ h'[a].ep = Len(owner') /\ h'[a].m = h[a].m
  \/ Finish(a) /\ h'[a].pc = "truncate" /\ Same(a)
  \/ Truncate(a) /\ h'[a].pc = "fill" /\ Same(a)
  \/ /\ Fill(a) /\ h'[a].row \in {h[a].row, NewRow}
     /\ \/ h'[a].pc = "idle"
        \/ h'[a].pc = "create" /\ h[a].ep = None
        \/ h'[a].pc \in {"create_step", "evaluate"} /\ h'[a].ep = h[a].ep
  \/ /\ CreateStep(a) \/ WriteTmp(a) \/ Replace(a) \/ Evaluate(a)
     /\ h'[a].pc \in {"write_tmp", "replace", "count", "phase"} /\ Same(a)
  \/ /\ CountStep(a) \/ ChangePhase(a)
     /\ h'[a].pc \in {"tool", "write_tmp"} /\ h'[a].row = NewRow
     /\ h'[a].pc = "write_tmp" => h'[a].ep = None
  \/ /\ Replace(a) \/ ToolReturns(a) \/ ToolInterrupted(a) \/ Kill(a)
     /\ h'[a].pc \in {"idle", "look_up", "tool"} /\ h'[a].row = NewRow
  \/ EndSession(a) /\ h'[a].pc = "finish" /\ h'[a].m = Loaded /\ h'[a].row = NewRow

LEMMA LookupFinds ==
  ASSUME FilesSound, NEW a \in Agents, NEW hook, Sound(a, hook), hook.row = NewRow,
         NEW x, x = Lookup(a, hook)
  PROVE  Found(a, x)
<1> DEFINE e == Loaded[session[a]]
<1>0. Whole(hook)
  BY DEF Sound
<1>1. CASE /\ e = None \/ rows[e].outcome # "in_progress"
           /\ x = [hook EXCEPT !.pc = "create", !.m = Loaded]
  <2>1. x.pc = "create" /\ x.m = Loaded /\ x.row = NewRow
    BY <1>0, <1>1 DEF Whole
  <2> QED
    BY <1>1, <2>1 DEF Found
<1>2. CASE /\ e # None
           /\ x = [[hook EXCEPT !.ep = e, !.row = rows[e]] EXCEPT !.pc = "close", !.m = Loaded]
  <2>1. x.pc = "close" /\ x.ep = e /\ x.row = rows[e]
    BY <1>0, <1>2 DEF Whole
  <2> QED
    BY <1>2, <2>1 DEF Found
<1>3. CASE /\ e # None
           /\ x = [[hook EXCEPT !.ep = e, !.row = rows[e]] EXCEPT !.pc = Work(hook.kind)]
  <2>1. x.pc = Work(hook.kind) /\ x.ep = e /\ x.row = rows[e]
    BY <1>0, <1>3 DEF Whole
  <2> QED
    BY <1>3, <2>1 DEF Found, Work
<1> QED
  BY <1>1, <1>2, <1>3 DEF Lookup

\* A hook that looks for its episode has no row yet.
Rowless == \A a \in Agents : h[a].pc = "look_up" => h[a].row = NewRow

LEMMA MoveOfHook ==
  ASSUME HooksSound, FilesSound, Rowless, NEW a \in Agents, HookStep(a)
  PROVE  Move(a)
<1> DEFINE g == h[a]
<1>0. Whole(g) /\ Sound(a, g)
  BY DEF HooksSound, Sound
<1>1. \A x : h' = [h EXCEPT ![a] = x] => h'[a] = x
  BY DEF HooksSound
<1>2. CASE FindEpisode(a)
  <2>1. h'[a] = Lookup(a, g) /\ g.row = NewRow
    BY <1>1, <1>2 DEF FindEpisode, Rowless
  <2> QED
    BY <1>0, <1>2, <2>1, LookupFinds DEF Move
<1>3. CASE Close(a)
  <2>1. h'[a] = [g EXCEPT !.pc = "truncate", !.ep = None, !.row = NewRow]
    BY <1>1, <1>3 DEF Close
  <2> QED
    BY <1>0, <1>3, <2>1 DEF Move, Whole
<1>4. CASE Create(a)
  <2>1. h'[a] = [g EXCEPT !.pc = "truncate", !.ep = Len(owner'), !.row = NewRow]
    BY <1>1, <1>4 DEF Create
  <2> QED
    BY <1>0, <1>4, <2>1 DEF Move, Whole
<1>5. CASE Finish(a) \/ Truncate(a) \/ WriteTmp(a) \/ Evaluate(a)
  <2>1. PICK p : /\ h'[a] = [g EXCEPT !.pc = p]
                 /\ \/ p = "truncate" /\ Finish(a)
                    \/ p = "fill" /\ Truncate(a)
                    \/ p = "replace" /\ WriteTmp(a)
                    \/ p = "phase" /\ Evaluate(a)
    BY <1>1, <1>5 DEF Finish, Truncate, WriteTmp, Evaluate, Goto
  <2>2. h'[a].pc = p /\ Same(a)
    BY <1>0, <2>1 DEF Whole, Same
  <2> QED
    BY <2>1, <2>2 DEF Move
<1>6. CASE Fill(a)
  <2>1. CASE Done(a)
    <3>1. h'[a].pc = "idle" /\ h'[a].row = NewRow
      BY <1>1, <2>1 DEF Done, Idle
    <3> QED
      BY <1>6, <3>1 DEF Move
  <2>2. CASE h' = [h EXCEPT ![a] = [g EXCEPT !.pc = "create", !.m = mapping']] /\ g.ep = None
    <3>1. h'[a].pc = "create" /\ h'[a].row = g.row
      BY <1>0, <1>1, <2>2 DEF Whole
    <3> QED
      BY <1>6, <2>2, <3>1 DEF Move
  <2>3. CASE h' = [h EXCEPT ![a] = [g EXCEPT !.pc = Work(g.kind), !.m = NoMapping]]
    <3>1. h'[a] = [g EXCEPT !.pc = Work(g.kind), !.m = NoMapping]
      BY <1>1, <2>3
    <3>2. h'[a].pc = Work(g.kind) /\ h'[a].ep = g.ep /\ h'[a].row = g.row
      BY <1>0, <3>1 DEF Whole
    <3>3. Work(g.kind) \in {"create_step", "evaluate"}
      BY DEF Work
    <3> QED
      BY <1>6, <3>2, <3>3 DEF Move
  <2> QED
    BY <1>6, <2>1, <2>2, <2>3 DEF Fill
<1>7. CASE CreateStep(a)
  <2>1. h'[a] = [g EXCEPT !.pc = "write_tmp", !.act = active]
    BY <1>1, <1>7 DEF CreateStep
  <2>2. h'[a].pc = "write_tmp" /\ Same(a)
    BY <1>0, <2>1 DEF Whole, Same
  <2> QED
    BY <1>7, <2>2 DEF Move
<1>8. CASE Replace(a)
  <2>1. CASE h' = [h EXCEPT ![a] = [g EXCEPT !.pc = "count"]]
    <3>1. h'[a].pc = "count" /\ Same(a)
      BY <1>0, <1>1, <2>1 DEF Whole, Same
    <3> QED
      BY <1>8, <3>1 DEF Move
  <2>2. CASE Done(a)
    <3>1. h'[a].pc = "idle" /\ h'[a].row = NewRow
      BY <1>1, <2>2 DEF Done, Idle
    <3> QED
      BY <1>8, <3>1 DEF Move
  <2> QED
    BY <1>8, <2>1, <2>2 DEF Replace, Goto
<1>9. CASE CountStep(a)
  <2>1. h'[a].pc = "tool" /\ h'[a].row = NewRow
    BY <1>1, <1>9 DEF CountStep, Idle
  <2> QED
    BY <1>9, <2>1 DEF Move
<1>10. CASE ChangePhase(a)
  <2>1. h'[a].pc = "write_tmp" /\ h'[a].ep = None /\ h'[a].row = NewRow
    BY <1>1, <1>10 DEF ChangePhase, Idle
  <2> QED
    BY <1>10, <2>1 DEF Move
<1> QED
  BY <1>2, <1>3, <1>4, <1>5, <1>6, <1>7, <1>8, <1>9, <1>10 DEF HookStep

LEMMA MoveOfHost ==
  ASSUME HooksSound, FilesSound, NEW a \in Agents, HostStep(a)
  PROVE  Move(a)
<1>1. \A x : h' = [h EXCEPT ![a] = x] => h'[a] = x
  BY DEF HooksSound
<1>2. CASE CallTool(a)
  <2>1. PICK y : /\ y = [Idle EXCEPT !.kind = "pre", !.call = calls']
                 /\ h'[a] = Lookup(a, y)
    BY <1>1, <1>2 DEF CallTool
  <2>2. calls' \in Nat
    BY <1>2 DEF CallTool, FilesSound
  <2>3. /\ Whole(y) /\ y.call = calls' /\ y.pc = "idle" /\ y.ep = None
        /\ y.m = NoMapping /\ y.act = NoActive /\ y.row = NewRow
    BY <2>1 DEF Idle, Whole
  <2>4. Sound(a, y)
    BY <2>2, <2>3, NoneSound DEF Sound
  <2> QED
    BY <1>2, <2>1, <2>3, <2>4, LookupFinds DEF Move
<1>3. CASE ToolReturns(a) \/ ToolInterrupted(a) \/ Kill(a)
  <2>1. CASE Done(a)
    <3>1. h'[a].pc = "idle" /\ h'[a].row = NewRow
      BY <1>1, <2>1 DEF Done, Idle
    <3> QED
      BY <1>3, <3>1 DEF Move
  <2>2. CASE ToolReturns(a) /\ ~Done(a)
    <3>1. PICK x, k, c : /\ x = [Idle EXCEPT !.pc = "look_up", !.kind = k, !.call = h[a].call,
                                              !.step = c]
                         /\ h' = [h EXCEPT ![a] = x]
      BY <2>2 DEF ToolReturns
    <3>2. x.pc = "look_up" /\ x.row = NewRow
      BY <3>1 DEF Idle
    <3>3. h'[a] = x
      BY <1>1, <3>1
    <3> QED
      BY <1>3, <3>2, <3>3 DEF Move
  <2>3. CASE Kill(a) /\ ~Done(a)
    <3>1. h' = [h EXCEPT ![a] = [Idle EXCEPT !.pc = "tool", !.kind = "tool", !.call = h[a].call]]
      BY <2>3 DEF Kill, Done
    <3>2. h'[a].pc = "tool" /\ h'[a].row = NewRow
      BY <1>1, <3>1 DEF Idle
    <3> QED
      BY <1>3, <3>2 DEF Move
  <2> QED
    BY <1>3, <2>1, <2>2, <2>3 DEF ToolInterrupted
<1>4. CASE EndSession(a)
  <2>1. h'[a].pc = "finish" /\ h'[a].m = Loaded /\ h'[a].row = NewRow
    BY <1>1, <1>4 DEF EndSession, Idle
  <2> QED
    BY <1>4, <2>1 DEF Move
<1> QED
  BY <1>2, <1>3, <1>4 DEF HostStep

-----------------------------------------------------------------------------
(* Rows: which episodes are open after a step.                             *)

LEMMA CountIsNat ==
  ASSUME NEW e, NEW ev
  PROVE  Count(e, ev) \in Nat
<1>1. IsFiniteSet(Calls)
  BY EpisodesAssumption, FS_Interval DEF EpisodesAssumption, Calls
<1> QED
  BY <1>1, FS_Subset, FS_CardinalityType DEF Count

LEMMA OutcomeCloses ==
  ASSUME NEW e
  PROVE  /\ AutoOutcome(e) \in Outcomes \ {"in_progress"}
         /\ EndOutcome(e) \in Outcomes \ {"in_progress"}
<1>1. Count(e, "pass") \in Nat /\ Count(e, "fail") \in Nat
  BY CountIsNat
<1>2. AutoOutcome(e) \in {"failure", "success", "partial", "escalated"}
  BY <1>1 DEF AutoOutcome
<1>3. EndOutcome(e) \in {"failure", "success", "partial"}
  BY <1>1 DEF EndOutcome
<1> QED
  BY <1>2, <1>3 DEF Outcomes

LEMMA NewRowIsRow == NewRow \in AnyRow /\ NewRow.outcome = "in_progress"
  BY DEF NewRow, AnyRow, Outcomes, Phases

LEMMA ClosedIsRow ==
  ASSUME NEW row \in AnyRow, NEW o \in Outcomes
  PROVE  Closed(row, o) \in AnyRow /\ Closed(row, o).outcome = o
  BY DEF Closed, AnyRow, Phases

\* Episode e is open after a step by agent a only if it was before and the step
\* did not close it, if the step created it, or if it is the one a counts in.
StaysOpen(a, e) ==
  /\ e \in Episodes /\ rows[e].outcome = "in_progress"
  /\ Close(a) => e # h[a].ep
  /\ Finish(a) => e # h[a].m[session[a]]
Opens(a, e) == Create(a) /\ e = Len(owner') /\ owner'[e] = session[a]
Reopens(a, e) == (CountStep(a) \/ ChangePhase(a)) /\ e \in Episodes /\ e = h[a].ep

LEMMA RowChange ==
  ASSUME RowsSound, NEW e \in Nat, NEW row \in AnyRow, UNCHANGED owner,
         rows' = [rows EXCEPT ![e] = row]
  PROVE  /\ rows' \in Seq(AnyRow) /\ Len(rows') = Len(owner')
         /\ Episodes' = Episodes
         /\ \A d \in Episodes : rows'[d] = IF d = e THEN row ELSE rows[d]
<1>1. rows \in Seq(AnyRow) /\ Len(rows) = Len(owner) /\ DOMAIN rows = 1..Len(rows)
  BY DEF RowsSound
<1>2. rows' \in Seq(AnyRow) /\ Len(rows') = Len(rows)
  <2>1. CASE e \in 1..Len(rows)
    BY <1>1, <2>1, ExceptSeq
  <2>2. CASE e \notin 1..Len(rows)
    <3>1. rows' = rows
      BY <1>1, <2>2
    <3> QED
      BY <1>1, <3>1
  <2> QED
    BY <2>1, <2>2
<1>3. \A d \in 1..Len(rows) : rows'[d] = IF d = e THEN row ELSE rows[d]
  BY <1>1
<1> QED
  BY <1>1, <1>2, <1>3 DEF Episodes

LEMMA RowsMove ==
  ASSUME HooksSound, FilesSound, RowsSound, NEW a \in Agents, HookStep(a) \/ HostStep(a)
  PROVE  /\ rows' \in Seq(AnyRow) /\ Len(rows') = Len(owner')
         /\ \A e \in Episodes' : rows'[e].outcome = "in_progress" =>
              StaysOpen(a, e) \/ Opens(a, e) \/ Reopens(a, e)
<1>0. h[a].row \in AnyRow /\ h[a].ep \in Nat /\ h[a].m[session[a]] \in Nat
  BY DEF RowsSound, HooksSound, Sound, FilesSound, Table
<1>1. CASE Close(a)
  <2>1. PICK row : /\ row = Closed(h[a].row, AutoOutcome(h[a].ep))
                   /\ rows' = [rows EXCEPT ![h[a].ep] = row] /\ UNCHANGED owner
    BY <1>1 DEF Close, world
  <2>2. row \in AnyRow /\ row.outcome # "in_progress"
    BY <1>0, <2>1, OutcomeCloses, ClosedIsRow
  <2>3. ~Finish(a)
    BY <1>1 DEF Close, Finish
  <2>4. /\ rows' \in Seq(AnyRow) /\ Len(rows') = Len(owner') /\ Episodes' = Episodes
        /\ \A d \in Episodes : rows'[d] = IF d = h[a].ep THEN row ELSE rows[d]
    BY <1>0, <2>1, <2>2, RowChange
  <2> QED
    BY <2>2, <2>3, <2>4 DEF StaysOpen
<1>2. CASE Finish(a)
  <2> DEFINE d == h[a].m[session[a]]
  <2>1. rows' = [rows EXCEPT ![d] = Closed(rows[d], EndOutcome(d))] /\ UNCHANGED owner
    BY <1>2 DEF Finish, world
  <2>2. ~Close(a)
    BY <1>2 DEF Close, Finish
  <2>3. CASE d \in Episodes
    <3>1. rows[d] \in AnyRow
      BY <2>3 DEF RowsSound, Episodes
    <3>2. PICK row : row = Closed(rows[d], EndOutcome(d))
      OBVIOUS
    <3>3. row \in AnyRow /\ row.outcome # "in_progress"
      BY <3>1, <3>2, OutcomeCloses, ClosedIsRow
    <3>4. /\ rows' \in Seq(AnyRow) /\ Len(rows') = Len(owner') /\ Episodes' = Episodes
          /\ \A e \in Episodes : rows'[e] = IF e = d THEN row ELSE rows[e]
      BY <1>0, <2>1, <3>2, <3>3, RowChange
    <3> QED
      BY <2>2, <3>3, <3>4 DEF StaysOpen
  <2>4. CASE d \notin Episodes
    <3>1. rows' = rows
      BY <2>1, <2>4 DEF RowsSound, Episodes
    <3> QED
      BY <2>1, <2>2, <2>4, <3>1 DEF StaysOpen, Episodes, RowsSound
  <2> QED
    BY <2>3, <2>4
<1>3. CASE Create(a)
  <2>1. /\ owner' = Append(owner, session[a]) /\ rows' = Append(rows, NewRow)
        /\ session[a] \in Sessions
    BY <1>3 DEF Create, FilesSound
  <2>2. ~Close(a) /\ ~Finish(a)
    BY <1>3 DEF Create, Close, Finish
  <2>3. rows' \in Seq(AnyRow) /\ Len(rows') = Len(owner')
    BY <2>1, NewRowIsRow DEF RowsSound, FilesSound
  <2>4. owner \in Seq(Sessions) /\ rows \in Seq(AnyRow) /\ Len(rows) = Len(owner)
    BY DEF RowsSound, FilesSound
  <2>5. ASSUME NEW e \in Episodes', rows'[e].outcome = "in_progress"
        PROVE  StaysOpen(a, e) \/ Opens(a, e)
    <3>1. e \in Episodes \/ e = Len(owner')
      BY <2>1, <2>4, <2>5 DEF Episodes
    <3>2. CASE e \in Episodes
      <4>1. rows'[e] = rows[e]
        BY <2>1, <2>4, <3>2 DEF Episodes
      <4> QED
        BY <2>2, <2>5, <3>2, <4>1 DEF StaysOpen
    <3>3. CASE e = Len(owner')
      BY <1>3, <2>1, <2>4, <3>3 DEF Opens
    <3> QED
      BY <3>1, <3>2, <3>3
  <2> QED
    BY <2>3, <2>5
<1>4. CASE CountStep(a) \/ ChangePhase(a)
  <2>1. /\ UNCHANGED owner
        /\ rows' = rows \/ \E row \in AnyRow : rows' = [rows EXCEPT ![h[a].ep] = row]
    <3>1. CASE CountStep(a)
      <4>1. PICK row : /\ row = [h[a].row EXCEPT !.count = @ + 1]
                       /\ rows' = [rows EXCEPT ![h[a].ep] = row]
        BY <3>1 DEF CountStep
      <4>2. row \in AnyRow
        BY <1>0, <4>1 DEF AnyRow
      <4> QED
        BY <3>1, <4>1, <4>2 DEF CountStep, world
    <3>2. CASE ChangePhase(a)
      <4> DEFINE t == tool[h[a].step]
                 row == IF h[a].kind = "fail" THEN [h[a].row EXCEPT !.errs[t] = @ + 1] ELSE h[a].row
                 phase == IF BudgetExceeded(row, h[a].ep) THEN "halt" ELSE row.phase
      <4>1. row \in AnyRow
        BY <1>0 DEF AnyRow
      <4>2. phase \in Phases
        BY <4>1 DEF AnyRow, Phases
      <4>3. rows' = rows \/ rows' = [rows EXCEPT ![h[a].ep] = [row EXCEPT !.phase = phase]]
        BY <3>2 DEF ChangePhase
      <4> HIDE DEF row, phase
      <4>4. [row EXCEPT !.phase = phase] \in AnyRow
        BY <4>1, <4>2 DEF AnyRow
      <4> QED
        BY <3>2, <4>3, <4>4 DEF ChangePhase, world
    <3> QED
      BY <1>4, <3>1, <3>2
  <2>2. ~Close(a) /\ ~Finish(a)
    BY <1>4 DEF CountStep, ChangePhase, Close, Finish
  <2>3. CASE rows' = rows
    BY <2>1, <2>2, <2>3 DEF StaysOpen, Episodes, RowsSound
  <2>4. CASE \E row \in AnyRow : rows' = [rows EXCEPT ![h[a].ep] = row]
    <3>1. PICK row \in AnyRow : rows' = [rows EXCEPT ![h[a].ep] = row]
      BY <2>4
    <3>2. /\ rows' \in Seq(AnyRow) /\ Len(rows') = Len(owner')
          /\ Episodes' = Episodes
          /\ \A d \in Episodes : rows'[d] = IF d = h[a].ep THEN row ELSE rows[d]
      BY <1>0, <2>1, <3>1, RowChange
    <3> QED
      BY <1>4, <2>2, <3>2 DEF StaysOpen, Reopens
  <2> QED
    BY <2>1, <2>3, <2>4
<1>5. CASE ~Close(a) /\ ~Finish(a) /\ ~Create(a) /\ ~CountStep(a) /\ ~ChangePhase(a)
  <2>1. UNCHANGED <<rows, owner>>
    BY <1>5 DEF HookStep, HostStep, CallTool, ToolReturns, ToolInterrupted, EndSession, Kill,
                FindEpisode, Truncate, Fill, CreateStep, WriteTmp, Replace, Evaluate, files, world
  <2> QED
    BY <1>5, <2>1 DEF StaysOpen, Episodes, RowsSound
<1> QED
  BY <1>1, <1>2, <1>3, <1>4, <1>5

LEMMA RowsStaySound ==
  ASSUME HooksSound, FilesSound, RowsSound, Rowless, NEW a \in Agents, Step(a), Move(a)
  PROVE  RowsSound' /\ Rowless'
<1>1. rows' \in Seq(AnyRow) /\ Len(rows') = Len(owner')
  BY RowsMove DEF Step
<1>2. ASSUME Found(a, h'[a])
      PROVE  h'[a].row \in AnyRow /\ h'[a].pc # "look_up"
  <2>1. Loaded[session[a]] # None => rows[Loaded[session[a]]] \in AnyRow
    BY LoadedOwned DEF FilesSound, RowsSound, Owned, Episodes
  <2> QED
    BY <1>2, <2>1, NewRowIsRow DEF Found
<1>3. h'[a].row \in AnyRow /\ (h'[a].pc = "look_up" => h'[a].row = NewRow)
  BY <1>2, NewRowIsRow DEF Move, Same, RowsSound
<1> QED
  BY <1>1, <1>3 DEF RowsSound, Rowless, Step

-----------------------------------------------------------------------------
(* The invariant: the mapping leads each session to its open episode.      *)

Steady == ~mapClash /\ kills = 0

\* The mapping that a hook is about to fill is torn, and no other hook is to fill it.
OneFiller ==
  Steady => \A b \in Agents : h[b].pc = "fill" =>
              mapping = Torn /\ \A c \in Agents \ {b} : h[c].pc # "fill"

\* The mapping, or what a hook of another session will fill it with, has e for s.
Leads(s, e) ==
  IF mapping # Torn THEN mapping[s] = e
  ELSE \E b \in Agents : h[b].pc = "fill" /\ session[b] # s /\ h[b].m[s] = e

\* Where a hook changes its session's entry in the mapping, and where it works
\* in the episode it has found.
Mapping == {"create", "truncate", "fill"}
Working == {"create_step", "write_tmp", "replace", "count", "evaluate", "phase"}

\* What the place of a hook says of its session's episodes.
At(a) ==
  LET s == session[a]
  IN  /\ \A e \in OpenEpisodes(s) :
           /\ h[a].pc = "create" => Leads(s, e) /\ h[a].m[s] # e
           /\ h[a].pc = "truncate" => e = h[a].ep \/ (Leads(s, e) /\ h[a].m[s] # e)
           /\ h[a].pc = "fill" => e = h[a].ep
      /\ h[a].pc \in Working /\ h[a].ep # None => Leads(s, h[a].ep)
      /\ h[a].pc = "close" => h[a].ep # None /\ Leads(s, h[a].ep)
      /\ h[a].pc = "finish" => Leads(s, h[a].m[s])

Settled(s) ==
  /\ \A a \in Agents : session[a] = s => At(a)
  /\ (\A a \in Agents : session[a] = s => h[a].pc \notin Mapping)
       => \A e \in OpenEpisodes(s) : Leads(s, e)

AllSettled == Steady => \A s \in Sessions \ parallel : Settled(s)

OpenInv == IInv /\ RowsSound /\ Rowless /\ OneFiller /\ AllSettled

LEMMA InitOpenInv == Init => OpenInv
<1> SUFFICES ASSUME Init PROVE OpenInv
  OBVIOUS
<1>1. IInv
  BY InitIInv
<1>2. \A a \in Agents : h[a] = Idle
  BY DEF Init
<1>3. Idle.row = NewRow /\ Idle.pc = "idle"
  BY DEF Idle
<1>4. RowsSound /\ Rowless
  BY <1>2, <1>3, NewRowIsRow DEF Init, RowsSound, Rowless
<1>5. OneFiller
  BY <1>2, <1>3 DEF OneFiller
<1>6. AllSettled
  <2>1. \A s : OpenEpisodes(s) = {}
    BY DEF Init, OpenEpisodes, Episodes
  <2> QED
    BY <1>2, <1>3, <2>1 DEF AllSettled, Settled, At, Working
<1> QED
  BY <1>1, <1>4, <1>5, <1>6 DEF OpenInv

\* What happens to the mapping in a step that clashes with none and is no kill.
LEMMA SteadyStays ==
  ASSUME FilesSound, NEW a \in Agents, Step(a), Steady'
  PROVE  /\ Steady /\ ~Kill(a)
         /\ \/ Truncate(a) /\ h[a].pc = "truncate" /\ mapping = h[a].m /\ mapping' = Torn
            \/ Fill(a) /\ h[a].pc = "fill" /\ mapping' = NewMapping(a)
            \/ ~Truncate(a) /\ ~Fill(a) /\ h[a].pc # "fill" /\ UNCHANGED mapping
<1>1. CASE Truncate(a)
  BY <1>1 DEF Truncate, Steady, Step
<1>2. CASE Fill(a)
  BY <1>2 DEF Fill, Steady, Step, history
<1>3. CASE ~Truncate(a) /\ ~Fill(a)
  <2>1. ~Kill(a) /\ kills = 0
    BY DEF Steady, Step
  <2>2. h[a].pc # "fill"
    BY <1>3, <2>1 DEF Step, HookStep, HostStep, CallTool, ToolReturns, ToolInterrupted, EndSession,
                FindEpisode, Close, Create, Finish, CreateStep, WriteTmp, Replace, CountStep, Evaluate,
                ChangePhase
  <2>3. UNCHANGED <<mapping, mapClash>>
    BY <1>3, <2>1 DEF Step, HookStep, HostStep, CallTool, ToolReturns, ToolInterrupted, EndSession,
                FindEpisode, Close, Create, Finish, CreateStep, WriteTmp, Replace, CountStep, Evaluate,
                ChangePhase, files, history
  <2> QED
    BY <1>3, <2>1, <2>2, <2>3 DEF Steady
<1> QED
  BY <1>1, <1>2, <1>3

LEMMA NotTorn ==
  ASSUME FilesSound, HooksSound, NEW a \in Agents
  PROVE  Torn \notin Table /\ h[a].m \in Table /\ NewMapping(a) \in Table
<1>1. session[a] \in Sessions /\ h[a].m \in Table /\ h[a].ep \in Nat
  BY DEF FilesSound, HooksSound, Sound
<1>2. Torn \notin Table
  BY <1>1 DEF Torn, Table
<1>3. NewMapping(a) \in Table
  BY <1>1 DEF NewMapping, Table
<1> QED
  BY <1>1, <1>2, <1>3

LEMMA TruncateGoes ==
  ASSUME HooksSound, NEW a \in Agents, Truncate(a)
  PROVE  h'[a].pc = "fill" /\ Same(a)
<1>1. h'[a] = [h[a] EXCEPT !.pc = "fill"]
  BY DEF Truncate, Goto, HooksSound
<1>2. Whole(h[a])
  BY DEF HooksSound, Sound
<1> QED
  BY <1>1, <1>2 DEF Whole, Same

LEMMA FillerStays ==
  ASSUME HooksSound, FilesSound, OneFiller, NEW a \in Agents, Step(a), Move(a)
  PROVE  OneFiller'
<1> SUFFICES ASSUME Steady' PROVE OneFiller'
  BY DEF OneFiller
<1>0. /\ Steady /\ Torn \notin Table /\ h[a].m \in Table /\ NewMapping(a) \in Table
      /\ h'[a].pc = "fill" => Truncate(a)
      /\ \A b \in Agents \ {a} : h'[b] = h[b]
  BY SteadyStays, NotTorn DEF Move, Found, Step
<1>1. CASE Truncate(a) /\ mapping = h[a].m /\ mapping' = Torn
  <2>1. h'[a].pc = "fill"
    BY <1>1, TruncateGoes
  <2>2. \A b \in Agents : h[b].pc # "fill"
    BY <1>0, <1>1 DEF OneFiller
  <2> QED
    BY <1>0, <1>1, <2>1, <2>2 DEF OneFiller
<1>2. CASE Fill(a) /\ h[a].pc = "fill" /\ mapping' = NewMapping(a)
  <2>1. h'[a].pc # "fill"
    BY <1>0, <1>2 DEF Truncate
  <2>2. \A b \in Agents \ {a} : h[b].pc # "fill"
    BY <1>0, <1>2 DEF OneFiller
  <2> QED
    BY <1>0, <1>2, <2>1, <2>2 DEF OneFiller
<1>3. CASE ~Truncate(a) /\ h[a].pc # "fill" /\ UNCHANGED mapping
  <2>1. h'[a].pc # "fill"
    BY <1>0, <1>3
  <2>2. \A b \in Agents : h'[b].pc = "fill" =>
          mapping' = Torn /\ \A c \in Agents \ {b} : h'[c].pc # "fill"
    BY <1>0, <1>3, <2>1 DEF OneFiller
  <2> QED
    BY <2>2 DEF OneFiller
<1> QED
  BY <1>1, <1>2, <1>3, SteadyStays

\* What leads to an episode keeps doing so, unless the session's own hook fills
\* the mapping or has truncated it.
LEMMA LeadsStays ==
  ASSUME HooksSound, FilesSound, OneFiller, NEW a \in Agents, Step(a), Move(a), Steady',
         NEW s \in Sessions, NEW e, Leads(s, e),
         s = session[a] => ~Truncate(a) /\ ~Fill(a)
  PROVE  Leads(s, e)'
<1>0. /\ Steady /\ Torn \notin Table /\ h[a].m \in Table /\ NewMapping(a) \in Table
      /\ \A b \in Agents \ {a} : h'[b] = h[b]
      /\ UNCHANGED session
  BY SteadyStays, NotTorn DEF Step
<1>1. CASE Truncate(a) /\ mapping = h[a].m /\ mapping' = Torn
  <2>1. h'[a].pc = "fill" /\ h'[a].m = h[a].m
    BY <1>1, TruncateGoes DEF Same
  <2>2. mapping # Torn
    BY <1>0, <1>1
  <2> QED
    BY <1>0, <1>1, <2>1, <2>2 DEF Leads
<1>2. CASE Fill(a) /\ h[a].pc = "fill" /\ mapping' = NewMapping(a)
  <2>1. s # session[a]
    BY <1>2
  <2>2. mapping = Torn /\ \A b \in Agents \ {a} : h[b].pc # "fill"
    BY <1>0, <1>2 DEF OneFiller
  <2>3. h[a].m[s] = e
    BY <2>2 DEF Leads
  <2>4. mapping'[s] = e
    BY <1>0, <1>2, <2>1, <2>3 DEF NewMapping, Table
  <2> QED
    BY <1>0, <1>2, <2>4 DEF Leads
<1>3. CASE ~Truncate(a) /\ h[a].pc # "fill" /\ UNCHANGED mapping
  BY <1>0, <1>3 DEF Leads
<1> QED
  BY <1>1, <1>2, <1>3, SteadyStays

\* There is one episode that the mapping leads to.
LEMMA LeadsToOne ==
  ASSUME OneFiller, Steady, NEW s, NEW d, NEW e, Leads(s, d), Leads(s, e)
  PROVE  d = e
  BY DEF OneFiller, Leads

-----------------------------------------------------------------------------
(* A step keeps the invariant.                                             *)

\* Where the agent of each step is before it.
LEMMA Placed ==
  ASSUME NEW a \in Agents
  PROVE  /\ CallTool(a) \/ EndSession(a) => h[a].pc = "idle"
         /\ FindEpisode(a) => h[a].pc = "look_up"
         /\ Close(a) => h[a].pc = "close"
         /\ Create(a) => h[a].pc = "create"
         /\ Finish(a) => h[a].pc = "finish"
         /\ Truncate(a) => h[a].pc = "truncate"
         /\ Fill(a) => h[a].pc = "fill"
         /\ CreateStep(a) => h[a].pc = "create_step"
         /\ WriteTmp(a) => h[a].pc = "write_tmp"
         /\ Replace(a) => h[a].pc = "replace"
         /\ CountStep(a) => h[a].pc = "count"
         /\ Evaluate(a) => h[a].pc = "evaluate"
         /\ ChangePhase(a) => h[a].pc = "phase"
         /\ ToolReturns(a) \/ ToolInterrupted(a) => h[a].pc = "tool"
  BY DEF CallTool, ToolReturns, ToolInterrupted, EndSession, FindEpisode, Close, Create, Finish,
         Truncate, Fill, CreateStep, WriteTmp, Replace, CountStep, Evaluate, ChangePhase

LEMMA FellowsIdle ==
  ASSUME IInv, NEW a \in Agents, Step(a), session[a] \notin parallel',
         NEW b \in Agents \ {a}, session[b] = session[a]
  PROVE  h[b].pc = "idle" /\ h'[b].pc = "idle"
<1>1. h'[b] = h[b]
  BY DEF Step
<1>2. ASSUME h[b].pc # "idle" PROVE FALSE
  <2>1. h[a].pc = "idle"
    BY <1>2 DEF IInv, Alone, Step
  <2>2. b \in Fellows(a)
    BY DEF Fellows
  <2>3. ~CallTool(a) /\ ~EndSession(a)
    BY <1>2, <2>2 DEF CallTool, EndSession
  <2>4. ~HookStep(a) /\ ~ToolReturns(a) /\ ~ToolInterrupted(a) /\ ~Kill(a)
    BY <2>1, Placed DEF HookStep, Kill
  <2> QED
    BY <2>3, <2>4 DEF Step, HostStep
<1> QED
  BY <1>1, <1>2

\* An episode that is open after a step was open before, or it is of the agent's
\* session and the agent has created it or counts in it.
LEMMA OpenMoves ==
  ASSUME OpenInv, NEW a \in Agents, Step(a), NEW s, NEW e \in OpenEpisodes(s)'
  PROVE  \/ e \in OpenEpisodes(s) /\ StaysOpen(a, e)
         \/ s = session[a] /\ (Opens(a, e) \/ Reopens(a, e))
<1>1. owner' = owner \/ \E r \in Sessions : owner' = Append(owner, r)
  BY DEF Step, HookStep, HostStep, CallTool, ToolReturns, ToolInterrupted, EndSession, Kill,
         FindEpisode, Close, Create, Finish, Truncate, Fill, CreateStep, WriteTmp, Replace,
         CountStep, Evaluate, ChangePhase, world, OpenInv, IInv, FilesSound
<1>2. e \in Episodes' /\ owner'[e] = s /\ rows'[e].outcome = "in_progress"
  BY DEF OpenEpisodes
<1>3. e \in Episodes => owner[e] = s
  BY <1>1, <1>2, OwnersStay DEF OpenInv, IInv
<1>4. CASE StaysOpen(a, e)
  BY <1>3, <1>4 DEF StaysOpen, OpenEpisodes
<1>5. CASE Opens(a, e)
  BY <1>2, <1>5 DEF Opens
<1>6. CASE Reopens(a, e)
  BY <1>3, <1>6 DEF Reopens, OpenInv, IInv, HooksSound, Sound, Episodes, None
<1> QED
  BY <1>2, <1>4, <1>5, <1>6, RowsMove DEF OpenInv, IInv, Step

LEMMA OthersSettled ==
  ASSUME OpenInv, NEW a \in Agents, Step(a), Move(a), Steady',
         NEW s \in Sessions \ parallel', s # session[a]
  PROVE  Settled(s)'
<1>1. Settled(s)
  BY SteadyStays DEF OpenInv, AllSettled, IInv, Step
<1>2. OpenEpisodes(s)' \subseteq OpenEpisodes(s)
  <2>1. ASSUME NEW e \in OpenEpisodes(s)' PROVE e \in OpenEpisodes(s)
    BY <2>1, OpenMoves
  <2> QED
    BY <2>1
<1>3. \A e : Leads(s, e) => Leads(s, e)'
  BY LeadsStays DEF OpenInv, IInv
<1>4. UNCHANGED session /\ \A b \in Agents : session[b] = s => h'[b] = h[b]
  BY DEF Step
<1>5. ASSUME NEW b \in Agents, session[b] = s PROVE At(b)'
  <2>1. At(b) /\ h'[b] = h[b] /\ session'[b] = s
    BY <1>1, <1>4, <1>5 DEF Settled
  <2> QED
    BY <1>2, <1>3, <1>5, <2>1 DEF At
<1>6. ASSUME \A b \in Agents : session'[b] = s => h'[b].pc \notin Mapping,
             NEW e \in OpenEpisodes(s)'
      PROVE  Leads(s, e)'
  BY <1>1, <1>2, <1>3, <1>4, <1>6 DEF Settled
<1> QED
  BY <1>4, <1>5, <1>6 DEF Settled

\* The agent's own session: all its other agents are idle.
LEMMA OwnSettled ==
  ASSUME OpenInv, NEW a \in Agents, Step(a), Move(a), Steady',
         NEW s \in Sessions \ parallel', s = session[a]
  PROVE  At(a)' /\ (h'[a].pc \notin Mapping => \A e \in OpenEpisodes(s)' : Leads(s, e)')
<1> DEFINE g == h[a]
           x == h'[a]
           Open == OpenEpisodes(s)
<1>0. /\ Steady /\ ~Kill(a) /\ s \in Sessions /\ session' = session
      /\ \A b \in Agents \ {a} : session[b] = s => h[b].pc = "idle"
  BY SteadyStays, FellowsIdle DEF OpenInv, IInv, FilesSound, Step
<1>1. At(a) /\ (g.pc \notin Mapping => \A e \in Open : Leads(s, e))
  <2>1. Settled(s)
    BY <1>0 DEF OpenInv, AllSettled, Step
  <2> QED
    BY <1>0, <2>1 DEF Settled, Mapping
<1>2. ~Truncate(a) /\ ~Fill(a) => \A e : Leads(s, e) => Leads(s, e)'
  BY <1>0, LeadsStays DEF OpenInv, IInv
<1>3. \A e \in Open' : (e \in Open /\ StaysOpen(a, e)) \/ Opens(a, e) \/ Reopens(a, e)
  BY OpenMoves
<1>4. \A e \in Open : e \in Episodes /\ e # None
  BY DEF OpenEpisodes, Episodes, None
<1>5. \A d, e : Leads(s, d) /\ Leads(s, e) => d = e
  BY <1>0, LeadsToOne DEF OpenInv
<1>6. Loaded[s] # None => Leads(s, Loaded[s])
  BY <1>0 DEF Loaded, NoMapping, Leads
<1>7. ASSUME ~Close(a), ~Finish(a), ~Create(a), ~CountStep(a), ~ChangePhase(a)
      PROVE  Open' \subseteq Open
  BY <1>3, <1>7 DEF Opens, Reopens
<1>8. ASSUME ~Create(a), ~CountStep(a), ~ChangePhase(a)
      PROVE  \A e \in Open' : e \in Open /\ StaysOpen(a, e)
  BY <1>3, <1>8 DEF Opens, Reopens
<1> HIDE DEF Open
<1>10. CASE (CallTool(a) \/ FindEpisode(a)) /\ Found(a, x)
  <2>1. g.pc \in {"idle", "look_up"}
    BY <1>10, Placed
  <2>2. /\ Open' \subseteq Open /\ \A e \in Open : Leads(s, e)
        /\ \A e : Leads(s, e) => Leads(s, e)'
    BY <1>1, <1>2, <1>7, <2>1, Placed DEF Mapping
  <2>3. CASE /\ x.pc = "create" /\ x.m = Loaded
             /\ Loaded[s] = None \/ rows[Loaded[s]].outcome # "in_progress"
    <3>1. \A e \in Open : Loaded[s] # e
      BY <1>4, <2>3 DEF Open, OpenEpisodes
    <3> QED
      BY <1>0, <2>2, <2>3, <3>1 DEF At, Open, Mapping, Working
  <2>4. CASE x.pc \in {"close", "create_step", "evaluate"} /\ Loaded[s] # None /\ x.ep = Loaded[s]
    BY <1>0, <1>6, <2>2, <2>4 DEF At, Open, Mapping, Working
  <2> QED
    BY <1>10, <2>3, <2>4 DEF Found
\* The one open episode is the one that is closed, here ...
<1>11. CASE Close(a) /\ x.pc = "truncate"
  <2>1. g.pc = "close" /\ ~Create(a) /\ ~CountStep(a) /\ ~ChangePhase(a)
    BY <1>11, Placed
  <2>2. \A e \in Open : e = g.ep
    BY <1>1, <1>5, <2>1 DEF At, Mapping
  <2>3. Open' = {}
    BY <1>8, <1>11, <2>1, <2>2 DEF StaysOpen
  <2> QED
    BY <1>0, <1>11, <2>3 DEF At, Open, Mapping, Working
\* ... and here.
<1>12. CASE Finish(a) /\ x.pc = "truncate"
  <2>1. g.pc = "finish" /\ ~Create(a) /\ ~CountStep(a) /\ ~ChangePhase(a)
    BY <1>12, Placed
  <2>2. \A e \in Open : e = g.m[s]
    BY <1>1, <1>5, <2>1 DEF At, Mapping
  <2>3. Open' = {}
    BY <1>8, <1>12, <2>1, <2>2 DEF StaysOpen
  <2> QED
    BY <1>0, <1>12, <2>3 DEF At, Open, Mapping, Working
<1>13. CASE Create(a) /\ x.pc = "truncate" /\ x.ep = Len(owner') /\ x.m = g.m
  <2>1. g.pc = "create" /\ ~Truncate(a) /\ ~Fill(a) /\ ~CountStep(a) /\ ~ChangePhase(a)
    BY <1>13, Placed
  <2>2. \A e \in Open : Leads(s, e)' /\ g.m[s] # e
    BY <1>1, <1>2, <2>1 DEF At, Open
  <2>3. \A e \in Open' : e \in Open \/ e = x.ep
    BY <1>3, <1>13, <2>1 DEF Opens, Reopens
  <2> QED
    BY <1>0, <1>13, <2>2, <2>3 DEF At, Open, Mapping, Working
<1>14. CASE Truncate(a) /\ x.pc = "fill" /\ Same(a)
  <2>1. g.pc = "truncate" /\ Open' \subseteq Open
    BY <1>7, <1>14, Placed
  <2>2. mapping = g.m /\ Torn # mapping
    BY <1>14, SteadyStays, NotTorn, <2>1 DEF OpenInv, IInv, Fill
  <2>3. \A e \in Open : e = g.ep
    BY <1>1, <2>1, <2>2 DEF At, Open, Leads
  <2> QED
    BY <1>0, <1>14, <2>1, <2>3 DEF At, Open, Mapping, Working, Same
<1>15. CASE /\ Fill(a)
            /\ \/ x.pc = "idle"
               \/ x.pc = "create" /\ g.ep = None
               \/ x.pc \in {"create_step", "evaluate"} /\ x.ep = g.ep
  <2>1. g.pc = "fill" /\ Open' \subseteq Open
    BY <1>7, <1>15, Placed
  <2>2. \A e \in Open : e = g.ep
    BY <1>1, <2>1 DEF At, Open
  <2>3. mapping' = NewMapping(a) /\ mapping' # Torn
    BY <1>15, NotTorn DEF OpenInv, IInv, Fill
  <2>4. mapping'[s] = g.ep
    BY <1>0, <2>3 DEF NewMapping, OpenInv, IInv, HooksSound, Sound, Table
  <2>5. \A e \in Open' : Leads(s, e)'
    BY <2>1, <2>2, <2>3, <2>4 DEF Leads
  <2>6. \A e : e = g.ep => Leads(s, e)'
    BY <2>3, <2>4 DEF Leads
  <2>7. g.ep = None => Open' = {}
    BY <1>4, <2>1, <2>2
  <2> QED
    BY <1>0, <1>15, <2>5, <2>6, <2>7 DEF At, Open, Mapping, Working
<1>16. CASE /\ CreateStep(a) \/ WriteTmp(a) \/ Replace(a) \/ Evaluate(a)
            /\ x.pc \in {"write_tmp", "replace", "count", "phase"} /\ Same(a)
  <2>1. g.pc \in Working /\ g.pc \notin Mapping
    BY <1>16, Placed DEF Working, Mapping
  <2>2. Open' \subseteq Open /\ \A e : Leads(s, e) => Leads(s, e)'
    BY <1>2, <1>7, <1>16, Placed
  <2> QED
    BY <1>0, <1>1, <1>16, <2>1, <2>2 DEF At, Open, Mapping, Working, Same
<1>17. CASE /\ CountStep(a) \/ ChangePhase(a)
            /\ x.pc \in {"tool", "write_tmp"}
            /\ x.pc = "write_tmp" => x.ep = None
  <2>1. g.pc \in Working /\ g.pc \notin Mapping /\ ~Truncate(a) /\ ~Fill(a) /\ ~Create(a)
    BY <1>17, Placed DEF Working, Mapping
  <2>2. \A e \in Open' : e \in Open \/ (e = g.ep /\ e # None)
    <3>1. \A e \in Episodes : e # None
      BY DEF Episodes, None
    <3> QED
      BY <1>3, <2>1, <3>1 DEF Opens, Reopens
  <2>3. \A e \in Open' : Leads(s, e)'
    BY <1>1, <1>2, <2>1, <2>2 DEF At
  <2> QED
    BY <1>0, <1>17, <2>3 DEF At, Open, Mapping, Working
<1>18. CASE /\ Replace(a) \/ ToolReturns(a) \/ ToolInterrupted(a)
            /\ x.pc \in {"idle", "look_up", "tool"}
  <2>1. g.pc \notin Mapping
    BY <1>18, Placed DEF Mapping
  <2>2. Open' \subseteq Open /\ \A e : Leads(s, e) => Leads(s, e)'
    BY <1>2, <1>7, <1>18, Placed
  <2> QED
    BY <1>0, <1>1, <1>18, <2>1, <2>2 DEF At, Open, Mapping, Working
<1>19. CASE EndSession(a) /\ x.pc = "finish" /\ x.m = Loaded
  <2>1. g.pc = "idle" /\ Leads(s, Loaded[s])
    BY <1>6, <1>19, Placed DEF EndSession
  <2>2. Open' \subseteq Open /\ \A e : Leads(s, e) => Leads(s, e)'
    BY <1>2, <1>7, <2>1, Placed
  <2> QED
    BY <1>0, <1>1, <1>19, <2>1, <2>2 DEF At, Open, Mapping, Working
<1> QED
  BY <1>0, <1>10, <1>11, <1>12, <1>13, <1>14, <1>15, <1>16, <1>17, <1>18, <1>19 DEF Move

LEMMA OpenStep ==
  ASSUME OpenInv, NEW a \in Agents, HookStep(a) \/ HostStep(a)
  PROVE  OpenInv'
<1>1. IInv' /\ Step(a) /\ Move(a)
  BY StepIInv, StepIsStep, MoveOfHook, MoveOfHost DEF OpenInv, IInv, Next
<1>2. RowsSound' /\ Rowless' /\ OneFiller'
  BY <1>1, RowsStaySound, FillerStays DEF OpenInv, IInv
<1>3. ASSUME Steady', NEW s \in Sessions \ parallel' PROVE Settled(s)'
  <2>1. CASE s # session[a]
    BY <1>1, <1>3, <2>1, OthersSettled
  <2>2. CASE s = session[a]
    <3>1. At(a)' /\ (h'[a].pc \notin Mapping => \A e \in OpenEpisodes(s)' : Leads(s, e)')
      BY <1>1, <1>3, <2>2, OwnSettled
    <3>2. \A b \in Agents \ {a} : session'[b] = s => h'[b].pc = "idle"
      BY <1>1, <1>3, <2>2, FellowsIdle DEF OpenInv, Step
    <3>3. \A b \in Agents \ {a} : session'[b] = s => At(b)'
      BY <3>2 DEF At, Working
    <3>4. session'[a] = s
      BY <1>1, <2>2 DEF Step
    <3> QED
      BY <3>1, <3>3, <3>4 DEF Settled
  <2> QED
    BY <2>1, <2>2
<1>4. AllSettled'
  BY <1>3 DEF AllSettled
<1> QED
  BY <1>1, <1>2, <1>4 DEF OpenInv

LEMMA StepOpenInv == OpenInv /\ [Next]_vars => OpenInv'
<1> SUFFICES ASSUME OpenInv, [Next]_vars PROVE OpenInv'
  OBVIOUS
<1>1. CASE HalfAnHour \/ UNCHANGED vars
  <2>1. UNCHANGED <<files, h, session, owner, history>>
    BY <1>1 DEF HalfAnHour, vars, world
  <2>2. RowsSound' /\ Rowless' /\ OneFiller' /\ AllSettled'
    BY <2>1 DEF OpenInv, RowsSound, Rowless, OneFiller, AllSettled, Steady, Settled, At, Leads,
                OpenEpisodes, Episodes, files, history
  <2> QED
    BY <2>2, StepIInv DEF OpenInv
<1>2. CASE \E a \in Agents : HookStep(a) \/ HostStep(a)
  BY <1>2, OpenStep
<1> QED
  BY <1>1, <1>2 DEF Next

\* Whatever the number of agents and sessions, and whatever is closed as stale and
\* created anew, a session whose calls do not overlap has one open episode at most
\* between its hooks, unless a hook was killed or a process overwrote the mapping
\* of another (integration.py:66-73, 159-211, 263-286).
THEOREM SessionsHaveOneOpenEpisode == Spec => []OneOpenEpisode
<1>1. OpenInv => OneOpenEpisode
  <2> SUFFICES ASSUME OpenInv, ~mapClash, NEW s \in Sessions, Undisturbed(s), Quiet(s)
               PROVE  Cardinality(OpenEpisodes(s)) <= 1
    BY DEF OneOpenEpisode
  <2>1. Settled(s) /\ Steady
    BY DEF OpenInv, AllSettled, Steady, Undisturbed
  <2>2. \A e \in OpenEpisodes(s) : Leads(s, e)
    BY <2>1 DEF Settled, Quiet, Mapping
  <2>3. \A d, e \in OpenEpisodes(s) : d = e
    BY <2>1, <2>2, LeadsToOne DEF OpenInv
  <2>4. CASE OpenEpisodes(s) = {}
    BY <2>4, FS_EmptySet
  <2>5. CASE OpenEpisodes(s) # {}
    <3>1. PICK e : OpenEpisodes(s) = {e}
      BY <2>3, <2>5
    <3>2. Cardinality({e}) = 1
      BY FS_Singleton
    <3> QED
      BY <3>1, <3>2
  <2> QED
    BY <2>4, <2>5
<1> QED
  BY <1>1, InitOpenInv, StepOpenInv, PTL DEF Spec
-----------------------------------------------------------------------------
(* Calls and their steps: who has which step in hand.                      *)

\* Step c was created in an episode of session s.
OfSession(s, c) == c \in 1..calls /\ steps[c].ep # None /\ owner[steps[c].ep] = s
Entries(m) == \A s \in Sessions : m[s] # None => OfSession(s, m[s])

\* Where a hook has not created its call's step yet.
Early == {"close", "create", "truncate", "fill", "create_step"}

\* What a hook x does in which place, and what its call and its steps are.
Busy(x) ==
  /\ x.pc \in Places /\ x.kind \in Kinds /\ x.noticed \in BOOLEAN
  /\ x.pc \in {"look_up", "evaluate", "phase"} => x.kind \in Evaluations
  /\ x.pc \in {"create_step", "count"} => x.kind = "pre"
  /\ x.pc \in {"close", "create", "write_tmp", "replace"} => x.kind \in {"pre"} \cup Evaluations
  /\ x.pc \in {"truncate", "fill"} => x.kind \in {"pre", "end"} \cup Evaluations
  /\ x.pc = "tool" => x.kind = "tool"
  /\ x.pc = "finish" => x.kind = "end"
  /\ x.kind \in {"pre", "tool"} => x.call # None
  /\ x.kind \in Evaluations /\ x.pc \notin {"write_tmp", "replace"} => x.call # None /\ x.step # None
InHand(a, x) ==
  /\ x.call \in 0..calls
  /\ x.step # None => OfSession(session[a], x.step)
  /\ x.call # None /\ steps[x.call].ep # None => OfSession(session[a], x.call)
  /\ x.kind = "pre" => IF x.pc \in Early THEN steps[x.call] = NoStep ELSE steps[x.call].ep # None
  /\ Entries(x.act)

StepsKept ==
  /\ Entries(active) /\ (tmp # NoTmp => Entries(tmp))
  /\ \A c \in Calls : c > calls => steps[c] = NoStep
  /\ \A a \in Agents : Busy(h[a]) /\ InHand(a, h[a])
  /\ \A a, b \in Agents : a # b /\ h[a].call # None => h[a].call # h[b].call

\* What a step does to the memory of its agent.
Keeps(a) ==
  /\ h'[a].kind = h[a].kind /\ h'[a].call = h[a].call /\ h'[a].step = h[a].step
  /\ h'[a].noticed = h[a].noticed
Rests(a) == Keeps(a) /\ h'[a].act = h[a].act /\ h'[a].ep = h[a].ep /\ h'[a].row = h[a].row
Opened(a, x) ==
  /\ Loaded[session[a]] # None /\ x.ep = Loaded[session[a]]
  /\ x.row = rows[x.ep] /\ x.row.outcome = "in_progress"

CourseCall(a) ==
  LET x == h'[a]
  IN  /\ CallTool(a) /\ h[a].pc = "idle"
      /\ x.kind = "pre" /\ x.call = calls' /\ x.step = None /\ x.act = NoActive /\ x.noticed = FALSE
      /\ \/ x.pc = "create" /\ x.ep = None /\ x.row = NewRow
         \/ x.pc \in {"close", "create_step"} /\ Opened(a, x)
CourseFind(a) ==
  LET x == h'[a]
  IN  /\ FindEpisode(a) /\ h[a].pc = "look_up" /\ Keeps(a) /\ x.act = h[a].act
      /\ \/ x.pc = "create" /\ x.ep = h[a].ep /\ x.row = NewRow
         \/ x.pc \in {"close", Work(h[a].kind)} /\ Opened(a, x)
CourseNew(a) ==
  LET x == h'[a]
  IN  /\ Keeps(a) /\ x.act = h[a].act /\ x.pc = "truncate" /\ x.row = NewRow
      /\ \/ Close(a) /\ h[a].pc = "close" /\ x.ep = None
         \/ Create(a) /\ h[a].pc = "create" /\ x.ep = Len(owner')
CourseOn(a) ==
  LET g == h[a]
      x == h'[a]
  IN  /\ Rests(a)
      /\ \/ Finish(a) /\ g.pc = "finish" /\ x.pc = "truncate"
         \/ Truncate(a) /\ g.pc = "truncate" /\ x.pc = "fill"
         \/ /\ Fill(a) /\ g.pc = "fill" /\ g.kind # "end"
            /\ x.pc = IF g.ep = None THEN "create" ELSE Work(g.kind)
         \/ WriteTmp(a) /\ g.pc = "write_tmp" /\ x.pc = "replace"
         \/ Replace(a) /\ g.pc = "replace" /\ g.kind = "pre" /\ x.pc = "count"
         \/ Evaluate(a) /\ g.pc = "evaluate" /\ x.pc = "phase"
CourseStep(a) ==
  LET x == h'[a]
  IN  /\ CreateStep(a) /\ h[a].pc = "create_step" /\ Keeps(a) /\ x.act = active
      /\ x.pc = "write_tmp" /\ x.ep = h[a].ep /\ x.row = h[a].row
CourseTool(a) ==
  LET x == h'[a]
  IN  /\ x.pc = "tool" /\ x.kind = "tool" /\ x.call = h[a].call /\ x.step = None
      /\ x.act = NoActive /\ x.row = NewRow /\ x.noticed \in BOOLEAN
      /\ \/ CountStep(a) /\ h[a].pc = "count" /\ x.ep = h[a].ep
         \/ Kill(a) /\ h[a].kind = "pre" /\ x.ep = None
CourseReturn(a) ==
  LET x == h'[a]
  IN  /\ ToolReturns(a) /\ h[a].pc = "tool" /\ x.pc = "look_up" /\ x.kind \in Evaluations
      /\ x.call = h[a].call /\ x.step = active[session[a]] /\ x.step # None /\ x.act = NoActive
      /\ x.ep = None /\ x.row = NewRow /\ x.noticed = FALSE
CourseEnd(a) ==
  LET x == h'[a]
  IN  /\ EndSession(a) /\ h[a].pc = "idle" /\ x.pc = "finish" /\ x.kind = "end" /\ x.call = None
      /\ x.step = None /\ x.act = NoActive /\ x.ep = None /\ x.row = NewRow /\ x.noticed = FALSE
CoursePhase(a) ==
  LET x == h'[a]
  IN  /\ ChangePhase(a) /\ h[a].pc = "phase" /\ x.pc = "write_tmp" /\ x.kind = h[a].kind
      /\ x.call = None /\ x.step = None /\ x.act = active /\ x.ep = None /\ x.row = NewRow
      /\ x.noticed = FALSE
CourseIdle(a) ==
  /\ h'[a] = Idle
  /\ \/ Fill(a) /\ h[a].pc = "fill" /\ h[a].kind = "end"
     \/ Replace(a) /\ h[a].pc = "replace" /\ h[a].kind # "pre"
     \/ (ToolReturns(a) \/ ToolInterrupted(a)) /\ h[a].pc = "tool"
     \/ Kill(a) /\ h[a].kind # "pre"
Course(a) ==
  \/ CourseCall(a) \/ CourseFind(a) \/ CourseNew(a) \/ CourseOn(a) \/ CourseStep(a)
  \/ CourseTool(a) \/ CourseReturn(a) \/ CourseEnd(a) \/ CoursePhase(a) \/ CourseIdle(a)

LEMMA IdleFields ==
  /\ Idle.pc = "idle" /\ Idle.kind = "none" /\ Idle.call = None /\ Idle.step = None
  /\ Idle.act = NoActive /\ Idle.ep = None /\ Idle.row = NewRow /\ Idle.noticed = FALSE
  /\ Idle.m = NoMapping /\ Whole(Idle)
  BY DEF Idle, Whole

LEMMA LookupGives ==
  ASSUME NEW a, NEW hook, Whole(hook), hook.row = NewRow, NEW x, x = Lookup(a, hook)
  PROVE  /\ x.kind = hook.kind /\ x.call = hook.call /\ x.step = hook.step /\ x.act = hook.act
         /\ x.noticed = hook.noticed
         /\ \/ x.pc = "create" /\ x.ep = hook.ep /\ x.row = NewRow
            \/ /\ x.pc \in {"close", Work(hook.kind)} /\ Loaded[session[a]] # None
               /\ x.ep = Loaded[session[a]] /\ x.row = rows[x.ep] /\ x.row.outcome = "in_progress"
<1> DEFINE e == Loaded[session[a]]
<1>1. CASE x = [hook EXCEPT !.pc = "create", !.m = Loaded]
  BY <1>1 DEF Whole
<1>2. CASE /\ e # None /\ rows[e].outcome = "in_progress"
           /\ x = [[hook EXCEPT !.ep = e, !.row = rows[e]] EXCEPT !.pc = "close", !.m = Loaded]
  BY <1>2 DEF Whole
<1>3. CASE /\ e # None /\ rows[e].outcome = "in_progress"
           /\ x = [[hook EXCEPT !.ep = e, !.row = rows[e]] EXCEPT !.pc = Work(hook.kind)]
  BY <1>3 DEF Whole
<1> QED
  BY <1>1, <1>2, <1>3 DEF Lookup

LEMMA CourseOfHook ==
  ASSUME HooksSound, FilesSound, Rowless, NEW a \in Agents, HookStep(a)
  PROVE  Course(a)
<1> DEFINE g == h[a]
           x == h'[a]
<1>0. Whole(g)
  BY DEF HooksSound, Sound
<1>1. \A y : h' = [h EXCEPT ![a] = y] => x = y
  BY DEF HooksSound
<1>2. CASE FindEpisode(a)
  <2>1. x = Lookup(a, g) /\ g.row = NewRow
    BY <1>1, <1>2 DEF FindEpisode, Rowless
  <2> HIDE DEF x, g
  <2>2. /\ x.kind = g.kind /\ x.call = g.call /\ x.step = g.step /\ x.act = g.act
        /\ x.noticed = g.noticed
        /\ \/ x.pc = "create" /\ x.ep = g.ep /\ x.row = NewRow
           \/ /\ x.pc \in {"close", Work(g.kind)} /\ Loaded[session[a]] # None
              /\ x.ep = Loaded[session[a]] /\ x.row = rows[x.ep] /\ x.row.outcome = "in_progress"
    BY <1>0, <2>1, LookupGives
  <2> QED
    BY <1>2, <2>2, Placed DEF Course, CourseFind, Opened, Keeps, x, g
<1>3. CASE Close(a)
  <2>1. x = [g EXCEPT !.pc = "truncate", !.ep = None, !.row = NewRow]
    BY <1>1, <1>3 DEF Close
  <2>2. /\ Keeps(a) /\ x.act = g.act /\ x.pc = "truncate" /\ x.ep = None /\ x.row = NewRow
    BY <1>0, <2>1 DEF Whole, Keeps
  <2> QED
    BY <1>3, <2>2, Placed DEF Course, CourseNew
<1>4. CASE Create(a)
  <2>1. x = [g EXCEPT !.pc = "truncate", !.ep = Len(owner'), !.row = NewRow]
    BY <1>1, <1>4 DEF Create
  <2>2. /\ Keeps(a) /\ x.act = g.act /\ x.pc = "truncate" /\ x.ep = Len(owner') /\ x.row = NewRow
    BY <1>0, <2>1 DEF Whole, Keeps
  <2> QED
    BY <1>4, <2>2, Placed DEF Course, CourseNew
<1>5. CASE Finish(a) \/ Truncate(a) \/ WriteTmp(a) \/ Evaluate(a)
  <2>1. PICK p : /\ x = [g EXCEPT !.pc = p]
                 /\ \/ p = "truncate" /\ Finish(a)
                    \/ p = "fill" /\ Truncate(a)
                    \/ p = "replace" /\ WriteTmp(a)
                    \/ p = "phase" /\ Evaluate(a)
    BY <1>1, <1>5 DEF Finish, Truncate, WriteTmp, Evaluate, Goto
  <2>2. x.pc = p /\ Rests(a)
    BY <1>0, <2>1 DEF Whole, Rests, Keeps
  <2> QED
    BY <2>1, <2>2, Placed DEF Course, CourseOn
<1>6. CASE Fill(a)
  <2>1. CASE g.kind = "end"
    <3>1. x = Idle
      BY <1>1, <1>6, <2>1 DEF Fill, Done
    <3> QED
      BY <1>6, <2>1, <3>1, Placed DEF Course, CourseIdle
  <2>2. CASE g.kind # "end" /\ g.ep = None
    <3>1. x = [g EXCEPT !.pc = "create", !.m = mapping']
      BY <1>1, <1>6, <2>2 DEF Fill
    <3>2. x.pc = "create" /\ Rests(a)
      BY <1>0, <3>1 DEF Whole, Rests, Keeps
    <3> QED
      BY <1>6, <2>2, <3>2, Placed DEF Course, CourseOn
  <2>3. CASE g.kind # "end" /\ g.ep # None
    <3>1. x = [g EXCEPT !.pc = Work(g.kind), !.m = NoMapping]
      BY <1>1, <1>6, <2>3 DEF Fill
    <3>2. x.pc = Work(g.kind) /\ Rests(a)
      BY <1>0, <3>1 DEF Whole, Rests, Keeps
    <3> QED
      BY <1>6, <2>3, <3>2, Placed DEF Course, CourseOn
  <2> QED
    BY <2>1, <2>2, <2>3
<1>7. CASE CreateStep(a)
  <2>1. x = [g EXCEPT !.pc = "write_tmp", !.act = active]
    BY <1>1, <1>7 DEF CreateStep
  <2>2. Keeps(a) /\ x.act = active /\ x.pc = "write_tmp" /\ x.ep = g.ep /\ x.row = g.row
    BY <1>0, <2>1 DEF Whole, Keeps
  <2> QED
    BY <1>7, <2>2, Placed DEF Course, CourseStep
<1>8. CASE Replace(a)
  <2>1. CASE g.kind = "pre"
    <3>1. x = [g EXCEPT !.pc = "count"]
      BY <1>1, <1>8, <2>1 DEF Replace, Goto
    <3>2. x.pc = "count" /\ Rests(a)
      BY <1>0, <3>1 DEF Whole, Rests, Keeps
    <3> QED
      BY <1>8, <2>1, <3>2, Placed DEF Course, CourseOn
  <2>2. CASE g.kind # "pre"
    <3>1. x = Idle
      BY <1>1, <1>8, <2>2 DEF Replace, Done
    <3> QED
      BY <1>8, <2>2, <3>1, Placed DEF Course, CourseIdle
  <2> QED
    BY <2>1, <2>2
<1>9. CASE CountStep(a)
  <2>1. PICK n \in BOOLEAN : x = [Idle EXCEPT !.pc = "tool", !.kind = "tool", !.call = g.call,
                                              !.ep = g.ep, !.noticed = n]
    BY <1>1, <1>9 DEF CountStep, RepeatFailure
  <2>2. x.pc = "tool" /\ x.kind = "tool" /\ x.call = g.call /\ x.ep = g.ep
    BY <2>1 DEF Idle
  <2>3. x.step = None /\ x.act = NoActive /\ x.row = NewRow
    BY <2>1 DEF Idle
  <2>4. x.noticed = n
    BY <2>1 DEF Idle
  <2> QED
    BY <1>9, <2>1, <2>2, <2>3, <2>4, Placed DEF Course, CourseTool
<1>10. CASE ChangePhase(a)
  <2>1. x = [Idle EXCEPT !.pc = "write_tmp", !.kind = g.kind, !.act = active]
    BY <1>1, <1>10 DEF ChangePhase
  <2>2. /\ x.pc = "write_tmp" /\ x.kind = g.kind /\ x.call = None /\ x.step = None
        /\ x.act = active /\ x.ep = None /\ x.row = NewRow
    BY <2>1 DEF Idle
  <2>3. x.noticed = FALSE
    BY <2>1 DEF Idle
  <2> QED
    BY <1>10, <2>2, <2>3, Placed DEF Course, CoursePhase
<1> QED
  BY <1>2, <1>3, <1>4, <1>5, <1>6, <1>7, <1>8, <1>9, <1>10 DEF HookStep

LEMMA CourseOfHost ==
  ASSUME HooksSound, FilesSound, NEW a \in Agents, HostStep(a)
  PROVE  Course(a)
<1> DEFINE g == h[a]
           x == h'[a]
<1>1. \A y : h' = [h EXCEPT ![a] = y] => x = y
  BY DEF HooksSound
<1>2. CASE CallTool(a)
  <2>1. PICK y : y = [Idle EXCEPT !.kind = "pre", !.call = calls'] /\ x = Lookup(a, y)
    BY <1>1, <1>2 DEF CallTool
  <2>2. /\ Whole(y) /\ y.kind = "pre" /\ y.call = calls' /\ y.step = None /\ y.act = NoActive
        /\ y.ep = None /\ y.row = NewRow
    BY <2>1 DEF Idle, Whole
  <2>3. y.noticed = FALSE
    BY <2>1 DEF Idle
  <2>6. x = Lookup(a, y)
    BY <2>1
  <2> HIDE DEF x
  <2>4. /\ x.kind = y.kind /\ x.call = y.call /\ x.step = y.step /\ x.act = y.act
        /\ x.noticed = y.noticed
        /\ \/ x.pc = "create" /\ x.ep = y.ep /\ x.row = NewRow
           \/ /\ x.pc \in {"close", Work(y.kind)} /\ Loaded[session[a]] # None
              /\ x.ep = Loaded[session[a]] /\ x.row = rows[x.ep] /\ x.row.outcome = "in_progress"
    BY <2>2, <2>6, LookupGives
  <2>5. Work(y.kind) = "create_step"
    BY <2>2 DEF Work
  <2> QED
    BY <1>2, <2>2, <2>3, <2>4, <2>5, Placed DEF Course, CourseCall, Opened, x
<1>3. CASE ToolReturns(a)
  <2>1. CASE Done(a)
    BY <1>1, <1>3, <2>1, Placed DEF Done, Course, CourseIdle
  <2>2. CASE ~Done(a)
    <3>1. PICK k \in Evaluations :
            x = [Idle EXCEPT !.pc = "look_up", !.kind = k, !.call = g.call,
                             !.step = active[session[a]]]
      BY <1>1, <1>3, <2>2 DEF ToolReturns
    <3>2. active[session[a]] # None
      BY <1>3, <2>2 DEF ToolReturns
    <3>3. /\ x.pc = "look_up" /\ x.kind = k /\ x.call = g.call /\ x.step = active[session[a]]
          /\ x.act = NoActive /\ x.ep = None /\ x.row = NewRow
      BY <3>1 DEF Idle
    <3>4. x.noticed = FALSE
      BY <3>1 DEF Idle
    <3> QED
      BY <1>3, <3>2, <3>3, <3>4, Placed DEF Course, CourseReturn
  <2> QED
    BY <2>1, <2>2
<1>4. CASE ToolInterrupted(a)
  BY <1>1, <1>4, Placed DEF ToolInterrupted, Done, Course, CourseIdle
<1>5. CASE EndSession(a)
  <2>1. x = [Idle EXCEPT !.pc = "finish", !.kind = "end", !.m = Loaded]
    BY <1>1, <1>5 DEF EndSession
  <2>2. /\ x.pc = "finish" /\ x.kind = "end" /\ x.call = None /\ x.ep = None
        /\ x.step = None /\ x.act = NoActive /\ x.row = NewRow
    BY <2>1 DEF Idle
  <2>3. x.noticed = FALSE
    BY <2>1 DEF Idle
  <2> QED
    BY <1>5, <2>2, <2>3, Placed DEF Course, CourseEnd
<1>6. CASE Kill(a)
  <2>1. CASE g.kind # "pre"
    <3>1. x = Idle
      BY <1>1, <1>6, <2>1 DEF Kill
    <3> QED
      BY <1>6, <2>1, <3>1 DEF Course, CourseIdle
  <2>2. CASE g.kind = "pre"
    <3>1. x = [Idle EXCEPT !.pc = "tool", !.kind = "tool", !.call = g.call]
      BY <1>1, <1>6, <2>2 DEF Kill
    <3>2. /\ x.pc = "tool" /\ x.kind = "tool" /\ x.call = g.call /\ x.ep = None
          /\ x.step = None /\ x.act = NoActive /\ x.row = NewRow
      BY <3>1 DEF Idle
    <3>3. x.noticed = FALSE
      BY <3>1 DEF Idle
    <3> QED
      BY <1>6, <2>2, <3>2, <3>3 DEF Course, CourseTool
  <2> QED
    BY <2>1, <2>2
<1> QED
  BY <1>2, <1>3, <1>4, <1>5, <1>6 DEF HostStep

\* What a step does to the table of steps, and to the files of active ones.
LEMMA Writes ==
  ASSUME FilesSound, NEW a \in Agents, Step(a)
  PROVE  /\ (CallTool(a) /\ calls' = calls + 1) \/ (~CallTool(a) /\ calls' = calls)
         /\ owner' = owner \/ \E s \in Sessions : owner' = Append(owner, s)
         /\ \/ CreateStep(a) /\ steps' = [steps EXCEPT ![h[a].call] = [NoStep EXCEPT !.ep = h[a].ep]]
            \/ /\ Evaluate(a)
               /\ steps' = [steps EXCEPT ![h[a].step] =
                              [ep |-> h[a].ep, eval |-> h[a].kind, by |-> h[a].call]]
            \/ ~CreateStep(a) /\ ~Evaluate(a) /\ steps' = steps
         /\ active' = active \/ (Replace(a) /\ active' = Moved)
         /\ tmp' \in {tmp, NoTmp} \/ WriteTmp(a)
<1> USE DEF Step, HookStep, HostStep
<1>1. (CallTool(a) /\ calls' = calls + 1) \/ (~CallTool(a) /\ calls' = calls)
  BY DEF CallTool, ToolReturns, ToolInterrupted, EndSession, Kill, FindEpisode, Close, Create, Finish,
         Truncate, Fill, CreateStep, WriteTmp, Replace, CountStep, Evaluate, ChangePhase, world
<1>2. owner' = owner \/ \E s \in Sessions : owner' = Append(owner, s)
  BY DEF CallTool, ToolReturns, ToolInterrupted, EndSession, Kill, FindEpisode, Close, Create, Finish,
         Truncate, Fill, CreateStep, WriteTmp, Replace, CountStep, Evaluate, ChangePhase, world,
         FilesSound
<1>3. CASE CreateStep(a) \/ Evaluate(a)
  BY <1>1, <1>2, <1>3 DEF CreateStep, Evaluate, EvaluatedIn
<1>4. CASE ~CreateStep(a) /\ ~Evaluate(a)
  <2>1. steps' = steps
    BY <1>4 DEF CallTool, ToolReturns, ToolInterrupted, EndSession, Kill, FindEpisode, Close, Create,
                Finish, Truncate, Fill, WriteTmp, Replace, CountStep, ChangePhase, files
  <2>2. active' = active \/ (Replace(a) /\ active' = Moved)
    BY <1>4 DEF CallTool, ToolReturns, ToolInterrupted, EndSession, Kill, FindEpisode, Close, Create,
                Finish, Truncate, Fill, WriteTmp, Replace, CountStep, ChangePhase, files
  <2>3. tmp' \in {tmp, NoTmp} \/ WriteTmp(a)
    BY <1>4 DEF CallTool, ToolReturns, ToolInterrupted, EndSession, Kill, FindEpisode, Close, Create,
                Finish, Truncate, Fill, Replace, CountStep, ChangePhase, files
  <2> QED
    BY <1>1, <1>2, <1>4, <2>1, <2>2, <2>3
<1> QED
  BY <1>3, <1>4

\* What is known of calls, with what was known of hooks and rows.
CallsInv == IInv /\ RowsSound /\ Rowless /\ StepsKept

LEMMA CallBounds ==
  ASSUME CallsInv, NEW a \in Agents
  PROVE  /\ calls \in Nat /\ calls <= MaxCalls /\ 1..calls \subseteq Calls
         /\ h[a].call \in Nat /\ h[a].call <= calls
         /\ h[a].step # None => OfSession(session[a], h[a].step) /\ h[a].step \in Calls
         /\ h[a].call # None => h[a].call \in Calls
<1>1. calls \in Nat /\ calls <= MaxCalls /\ 1..calls \subseteq Calls
  BY EpisodesAssumption DEF CallsInv, IInv, FilesSound, Calls, EpisodesAssumption
<1>2. h[a].call \in 0..calls /\ (h[a].step # None => OfSession(session[a], h[a].step))
  BY DEF CallsInv, StepsKept, InHand
<1> QED
  BY <1>1, <1>2 DEF OfSession, None

\* The step that is evaluated is one of the agent's session.
LEMMA EvaluatesOwn ==
  ASSUME CallsInv, NEW a \in Agents, h[a].pc = "evaluate"
  PROVE  /\ h[a].step # None /\ OfSession(session[a], h[a].step) /\ h[a].step \in Calls
         /\ h[a].ep # None /\ h[a].ep \in Episodes /\ owner[h[a].ep] = session[a]
         /\ h[a].kind \in Evaluations /\ h[a].call # None
<1>1. Busy(h[a]) /\ Sound(a, h[a])
  BY DEF CallsInv, StepsKept, IInv, HooksSound
<1> QED
  BY <1>1, CallBounds DEF Busy, Sound

LEMMA OfSessionStays ==
  ASSUME CallsInv, NEW a \in Agents, Step(a), NEW s, NEW c, OfSession(s, c)
  PROVE  OfSession(s, c)'
<1>0. /\ c \in 1..calls /\ c \in Calls /\ steps[c].ep # None /\ owner[steps[c].ep] = s
      /\ steps[c].ep \in Episodes /\ calls \in Nat
      /\ steps = [d \in Calls |-> steps[d]]
  BY CallBounds DEF OfSession, CallsInv, IInv, FilesSound
<1>1. c \in 1..calls'
  <2>1. calls' = calls + 1 \/ calls' = calls
    BY Writes DEF CallsInv, IInv
  <2> QED
    BY <1>0, <2>1
<1>2. \A e \in Episodes : owner'[e] = owner[e]
  BY Writes, OwnersStay DEF CallsInv, IInv
<1>3. CASE steps'[c] = steps[c]
  BY <1>0, <1>1, <1>2, <1>3 DEF OfSession
<1>4. CASE CreateStep(a) /\ c = h[a].call /\ steps'[c].ep = h[a].ep
  <2>1. h[a].pc = "create_step" /\ Busy(h[a]) /\ InHand(a, h[a])
    BY <1>4 DEF CreateStep, CallsInv, StepsKept
  <2>2. steps[c] = NoStep
    BY <1>4, <2>1 DEF InHand, Busy, Early
  <2> QED
    BY <1>0, <2>2 DEF NoStep
<1>5. CASE Evaluate(a) /\ c = h[a].step /\ steps'[c].ep = h[a].ep
  <2>1. h[a].ep # None /\ h[a].ep \in Episodes /\ owner[h[a].ep] = session[a] /\ OfSession(session[a], c)
    BY <1>5, EvaluatesOwn DEF Evaluate
  <2>2. session[a] = s
    BY <1>0, <2>1 DEF OfSession
  <2> QED
    BY <1>1, <1>2, <1>5, <2>1, <2>2 DEF OfSession
<1>6. \/ steps'[c] = steps[c]
      \/ CreateStep(a) /\ c = h[a].call /\ steps'[c].ep = h[a].ep
      \/ Evaluate(a) /\ c = h[a].step /\ steps'[c].ep = h[a].ep
  <2>1. CASE CreateStep(a) /\ steps' = [steps EXCEPT ![h[a].call] = [NoStep EXCEPT !.ep = h[a].ep]]
    BY <1>0, <2>1 DEF NoStep
  <2>2. CASE /\ Evaluate(a)
             /\ steps' = [steps EXCEPT ![h[a].step] =
                            [ep |-> h[a].ep, eval |-> h[a].kind, by |-> h[a].call]]
    BY <1>0, <2>2
  <2> QED
    BY <2>1, <2>2, Writes DEF CallsInv, IInv
<1> QED
  BY <1>3, <1>4, <1>5, <1>6

LEMMA NoStepStays ==
  ASSUME CallsInv, NEW a \in Agents, Step(a), NEW c \in Calls, steps[c] = NoStep, c # h[a].call
  PROVE  steps'[c] = NoStep
<1>1. steps = [d \in Calls |-> steps[d]]
  BY DEF CallsInv, IInv, FilesSound
<1>2. CASE CreateStep(a) /\ steps' = [steps EXCEPT ![h[a].call] = [NoStep EXCEPT !.ep = h[a].ep]]
  BY <1>1, <1>2
<1>3. CASE /\ Evaluate(a)
           /\ steps' = [steps EXCEPT ![h[a].step] =
                          [ep |-> h[a].ep, eval |-> h[a].kind, by |-> h[a].call]]
  <2>1. OfSession(session[a], h[a].step)
    BY <1>3, EvaluatesOwn DEF Evaluate
  <2>2. c # h[a].step
    BY <2>1 DEF OfSession, NoStep
  <2> QED
    BY <1>1, <1>3, <2>2
<1> QED
  BY <1>2, <1>3, Writes DEF CallsInv, IInv

LEMMA EntriesStay ==
  ASSUME CallsInv, NEW a \in Agents, Step(a), NEW m, Entries(m)
  PROVE  Entries(m)'
  BY OfSessionStays DEF Entries

LEMMA FilesKept ==
  ASSUME CallsInv, NEW a \in Agents, Step(a)
  PROVE  /\ Entries(active)' /\ (tmp' # NoTmp => Entries(tmp)')
         /\ \A c \in Calls : c > calls' => steps'[c] = NoStep
<1>0. Entries(active) /\ (tmp # NoTmp => Entries(tmp)) /\ Entries(h[a].act)
  BY DEF CallsInv, StepsKept, InHand
<1>1. Entries(active)'
  <2>1. active' = active \/ (tmp # NoTmp /\ active' = tmp)
    BY Writes DEF CallsInv, IInv, Moved
  <2>2. CASE active' = active
    BY <1>0, <2>2, OfSessionStays DEF Entries
  <2>3. CASE tmp # NoTmp /\ active' = tmp
    BY <1>0, <2>3, OfSessionStays DEF Entries
  <2> QED
    BY <2>1, <2>2, <2>3
<1>2. tmp' # NoTmp => Entries(tmp)'
  <2>1. CASE tmp' \in {tmp, NoTmp}
    BY <1>0, <2>1, OfSessionStays DEF Entries
  <2>2. CASE WriteTmp(a)
    <3>1. Entry(a) # None => OfSession(session[a], Entry(a))
      BY <2>2 DEF WriteTmp, Entry, CallsInv, StepsKept, InHand, Busy, Early
    <3>2. \A s \in Sessions : tmp'[s] # None => OfSession(s, tmp'[s])
      BY <1>0, <2>2, <3>1 DEF WriteTmp, Entries
    <3> QED
      BY <3>2, OfSessionStays DEF Entries
  <2> QED
    BY <2>1, <2>2, Writes DEF CallsInv, IInv
<1>3. ASSUME NEW c \in Calls, c > calls' PROVE steps'[c] = NoStep
  <2>0. c \in Nat /\ calls \in Nat
    BY CallBounds, EpisodesAssumption DEF Calls, EpisodesAssumption
  <2>3. calls' = calls + 1 \/ calls' = calls
    BY Writes DEF CallsInv, IInv
  <2>1. c \in Nat /\ calls \in Nat /\ calls' \in Nat /\ calls <= calls'
    BY <2>0, <2>3
  <2>2. c > calls /\ c # h[a].call
    BY <1>3, <2>1, CallBounds
  <2> QED
    BY <2>2, NoStepStays DEF CallsInv, StepsKept
<1> QED
  BY <1>1, <1>2, <1>3

LEMMA StaysBusy ==
  ASSUME CallsInv, NEW a \in Agents, Step(a), Course(a)
  PROVE  Busy(h'[a])
<1> DEFINE g == h[a]
           x == h'[a]
<1>0. Busy(g)
  BY DEF CallsInv, StepsKept
<1> USE DEF Places, Kinds, Evaluations
<1>1. CASE CourseIdle(a)
  BY <1>1, IdleFields DEF CourseIdle, Busy
<1>2. CASE CourseCall(a)
  <2>1. calls' # None
    BY <1>2, CallBounds DEF CourseCall, CallTool, None
  <2> QED
    BY <1>2, <2>1 DEF CourseCall, Busy
<1>3. CASE CourseFind(a)
  BY <1>0, <1>3 DEF CourseFind, Keeps, Busy, Work
<1>4. CASE CourseNew(a)
  BY <1>0, <1>4 DEF CourseNew, Keeps, Busy
<1>5. CASE CourseOn(a)
  BY <1>0, <1>5 DEF CourseOn, Rests, Keeps, Busy, Work
<1>6. CASE CourseStep(a)
  BY <1>0, <1>6 DEF CourseStep, Keeps, Busy
<1>7. CASE CourseTool(a)
  BY <1>0, <1>7 DEF CourseTool, Busy
<1>8. CASE CourseReturn(a)
  BY <1>0, <1>8 DEF CourseReturn, Busy
<1>9. CASE CourseEnd(a)
  BY <1>9 DEF CourseEnd, Busy
<1>10. CASE CoursePhase(a)
  BY <1>0, <1>10 DEF CoursePhase, Busy
<1> QED
  BY <1>1, <1>2, <1>3, <1>4, <1>5, <1>6, <1>7, <1>8, <1>9, <1>10 DEF Course

\* What a step leaves in its agent's hand: its call, its step and the active
\* steps it has read are those it had, or it has just got them.
LEMMA HandMoves ==
  ASSUME CallsInv, NEW a \in Agents, Course(a)
  PROVE  /\ h'[a].call \in {h[a].call, None} \/ (CourseCall(a) /\ h'[a].call = calls')
         /\ h'[a].step \in {h[a].step, None, active[session[a]]}
         /\ h'[a].act \in {h[a].act, active, NoActive}
  BY IdleFields DEF Course, CourseIdle, CourseCall, CourseFind, CourseNew, CourseOn, CourseStep,
                    CourseTool, CourseReturn, CourseEnd, CoursePhase, Keeps, Rests

LEMMA StaysInHand ==
  ASSUME CallsInv, NEW a \in Agents, Step(a), Course(a)
  PROVE  InHand(a, h[a])'
<1> DEFINE g == h[a]
           x == h'[a]
<1>0. /\ Busy(g) /\ InHand(a, g) /\ Entries(active) /\ session[a] \in Sessions
      /\ session'[a] = session[a]
  BY DEF CallsInv, StepsKept, IInv, FilesSound, Step
<1>1. calls \in Nat /\ calls' \in {calls, calls + 1} /\ g.call \in Nat /\ g.call <= calls
  BY CallBounds, Writes DEF CallsInv, IInv
<1> DEFINE Own(c) == c \in 1..calls' /\ steps'[c].ep # None /\ owner'[steps'[c].ep] = session[a]
<1>2. \A c : OfSession(session[a], c) => Own(c)
  <2> TAKE c
  <2>1. \A s : OfSession(s, c) => OfSession(s, c)'
    BY OfSessionStays
  <2> QED
    BY <2>1 DEF OfSession
\* A call that has just begun has no step.
<1>3. CourseCall(a) => /\ calls' \in Calls /\ calls' > calls /\ steps'[calls'] = NoStep
  <2> SUFFICES ASSUME CourseCall(a)
               PROVE  calls' \in Calls /\ calls' > calls /\ steps'[calls'] = NoStep
    OBVIOUS
  <2>1. calls' = calls + 1 /\ calls < MaxCalls
    BY DEF CourseCall, CallTool
  <2>2. MaxCalls \in Nat
    BY EpisodesAssumption DEF EpisodesAssumption
  <2>3. calls' \in Calls /\ calls' > calls /\ g.call # calls'
    BY <1>1, <2>1, <2>2 DEF Calls
  <2>4. ~CreateStep(a) /\ ~Evaluate(a)
    BY Placed DEF CourseCall
  <2>5. steps' = steps
    BY <2>4, Writes DEF CallsInv, IInv
  <2> QED
    BY <2>3, <2>5 DEF CallsInv, StepsKept
<1>4. x.call \in 0..calls'
  BY <1>1, <1>3, HandMoves DEF None
<1>5. x.step # None => Own(x.step)
  <2>1. active[session[a]] # None => OfSession(session[a], active[session[a]])
    BY <1>0 DEF Entries
  <2>2. x.step # None => OfSession(session[a], x.step)
    BY <1>0, <2>1, HandMoves DEF InHand
  <2> QED
    BY <1>2, <2>2
<1>6. \A s \in Sessions : x.act[s] # None =>
        /\ x.act[s] \in 1..calls' /\ steps'[x.act[s]].ep # None
        /\ owner'[steps'[x.act[s]].ep] = s
  <2>1. Entries(NoActive)
    BY DEF Entries, NoActive
  <2>2. Entries(x.act)
    BY <1>0, <2>1, HandMoves DEF InHand
  <2>3. \A s, c : OfSession(s, c) => OfSession(s, c)'
    BY OfSessionStays
  <2> QED
    BY <2>2, <2>3 DEF Entries, OfSession
\* The step of its call is created in an episode of its session.
<1>7. CreateStep(a) => /\ g.call # None /\ g.call \in Calls /\ steps'[g.call].ep = g.ep
                       /\ g.ep # None /\ owner'[g.ep] = session[a] /\ g.call \in 1..calls'
  <2> SUFFICES ASSUME CreateStep(a)
               PROVE  /\ g.call # None /\ g.call \in Calls /\ steps'[g.call].ep = g.ep
                      /\ g.ep # None /\ owner'[g.ep] = session[a] /\ g.call \in 1..calls'
    OBVIOUS
  <2>1. g.pc = "create_step" /\ Sound(a, g)
    BY DEF CreateStep, CallsInv, IInv, HooksSound
  <2>2. g.call # None /\ g.ep # None /\ owner[g.ep] = session[a]
    BY <1>0, <2>1 DEF Busy, Sound
  <2>3. g.call \in Calls
    BY <2>2, CallBounds
  <2>4. steps' = [steps EXCEPT ![g.call] = [NoStep EXCEPT !.ep = g.ep]] /\ owner' = owner
    BY DEF CreateStep, world
  <2>5. steps'[g.call].ep = g.ep
    BY <2>3, <2>4 DEF CallsInv, IInv, FilesSound, NoStep
  <2> QED
    BY <1>1, <2>2, <2>3, <2>4, <2>5 DEF None
\* The steps that it neither creates nor evaluates stay as they are.
<1>8. ~CreateStep(a) /\ g.call # None /\ steps[g.call] = NoStep => steps'[g.call] = NoStep
  <2> SUFFICES ASSUME ~CreateStep(a), g.call # None, steps[g.call] = NoStep
               PROVE  steps'[g.call] = NoStep
    OBVIOUS
  <2>1. CASE Evaluate(a)
    <3>1. OfSession(session[a], g.step) /\ g.step \in Calls
      BY <2>1, EvaluatesOwn DEF Evaluate
    <3>2. g.step # g.call
      BY <3>1 DEF OfSession, NoStep
    <3> QED
      BY <2>1, <3>2, CallBounds DEF Evaluate, CallsInv, IInv, FilesSound
  <2>2. CASE ~Evaluate(a)
    <3>1. steps' = steps
      BY <2>2, Writes DEF CallsInv, IInv
    <3> QED
      BY <3>1
  <2> QED
    BY <2>1, <2>2
<1>9. x.call # None /\ steps'[x.call].ep # None => Own(x.call)
  <2> SUFFICES ASSUME x.call # None, steps'[x.call].ep # None
               PROVE  Own(x.call)
    OBVIOUS
  <2>1. CASE CourseCall(a) /\ x.call = calls'
    BY <1>3, <2>1 DEF NoStep
  <2>2. CASE x.call = g.call
    <3>1. CASE CreateStep(a)
      BY <1>7, <2>2, <3>1
    <3>2. CASE ~CreateStep(a) /\ steps[g.call].ep # None
      BY <1>0, <1>2, <2>2, <3>2 DEF InHand
    <3>3. CASE ~CreateStep(a) /\ steps[g.call].ep = None
      <4>1. Evaluate(a) => g.step # g.call
        BY <3>3, EvaluatesOwn DEF Evaluate, OfSession
      <4>2. g.call \in Calls
        BY <2>2, CallBounds
      <4>3. steps'[g.call] = steps[g.call]
        BY <3>3, <4>1, <4>2, Writes DEF CallsInv, IInv, FilesSound
      <4> QED
        BY <2>2, <3>3, <4>3
    <3> QED
      BY <3>1, <3>2, <3>3
  <2> QED
    BY <2>1, <2>2, HandMoves
<1>10. x.kind = "pre" => IF x.pc \in Early THEN steps'[x.call] = NoStep ELSE steps'[x.call].ep # None
  <2> SUFFICES ASSUME x.kind = "pre"
               PROVE  IF x.pc \in Early THEN steps'[x.call] = NoStep ELSE steps'[x.call].ep # None
    OBVIOUS
  <2>1. CASE CourseCall(a)
    BY <1>3, <2>1 DEF CourseCall, Early
  <2>2. CASE CourseNew(a) \/ CourseOn(a) \/ CourseStep(a)
    <3>1. g.kind = "pre" /\ x.call = g.call /\ g.call # None
      BY <1>0, <2>2 DEF CourseNew, CourseOn, CourseStep, Keeps, Rests, Busy
    <3>2. CASE CourseNew(a)
      <4>1. g.pc \in Early /\ x.pc \in Early /\ ~CreateStep(a)
        BY <3>2, Placed DEF CourseNew, Early
      <4> QED
        BY <1>0, <1>8, <3>1, <4>1 DEF InHand
    <3>3. CASE CourseStep(a)
      BY <1>7, <3>1, <3>3 DEF CourseStep, Early
    <3>4. CASE CourseOn(a)
      <4>1. g.pc \in Early <=> x.pc \in Early
        BY <1>0, <3>1, <3>4 DEF CourseOn, Early, Work, Busy, Evaluations
      <4>2. ~CreateStep(a)
        BY <3>4, Placed DEF CourseOn
      <4>3. steps[g.call].ep # None => steps'[g.call].ep # None
        BY <1>0, <1>2, <3>1 DEF InHand
      <4> QED
        BY <1>0, <1>8, <3>1, <4>1, <4>2, <4>3 DEF InHand
    <3> QED
      BY <2>2, <3>2, <3>3, <3>4
  <2>3. CASE CourseFind(a) \/ CourseTool(a) \/ CourseReturn(a) \/ CourseEnd(a) \/ CoursePhase(a)
             \/ CourseIdle(a)
    BY <1>0, <2>3, IdleFields DEF CourseFind, CourseTool, CourseReturn, CourseEnd, CoursePhase,
                                  CourseIdle, Keeps, Busy, Evaluations
  <2> QED
    BY <2>1, <2>2, <2>3 DEF Course
<1> QED
  BY <1>0, <1>4, <1>5, <1>6, <1>9, <1>10 DEF InHand, OfSession, Entries

\* What the others have in hand stays there.
LEMMA OthersInHand ==
  ASSUME CallsInv, NEW a \in Agents, Step(a), NEW b \in Agents \ {a}
  PROVE  InHand(b, h[b])' /\ Busy(h'[b])
<1> DEFINE y == h[b]
           Own(c) == c \in 1..calls' /\ steps'[c].ep # None /\ owner'[steps'[c].ep] = session[b]
<1>0. /\ h'[b] = y /\ session'[b] = session[b] /\ session[b] \in Sessions
      /\ Busy(y) /\ InHand(b, y)
      /\ y.call # None => y.call # h[a].call
  BY DEF CallsInv, StepsKept, IInv, FilesSound, Step
<1>1. calls \in Nat /\ calls' \in {calls, calls + 1} /\ y.call \in Nat /\ y.call <= calls
  BY CallBounds, Writes DEF CallsInv, IInv
<1>2. \A s, c : OfSession(s, c) => OfSession(s, c)'
  BY OfSessionStays
<1>3. \A c : OfSession(session[b], c) => Own(c)
  BY <1>2 DEF OfSession
<1>4. y.call # None /\ steps'[y.call].ep # None => Own(y.call)
  <2> SUFFICES ASSUME y.call # None, steps'[y.call].ep # None
               PROVE  Own(y.call)
    OBVIOUS
  <2>1. CASE steps[y.call].ep # None
    BY <1>0, <1>3, <2>1 DEF InHand
  <2>2. CASE steps[y.call].ep = None
    <3>1. Evaluate(a) => h[a].step # y.call
      BY <2>2, EvaluatesOwn DEF Evaluate, OfSession
    <3>2. y.call \in Calls
      BY CallBounds
    <3>3. steps'[y.call] = steps[y.call]
      BY <1>0, <3>1, <3>2, Writes DEF CallsInv, IInv, FilesSound
    <3> QED
      BY <2>2, <3>3
  <2> QED
    BY <2>1, <2>2
<1>5. y.kind = "pre" =>
        IF y.pc \in Early THEN steps'[y.call] = NoStep ELSE steps'[y.call].ep # None
  <2> SUFFICES ASSUME y.kind = "pre"
               PROVE  IF y.pc \in Early THEN steps'[y.call] = NoStep ELSE steps'[y.call].ep # None
    OBVIOUS
  <2>1. y.call # None /\ y.call \in Calls
    BY <1>0, CallBounds DEF Busy
  <2>2. CASE y.pc \in Early
    BY <1>0, <2>1, <2>2, NoStepStays DEF InHand
  <2>3. CASE y.pc \notin Early
    BY <1>0, <1>3, <2>1, <2>3 DEF InHand
  <2> QED
    BY <2>2, <2>3
<1>6. \A s \in Sessions : y.act[s] # None =>
        /\ y.act[s] \in 1..calls' /\ steps'[y.act[s]].ep # None
        /\ owner'[steps'[y.act[s]].ep] = s
  BY <1>0, <1>2 DEF InHand, Entries, OfSession
<1>7. y.call \in 0..calls' /\ (y.step # None => Own(y.step))
  BY <1>0, <1>1, <1>3 DEF InHand
<1> QED
  BY <1>0, <1>4, <1>5, <1>6, <1>7 DEF InHand, OfSession, Entries

LEMMA CallsApart ==
  ASSUME CallsInv, NEW a \in Agents, Step(a), Course(a)
  PROVE  (\A c, b \in Agents : c # b /\ h[c].call # None => h[c].call # h[b].call)'
<1>1. \A b \in Agents \ {a} : h'[b] = h[b] /\ h[b].call \in Nat /\ h[b].call <= calls
  BY CallBounds DEF Step
<1>2. h'[a].call \in {h[a].call, None} \/ (h'[a].call = calls + 1 /\ calls \in Nat)
  <2>1. CourseCall(a) => calls' = calls + 1 /\ calls \in Nat
    BY CallBounds DEF CourseCall, CallTool
  <2> QED
    BY <2>1, HandMoves
<1>3. \A b \in Agents \ {a} : h'[a].call # None => h'[a].call # h[b].call
  BY <1>1, <1>2 DEF CallsInv, StepsKept
<1> SUFFICES ASSUME NEW c \in Agents, NEW b \in Agents, c # b, h'[c].call # None
             PROVE  h'[c].call # h'[b].call
  OBVIOUS
<1>4. CASE c = a
  BY <1>1, <1>3, <1>4
<1>5. CASE b = a
  BY <1>1, <1>3, <1>5
<1>6. CASE c # a /\ b # a
  BY <1>1, <1>6 DEF CallsInv, StepsKept
<1> QED
  BY <1>4, <1>5, <1>6

LEMMA InitCallsInv == Init => CallsInv
<1> SUFFICES ASSUME Init PROVE CallsInv
  OBVIOUS
<1>1. IInv /\ RowsSound /\ Rowless
  BY InitOpenInv DEF OpenInv
<1>2. \A a \in Agents : h[a] = Idle
  BY DEF Init
<1>3. Entries(NoActive)
  BY DEF Entries, NoActive
<1>4. \A a \in Agents : Busy(h[a]) /\ InHand(a, h[a])
  <2>1. Busy(Idle)
    BY IdleFields DEF Busy, Places, Kinds, Evaluations
  <2>2. None \in 0..calls
    BY DEF Init, None
  <2>3. \A a \in Agents : InHand(a, Idle)
    BY <1>3, <2>2, IdleFields DEF InHand
  <2> QED
    BY <1>2, <2>1, <2>3
<1>5. Entries(active) /\ tmp = NoTmp /\ \A c \in Calls : steps[c] = NoStep
  BY <1>3 DEF Init
<1> QED
  BY <1>1, <1>2, <1>4, <1>5, IdleFields DEF CallsInv, StepsKept

LEMMA AgentCallsInv ==
  ASSUME CallsInv, NEW a \in Agents, HookStep(a) \/ HostStep(a)
  PROVE  CallsInv' /\ Step(a) /\ Course(a)
<1>1. IInv' /\ Step(a) /\ Course(a) /\ Move(a)
  BY StepIInv, StepIsStep, CourseOfHook, CourseOfHost, MoveOfHook, MoveOfHost
     DEF CallsInv, IInv, Next
<1>2. RowsSound' /\ Rowless'
  BY <1>1, RowsStaySound DEF CallsInv, IInv
<1>3. \A b \in Agents : Busy(h'[b]) /\ InHand(b, h[b])'
  BY <1>1, StaysBusy, StaysInHand, OthersInHand
<1>4. StepsKept'
  BY <1>1, <1>3, FilesKept, CallsApart DEF StepsKept
<1> QED
  BY <1>1, <1>2, <1>4 DEF CallsInv

LEMMA StepCallsInv == CallsInv /\ [Next]_vars => CallsInv'
<1> SUFFICES ASSUME CallsInv, [Next]_vars PROVE CallsInv'
  OBVIOUS
<1>1. CASE HalfAnHour \/ UNCHANGED vars
  <2>1. UNCHANGED <<files, h, session, owner, calls, history>>
    BY <1>1 DEF HalfAnHour, vars, world
  <2>2. RowsSound' /\ Rowless' /\ StepsKept'
    BY <2>1 DEF CallsInv, RowsSound, Rowless, StepsKept, InHand, Entries, OfSession, files
  <2> QED
    BY <2>2, StepIInv DEF CallsInv
<1>2. CASE \E a \in Agents : HookStep(a) \/ HostStep(a)
  BY <1>2, AgentCallsInv
<1> QED
  BY <1>1, <1>2 DEF Next

-----------------------------------------------------------------------------
(* The rows that hooks have read.                                          *)

\* A hook that has ended has forgotten everything, one at the end of a session
\* has no episode of its own, and a row in memory is that of an open episode.
Resting ==
  \A a \in Agents : /\ h[a].pc = "idle" => h[a] = Idle
                    /\ h[a].pc = "finish" => h[a].ep = None
                    /\ h[a].row.outcome = "in_progress"

\* In a session whose calls do not overlap the row in memory is the one in the file.
RowsSeen ==
  \A a \in Agents : session[a] \notin parallel /\ h[a].ep # None /\ h[a].pc # "tool"
                      => rows[h[a].ep] = h[a].row

SeenInv == CallsInv /\ Resting /\ RowsSeen

LEMMA StaysResting ==
  ASSUME CallsInv, Resting, NEW a \in Agents, Step(a), Course(a)
  PROVE  Resting'
<1>1. NewRow.outcome = "in_progress"
  BY NewRowIsRow
<1>2. /\ h'[a].pc = "idle" => h'[a] = Idle
      /\ h'[a].pc = "finish" => h'[a].ep = None
  BY IdleFields DEF Course, CourseIdle, CourseCall, CourseFind, CourseNew, CourseOn, CourseStep,
       CourseTool, CourseReturn, CourseEnd, CoursePhase, Work
<1>3. h'[a].row.outcome = "in_progress"
  <2>1. h'[a].row \in {NewRow, h[a].row} \/ h'[a].row.outcome = "in_progress"
    BY IdleFields DEF Course, CourseIdle, CourseCall, CourseFind, CourseNew, CourseOn, CourseStep,
         CourseTool, CourseReturn, CourseEnd, CoursePhase, Rests, Opened
  <2> QED
    BY <1>1, <2>1 DEF Resting
<1> QED
  BY <1>2, <1>3 DEF Resting, Step

\* A step writes to rows of its own session, and to which, depends on the step.
LEMMA RowWrites ==
  ASSUME CallsInv, NEW a \in Agents, Step(a), NEW e \in Episodes
  PROVE  /\ e \in Episodes' /\ owner'[e] = owner[e]
         /\ \/ rows'[e] = rows[e]
            \/ Close(a) /\ e = h[a].ep /\ rows'[e] = Closed(h[a].row, AutoOutcome(e))
            \/ Finish(a) /\ e = h[a].m[session[a]] /\ rows'[e] = Closed(rows[e], EndOutcome(e))
            \/ CountStep(a) /\ e = h[a].ep /\ rows'[e] = [h[a].row EXCEPT !.count = @ + 1]
            \/ ChangePhase(a) /\ e = h[a].ep
         /\ rows'[e] # rows[e] => owner[e] = session[a]
<1> DEFINE g == h[a]
<1>0. /\ rows \in Seq(AnyRow) /\ Len(rows) = Len(owner) /\ DOMAIN rows = 1..Len(rows) /\ e \in DOMAIN rows
      /\ e # None
  BY DEF CallsInv, RowsSound, Episodes, None
<1>1. e \in Episodes' /\ owner'[e] = owner[e]
  BY Writes, OwnersStay DEF CallsInv, IInv
<1>2. /\ e = g.ep => owner[e] = session[a]
      /\ e = g.m[session[a]] => owner[e] = session[a]
  <2>1. Sound(a, g) /\ session[a] \in Sessions
    BY DEF CallsInv, IInv, HooksSound, FilesSound
  <2> QED
    BY <1>0, <2>1 DEF Sound, Owned
<1>3. CASE Close(a)
  BY <1>0, <1>1, <1>2, <1>3 DEF Close
<1>4. CASE Finish(a)
  BY <1>0, <1>1, <1>2, <1>4 DEF Finish
<1>5. CASE Create(a)
  BY <1>0, <1>1, <1>5 DEF Create
<1>6. CASE CountStep(a)
  BY <1>0, <1>1, <1>2, <1>6 DEF CountStep
<1>7. CASE ChangePhase(a)
  <2>1. e = g.ep \/ rows'[e] = rows[e]
    BY <1>0, <1>7 DEF ChangePhase
  <2> QED
    BY <1>1, <1>2, <1>7, <2>1
<1>8. CASE ~Close(a) /\ ~Finish(a) /\ ~Create(a) /\ ~CountStep(a) /\ ~ChangePhase(a)
  <2>1. rows' = rows
    BY <1>8 DEF Step, HookStep, HostStep, CallTool, ToolReturns, ToolInterrupted, EndSession, Kill,
                FindEpisode, Truncate, Fill, CreateStep, WriteTmp, Replace, Evaluate, files
  <2> QED
    BY <1>1, <2>1
<1> QED
  BY <1>3, <1>4, <1>5, <1>6, <1>7, <1>8

LEMMA StaysSeen ==
  ASSUME SeenInv, NEW a \in Agents, Step(a), Course(a)
  PROVE  RowsSeen'
<1> SUFFICES ASSUME NEW b \in Agents, session'[b] \notin parallel', h'[b].ep # None,
                    h'[b].pc # "tool"
             PROVE  rows'[h'[b].ep] = h'[b].row
  BY DEF RowsSeen
<1>0. /\ session' = session /\ session[b] \notin parallel /\ session[b] \in Sessions
      /\ Sound(b, h[b])
  BY DEF Step, SeenInv, CallsInv, IInv, FilesSound, HooksSound
<1>1. h[b].ep # None /\ h[b].pc # "tool" => rows[h[b].ep] = h[b].row
  BY <1>0 DEF SeenInv, RowsSeen
<1>2. CASE b # a
  <2>1. h'[b] = h[b] /\ h[b].ep \in Episodes /\ owner[h[b].ep] = session[b]
    BY <1>0, <1>2 DEF Step, Sound
  <2>2. session[b] # session[a]
    <3>1. session[b] = session[a] => h[b].pc = "idle"
      BY <1>0, <1>2, FellowsIdle DEF SeenInv, CallsInv
    <3> QED
      BY <2>1, <3>1, IdleFields DEF SeenInv, Resting
  <2>3. rows'[h[b].ep] = rows[h[b].ep]
    BY <2>1, <2>2, RowWrites DEF SeenInv
  <2> QED
    BY <1>1, <2>1, <2>3
<1>3. CASE b = a
  <2>1. CASE CourseCall(a) \/ CourseFind(a)
    <3>1. rows' = rows
      BY <2>1 DEF CourseCall, CourseFind, CallTool, FindEpisode, files
    <3>2. CASE Opened(a, h'[a])
      BY <1>3, <3>1, <3>2 DEF Opened
    <3>3. CASE ~Opened(a, h'[a])
      <4>1. h[a].pc = "look_up" /\ h'[a].ep = h[a].ep /\ h'[a].row = NewRow
        BY <1>3, <2>1, <3>3 DEF CourseCall, CourseFind
      <4>2. h[a].row = NewRow
        BY <4>1 DEF SeenInv, CallsInv, Rowless
      <4> QED
        BY <1>1, <1>3, <3>1, <4>1, <4>2
    <3> QED
      BY <3>2, <3>3
  <2>2. CASE CourseNew(a)
    <3>1. Create(a) /\ h'[a].ep = Len(owner') /\ h'[a].row = NewRow
      BY <1>3, <2>2 DEF CourseNew
    <3>2. /\ rows \in Seq(AnyRow) /\ owner \in Seq(Sessions) /\ Len(rows) = Len(owner)
          /\ owner' = Append(owner, session[a]) /\ rows' = Append(rows, NewRow)
      BY <3>1 DEF Create, SeenInv, CallsInv, IInv, FilesSound, RowsSound
    <3>3. rows'[Len(owner')] = NewRow
      BY <3>2
    <3> QED
      BY <1>3, <3>1, <3>3
  <2>3. CASE CourseOn(a) \/ CourseStep(a)
    <3>1. h'[a].ep = h[a].ep /\ h'[a].row = h[a].row /\ h[a].pc \notin {"tool", "finish"}
      BY <1>3, <2>3 DEF CourseOn, CourseStep, Rests, SeenInv, Resting
    <3>2. rows' = rows
      BY <2>3, <3>1 DEF CourseOn, CourseStep, Truncate, Fill, WriteTmp, Replace, Evaluate, CreateStep
    <3> QED
      BY <1>1, <1>3, <3>1, <3>2
  <2>4. CASE CourseTool(a) \/ CourseReturn(a) \/ CourseEnd(a) \/ CoursePhase(a) \/ CourseIdle(a)
    BY <1>3, <2>4, IdleFields DEF CourseTool, CourseReturn, CourseEnd, CoursePhase, CourseIdle
  <2> QED
    BY <2>1, <2>2, <2>3, <2>4 DEF Course
<1> QED
  BY <1>2, <1>3

-----------------------------------------------------------------------------
(* What the outcome of a closed episode says of its steps.                 *)

\* The step of a call waits for its evaluation until that call gives it.
Unjudged ==
  ~stepClash /\ kills = 0 =>
    \A a \in Agents :
      session[a] \notin parallel /\ h[a].call # None /\ h[a].pc # "phase"
        => steps[h[a].call].eval = "unknown"

ToldInv == SeenInv /\ Unjudged /\ OutcomeTold

LEMMA StaysUnjudged ==
  ASSUME SeenInv, Unjudged, NEW a \in Agents, Step(a), Course(a)
  PROVE  Unjudged'
<1> SUFFICES ASSUME ~stepClash', kills' = 0, NEW b \in Agents, session'[b] \notin parallel',
                    h'[b].call # None, h'[b].pc # "phase"
             PROVE  steps'[h'[b].call].eval = "unknown"
  BY DEF Unjudged
<1>0. /\ ~stepClash /\ kills = 0 /\ ~Kill(a) /\ session' = session
      /\ session[b] \notin parallel /\ session[b] \in Sessions
      /\ steps = [d \in Calls |-> steps[d]]
  BY DEF Step, SeenInv, CallsInv, IInv, FilesSound
<1>1. h[b].call # None /\ h[b].pc # "phase" => steps[h[b].call].eval = "unknown"
  BY <1>0 DEF Unjudged
<1>2. h[b].call # None => h[b].call \in Calls
  BY CallBounds DEF SeenInv
<1>3. CASE b = a
  <2>1. CASE CourseCall(a) /\ h'[a].call = calls'
    <3>1. ~CreateStep(a) /\ ~Evaluate(a) /\ calls' = calls + 1 /\ calls < MaxCalls /\ calls \in Nat
      BY <2>1, Placed, CallBounds DEF CourseCall, CallTool, SeenInv
    <3>2. calls' \in Calls /\ calls' > calls
      BY <3>1, EpisodesAssumption DEF EpisodesAssumption, Calls
    <3>3. steps' = steps
      BY <3>1, Writes DEF SeenInv, CallsInv, IInv
    <3>4. steps[calls'] = NoStep
      BY <3>2 DEF SeenInv, CallsInv, StepsKept
    <3> QED
      BY <1>3, <2>1, <3>3, <3>4 DEF NoStep
  <2>2. CASE h'[a].call = h[a].call
    <3>1. h[a].pc # "phase"
      BY <1>0, <1>3, <2>2, IdleFields DEF Course, CourseIdle, CourseCall, CourseFind, CourseNew,
           CourseOn, CourseStep, CourseTool, CourseReturn, CourseEnd, CoursePhase
    <3>2. ~Evaluate(a)
      BY <1>0, <1>3, Placed DEF Course, CourseIdle, CourseCall, CourseFind, CourseNew, CourseOn,
           CourseStep, CourseTool, CourseReturn, CourseEnd, CoursePhase
    <3>3. CASE CreateStep(a)
      BY <1>0, <1>2, <1>3, <2>2, <3>3 DEF CreateStep, NoStep
    <3>4. CASE ~CreateStep(a)
      <4>1. steps' = steps
        BY <3>2, <3>4, Writes DEF SeenInv, CallsInv, IInv
      <4> QED
        BY <1>1, <1>3, <2>2, <3>1, <4>1
    <3> QED
      BY <3>3, <3>4
  <2> QED
    BY <1>3, <2>1, <2>2, HandMoves DEF SeenInv
<1>4. CASE b # a
  <2>1. h'[b] = h[b] /\ h[b].call # None
    BY <1>4 DEF Step
  <2>2. session[b] # session[a]
    <3>1. session[b] = session[a] => h[b].pc = "idle"
      BY <1>0, <1>4, FellowsIdle DEF SeenInv, CallsInv
    <3> QED
      BY <2>1, <3>1, IdleFields DEF SeenInv, Resting
  <2>3. CASE CreateStep(a)
    <3>1. h[b].call # h[a].call
      BY <1>4, <2>1 DEF SeenInv, CallsInv, StepsKept
    <3> QED
      BY <1>0, <1>1, <1>2, <2>1, <2>3, <3>1 DEF CreateStep
  <2>4. CASE Evaluate(a)
    <3>1. OfSession(session[a], h[a].step)
      BY <2>4, EvaluatesOwn DEF Evaluate, SeenInv
    <3>2. steps[h[b].call].ep # None => OfSession(session[b], h[b].call)
      BY <2>1 DEF SeenInv, CallsInv, StepsKept, InHand
    <3>3. h[b].call # h[a].step
      BY <2>2, <3>1, <3>2 DEF OfSession
    <3> QED
      BY <1>0, <1>1, <1>2, <2>1, <2>4, <3>3 DEF Evaluate
  <2>5. CASE ~CreateStep(a) /\ ~Evaluate(a)
    <3>1. steps' = steps
      BY <2>5, Writes DEF SeenInv, CallsInv, IInv
    <3> QED
      BY <1>1, <2>1, <3>1
  <2> QED
    BY <2>3, <2>4, <2>5
<1> QED
  BY <1>3, <1>4

\* What an outcome says of the numbers of steps.
Agrees(o, passed, failed) ==
  /\ o = "success" => failed <= passed
  /\ o = "failure" => failed > passed
  /\ o = "partial" => failed > 0 /\ passed > 0
  /\ o = "escalated" => failed = 0 /\ passed = 0

LEMMA OutcomesAgree ==
  ASSUME NEW e
  PROVE  /\ Agrees(AutoOutcome(e), Count(e, "pass"), Count(e, "fail"))
         /\ Agrees(EndOutcome(e), Count(e, "pass"), Count(e, "fail"))
         /\ Agrees("in_progress", Count(e, "pass"), Count(e, "fail"))
<1> DEFINE passed == Count(e, "pass")
           failed == Count(e, "fail")
<1>1. passed \in Nat /\ failed \in Nat
  BY CountIsNat
<1> HIDE DEF passed, failed
<1>2. Agrees(AutoOutcome(e), passed, failed)
  <2>1. CASE failed > passed
    BY <1>1, <2>1 DEF AutoOutcome, Agrees, passed, failed
  <2>2. CASE failed <= passed /\ passed > 0 /\ failed = 0
    BY <1>1, <2>2 DEF AutoOutcome, Agrees, passed, failed
  <2>3. CASE failed <= passed /\ passed > 0 /\ failed > 0
    BY <1>1, <2>3 DEF AutoOutcome, Agrees, passed, failed
  <2>4. CASE passed = 0 /\ failed = 0
    BY <1>1, <2>4 DEF AutoOutcome, Agrees, passed, failed
  <2> QED
    BY <1>1, <2>1, <2>2, <2>3, <2>4
<1>3. Agrees(EndOutcome(e), passed, failed)
  BY <1>1 DEF EndOutcome, Agrees, passed, failed
<1>4. Agrees("in_progress", passed, failed)
  BY DEF Agrees
<1> QED
  BY <1>2, <1>3, <1>4 DEF passed, failed

\* No step of an undisturbed session's closed episode is evaluated, or evaluated anew.
LEMMA CountsStay ==
  ASSUME SeenInv, Unjudged, NEW a \in Agents, Step(a), ~stepClash, kills = 0,
         NEW e \in Episodes, owner[e] \notin parallel, Evaluate(a) => e # h[a].ep,
         NEW ev \in Evaluations
  PROVE  Count(e, ev)' = Count(e, ev)
<1>0. steps = [d \in Calls |-> steps[d]] /\ e # None /\ ev # "unknown"
  BY DEF SeenInv, CallsInv, IInv, FilesSound, Episodes, None, Evaluations
<1>1. ASSUME NEW c \in Calls
      PROVE  (steps'[c].ep = e /\ steps'[c].eval = ev) <=> (steps[c].ep = e /\ steps[c].eval = ev)
  <2>1. CASE CreateStep(a)
    <3>1. c = h[a].call => steps[c] = NoStep
      BY <2>1 DEF CreateStep, SeenInv, CallsInv, StepsKept, InHand, Busy, Early
    <3> QED
      BY <1>0, <2>1, <3>1 DEF CreateStep, NoStep
  <2>2. CASE Evaluate(a)
    <3>1. c # h[a].step => steps'[c] = steps[c]
      BY <1>0, <2>2 DEF Evaluate
    <3>2. c = h[a].step => steps'[c].ep # e
      BY <1>0, <2>2 DEF Evaluate, EvaluatedIn
    <3>3. c = h[a].step => ~(steps[c].ep = e /\ steps[c].eval = ev)
      <4> SUFFICES ASSUME c = h[a].step, steps[c].ep = e PROVE steps[c].eval = "unknown"
        BY <1>0
      <4>1. h[a].pc = "evaluate"
        BY <2>2 DEF Evaluate
      <4>2. OfSession(session[a], c) /\ h[a].step # None
        BY <4>1, EvaluatesOwn DEF SeenInv
      <4>3. session[a] \notin parallel
        BY <4>2 DEF OfSession
      <4>4. h[a].step = h[a].call
        BY <4>1, <4>2, <4>3 DEF SeenInv, CallsInv, IInv, Mine, Searching
      <4> QED
        BY <4>1, <4>2, <4>3, <4>4 DEF Unjudged
    <3> QED
      BY <3>1, <3>2, <3>3
  <2>3. CASE ~CreateStep(a) /\ ~Evaluate(a)
    <3>1. steps' = steps
      BY <2>3, Writes DEF SeenInv, CallsInv, IInv
    <3> QED
      BY <3>1
  <2> QED
    BY <2>1, <2>2, <2>3
<1>2. {c \in Calls : steps'[c].ep = e /\ steps'[c].eval = ev}
        = {c \in Calls : steps[c].ep = e /\ steps[c].eval = ev}
  BY <1>1
<1> QED
  BY <1>2 DEF Count

LEMMA StaysTold ==
  ASSUME ToldInv, NEW a \in Agents, Step(a), Course(a)
  PROVE  OutcomeTold'
<1> SUFFICES ASSUME ~stepClash', NEW e \in Episodes', owner'[e] \notin parallel', kills' = 0
             PROVE  Agrees(rows'[e].outcome, Count(e, "pass")', Count(e, "fail")')
  BY DEF OutcomeTold, Undisturbed, Agrees
<1>0. ~stepClash /\ kills = 0 /\ session' = session /\ parallel \subseteq parallel'
  BY DEF Step, ToldInv, SeenInv, CallsInv
<1>a. ASSUME rows'[e].outcome = "in_progress"
      PROVE  Agrees(rows'[e].outcome, Count(e, "pass")', Count(e, "fail")')
  BY <1>a DEF Agrees
<1>1. CASE e \notin Episodes
  <2>1. Create(a) /\ e = Len(owner') /\ rows' = Append(rows, NewRow)
    <3>1. Create(a)
      <4>1. ~Create(a) => owner' = owner
        BY DEF Step, HookStep, HostStep, CallTool, ToolReturns, ToolInterrupted, EndSession, Kill,
               FindEpisode, Close, Finish, Truncate, Fill, CreateStep, WriteTmp, Replace, CountStep,
               Evaluate, ChangePhase, world
      <4> QED
        BY <1>1, <4>1 DEF Episodes
    <3> QED
      BY <1>1, <3>1 DEF Create, Episodes, ToldInv, SeenInv, CallsInv, IInv, FilesSound
  <2>2. rows'[e] = NewRow
    BY <2>1 DEF Create, ToldInv, SeenInv, CallsInv, IInv, FilesSound, RowsSound
  <2> QED
    BY <1>a, <2>2, NewRowIsRow
<1>2. CASE e \in Episodes
  <2>0. owner'[e] = owner[e] /\ owner[e] \notin parallel /\ e # None
    <3>1. owner'[e] = owner[e]
      BY <1>2, RowWrites DEF ToldInv, SeenInv
    <3>2. e # None
      BY <1>2 DEF Episodes, None
    <3> QED
      BY <1>0, <3>1, <3>2
  <2>1. CASE Evaluate(a) /\ e = h[a].ep
    <3>1. h[a].pc = "evaluate" /\ rows' = rows
      BY <2>1 DEF Evaluate
    <3>2. owner[e] = session[a]
      BY <2>1, <3>1, EvaluatesOwn DEF ToldInv, SeenInv
    <3>3. rows[e] = h[a].row
      BY <2>0, <2>1, <3>1, <3>2 DEF ToldInv, SeenInv, RowsSeen
    <3> QED
      BY <1>a, <3>1, <3>3 DEF ToldInv, SeenInv, Resting
  <2>2. CASE Evaluate(a) => e # h[a].ep
    <3>1. Count(e, "pass")' = Count(e, "pass") /\ Count(e, "fail")' = Count(e, "fail")
      BY <1>0, <1>2, <2>0, <2>2, CountsStay DEF ToldInv, Evaluations
    <3>2. CASE rows'[e] = rows[e]
      <4>1. Agrees(rows[e].outcome, Count(e, "pass"), Count(e, "fail"))
        BY <1>0, <1>2, <2>0 DEF ToldInv, OutcomeTold, Undisturbed, Agrees
      <4> QED
        BY <3>1, <3>2, <4>1
    <3>3. CASE Close(a) /\ rows'[e] = Closed(h[a].row, AutoOutcome(e))
      <4>1. rows'[e].outcome = AutoOutcome(e)
        BY <3>3, OutcomeCloses, ClosedIsRow DEF ToldInv, SeenInv, CallsInv, RowsSound
      <4> QED
        BY <3>1, <4>1, OutcomesAgree
    <3>4. CASE Finish(a) /\ rows'[e] = Closed(rows[e], EndOutcome(e))
      <4>1. rows[e] \in AnyRow
        BY <1>2 DEF ToldInv, SeenInv, CallsInv, RowsSound, Episodes
      <4>2. rows'[e].outcome = EndOutcome(e)
        BY <3>4, <4>1, OutcomeCloses, ClosedIsRow
      <4> QED
        BY <3>1, <4>2, OutcomesAgree
    <3>5. CASE CountStep(a) /\ rows'[e] = [h[a].row EXCEPT !.count = @ + 1]
      <4>1. h[a].row \in AnyRow /\ h[a].row.outcome = "in_progress"
        BY DEF ToldInv, SeenInv, CallsInv, RowsSound, Resting
      <4>2. rows'[e].outcome = "in_progress"
        BY <3>5, <4>1 DEF AnyRow
      <4> QED
        BY <1>a, <4>2
    <3>6. CASE ChangePhase(a) /\ e = h[a].ep /\ rows'[e] # rows[e]
      <4>1. h[a].row \in AnyRow /\ h[a].row.outcome = "in_progress"
        BY DEF ToldInv, SeenInv, CallsInv, RowsSound, Resting
      <4> DEFINE t == tool[h[a].step]
                 row == IF h[a].kind = "fail" THEN [h[a].row EXCEPT !.errs[t] = @ + 1] ELSE h[a].row
                 phase == IF BudgetExceeded(row, h[a].ep) THEN "halt" ELSE row.phase
      <4>2. row.outcome = "in_progress" /\ row \in AnyRow
        BY <4>1 DEF AnyRow
      <4>3. rows' = rows \/ rows' = [rows EXCEPT ![h[a].ep] = [row EXCEPT !.phase = phase]]
        BY <3>6 DEF ChangePhase
      <4> HIDE DEF row, phase
      <4>4. [row EXCEPT !.phase = phase].outcome = "in_progress"
        BY <4>2 DEF AnyRow
      <4>5. rows'[e] = [row EXCEPT !.phase = phase]
        BY <1>2, <3>6, <4>3 DEF Episodes, ToldInv, SeenInv, CallsInv, RowsSound
      <4> QED
        BY <1>a, <4>4, <4>5
    <3> QED
      BY <1>2, <3>2, <3>3, <3>4, <3>5, <3>6, RowWrites DEF ToldInv, SeenInv
  <2> QED
    BY <2>1, <2>2
<1> QED
  BY <1>1, <1>2

LEMMA InitSeenInv == Init => SeenInv /\ Unjudged
<1> SUFFICES ASSUME Init PROVE SeenInv /\ Unjudged
  OBVIOUS
<1>1. \A a \in Agents : h[a] = Idle
  BY DEF Init
<1>2. Resting /\ RowsSeen /\ Unjudged
  BY <1>1, IdleFields, NewRowIsRow DEF Resting, RowsSeen, Unjudged
<1> QED
  BY <1>2, InitCallsInv DEF SeenInv

LEMMA StepSeenInv ==
  ASSUME SeenInv, NEW a \in Agents, HookStep(a) \/ HostStep(a)
  PROVE  SeenInv' /\ Step(a) /\ Course(a)
<1>1. CallsInv' /\ Step(a) /\ Course(a)
  BY AgentCallsInv DEF SeenInv
<1>2. Resting' /\ RowsSeen'
  BY <1>1, StaysResting, StaysSeen DEF SeenInv
<1> QED
  BY <1>1, <1>2 DEF SeenInv

LEMMA RestSeenInv ==
  ASSUME SeenInv, HalfAnHour \/ UNCHANGED vars
  PROVE  /\ SeenInv' /\ Unjudged' = Unjudged
         /\ UNCHANGED <<files, h, session, owner, calls, history>>
<1>1. UNCHANGED <<files, h, session, owner, calls, history>>
  BY DEF HalfAnHour, vars, world
<1>2. CallsInv'
  BY StepCallsInv DEF SeenInv, Next
<1>3. Resting' /\ RowsSeen'
  BY <1>1 DEF SeenInv, Resting, RowsSeen, files, history
<1>4. Unjudged' = Unjudged
  BY <1>1 DEF Unjudged, files, history
<1> QED
  BY <1>1, <1>2, <1>3, <1>4 DEF SeenInv

LEMMA StepToldInv == ToldInv /\ [Next]_vars => ToldInv'
<1> SUFFICES ASSUME ToldInv, [Next]_vars PROVE ToldInv'
  OBVIOUS
<1>1. CASE HalfAnHour \/ UNCHANGED vars
  <2>1. SeenInv' /\ Unjudged' = Unjudged /\ UNCHANGED <<files, h, session, owner, calls, history>>
    BY <1>1, RestSeenInv DEF ToldInv
  <2>2. OutcomeTold'
    BY <2>1 DEF ToldInv, OutcomeTold, Undisturbed, Episodes, Count, files, history
  <2> QED
    BY <2>1, <2>2 DEF ToldInv
<1>2. CASE \E a \in Agents : HookStep(a) \/ HostStep(a)
  <2>1. PICK a \in Agents : HookStep(a) \/ HostStep(a)
    BY <1>2
  <2>2. SeenInv' /\ Step(a) /\ Course(a)
    BY <2>1, StepSeenInv DEF ToldInv
  <2>3. Unjudged' /\ OutcomeTold'
    BY <2>2, StaysUnjudged, StaysTold DEF ToldInv
  <2> QED
    BY <2>2, <2>3 DEF ToldInv
<1> QED
  BY <1>1, <1>2 DEF Next

\* The outcome that a session's end, or the next call after half an hour, gives an
\* episode agrees with the evaluations of its steps for ever after, whatever was
\* interrupted (observe.py:955, integration.py:287-333): if no hook is killed and the
\* session's calls do not overlap, and no two processes hand over active steps at once.
THEOREM OutcomesAreTold == Spec => []OutcomeTold
<1>1. Init => ToldInv
  <2>1. Init => OutcomeTold
    BY DEF Init, OutcomeTold, Episodes
  <2> QED
    BY <2>1, InitSeenInv DEF ToldInv
<1>2. ToldInv => OutcomeTold
  BY DEF ToldInv
<1> QED
  BY <1>1, <1>2, StepToldInv, PTL DEF Spec

-----------------------------------------------------------------------------
(* A spent budget halts the episode.                                       *)

\* The step that a hook is about to count has no evaluation yet.
Fresh ==
  \A a \in Agents :
    session[a] \notin parallel /\ h[a].kind = "pre" /\ h[a].pc \in {"write_tmp", "replace", "count"}
      => steps[h[a].call].ep = h[a].ep /\ steps[h[a].call].eval = "unknown"

\* The budget is spent and every step is evaluated.
Spent(e) ==
  /\ rows[e].count >= MaxSteps
  /\ \A c \in Calls : steps[c].ep = e => steps[c].eval # "unknown"
HaltsOrWill ==
  Steady => \A s \in Sessions \ parallel : \A e \in OpenEpisodes(s) :
    Spent(e) => \/ rows[e].phase = "halt"
                \/ \E a \in Agents : session[a] = s /\ h[a].pc = "phase" /\ h[a].ep = e

HaltInv == OpenInv /\ SeenInv /\ Fresh /\ HaltsOrWill

LEMMA StaysFresh ==
  ASSUME SeenInv, Fresh, NEW a \in Agents, Step(a), Course(a)
  PROVE  Fresh'
<1> SUFFICES ASSUME NEW b \in Agents, session'[b] \notin parallel', h'[b].kind = "pre",
                    h'[b].pc \in {"write_tmp", "replace", "count"}
             PROVE  steps'[h'[b].call].ep = h'[b].ep /\ steps'[h'[b].call].eval = "unknown"
  BY DEF Fresh
<1>0. /\ session' = session /\ session[b] \notin parallel /\ session[b] \in Sessions
      /\ steps = [d \in Calls |-> steps[d]]
  BY DEF Step, SeenInv, CallsInv, IInv, FilesSound
<1>1. h[b].kind = "pre" /\ h[b].pc \in {"write_tmp", "replace", "count"}
        => steps[h[b].call].ep = h[b].ep /\ steps[h[b].call].eval = "unknown"
  BY <1>0 DEF Fresh
<1>2. h[b].call # None => h[b].call \in Calls
  BY CallBounds DEF SeenInv
<1>3. Busy(h[b]) /\ InHand(b, h[b])
  BY DEF SeenInv, CallsInv, StepsKept
<1>4. CASE b = a
  <2>1. CASE CourseStep(a)
    <3>1. h[a].call \in Calls /\ h'[a].call = h[a].call /\ h'[a].ep = h[a].ep
      BY <1>2, <1>3, <1>4, <2>1 DEF CourseStep, Keeps, Busy
    <3> QED
      BY <1>0, <1>4, <2>1, <3>1 DEF CourseStep, CreateStep, NoStep
  <2>2. CASE CourseOn(a)
    <3>1. /\ h'[a].call = h[a].call /\ h'[a].ep = h[a].ep /\ h[a].kind = "pre"
          /\ h[a].pc \in {"write_tmp", "replace"}
      BY <1>4, <2>2 DEF CourseOn, Rests, Keeps, Work
    <3>2. steps' = steps
      <4>1. ~CreateStep(a) /\ ~Evaluate(a)
        BY <3>1, Placed
      <4> QED
        BY <4>1, Writes DEF SeenInv, CallsInv, IInv
    <3> QED
      BY <1>1, <1>4, <3>1, <3>2
  <2>3. CASE CourseCall(a) \/ CourseFind(a) \/ CourseNew(a) \/ CourseTool(a) \/ CourseReturn(a)
             \/ CourseEnd(a) \/ CoursePhase(a) \/ CourseIdle(a)
    BY <1>3, <1>4, <2>3, IdleFields DEF CourseCall, CourseFind, CourseNew, CourseTool, CourseReturn,
         CourseEnd, CoursePhase, CourseIdle, Work, Busy, Evaluations
  <2> QED
    BY <2>1, <2>2, <2>3 DEF Course
<1>5. CASE b # a
  <2>1. h'[b] = h[b] /\ h[b].call # None
    BY <1>3, <1>5 DEF Step, Busy
  <2>2. session[b] # session[a]
    BY <1>0, <1>5, <2>1, FellowsIdle DEF SeenInv, CallsInv
  <2>3. CASE CreateStep(a)
    <3>1. h[b].call # h[a].call
      BY <1>5, <2>1 DEF SeenInv, CallsInv, StepsKept
    <3> QED
      BY <1>0, <1>1, <1>2, <2>1, <2>3, <3>1 DEF CreateStep
  <2>4. CASE Evaluate(a)
    <3>1. OfSession(session[a], h[a].step)
      BY <2>4, EvaluatesOwn DEF Evaluate, SeenInv
    <3>2. steps[h[b].call].ep # None => OfSession(session[b], h[b].call)
      BY <1>3, <2>1 DEF InHand
    <3>3. h[b].call # h[a].step
      BY <2>2, <3>1, <3>2 DEF OfSession
    <3> QED
      BY <1>0, <1>1, <1>2, <2>1, <2>4, <3>3 DEF Evaluate
  <2>5. CASE ~CreateStep(a) /\ ~Evaluate(a)
    <3>1. steps' = steps
      BY <2>5, Writes DEF SeenInv, CallsInv, IInv
    <3> QED
      BY <1>1, <2>1, <3>1
  <2> QED
    BY <2>3, <2>4, <2>5
<1> QED
  BY <1>4, <1>5

\* What a hook notes of an error in its row leaves the rest of the row alone.
LEMMA ErrorNoted ==
  ASSUME NEW r \in AnyRow, NEW t
  PROVE  /\ [r EXCEPT !.errs[t] = @ + 1] \in AnyRow
         /\ [r EXCEPT !.errs[t] = @ + 1].count = r.count
         /\ [r EXCEPT !.errs[t] = @ + 1].phase = r.phase
<1>1. DOMAIN r = {"outcome", "phase", "count", "errs"} /\ r.errs \in [Tools -> Nat]
  BY DEF AnyRow
<1>2. [r.errs EXCEPT ![t] = @ + 1] \in [Tools -> Nat]
  <2>1. CASE t \in Tools
    BY <1>1, <2>1
  <2>2. CASE t \notin Tools
    BY <1>1, <2>2
  <2> QED
    BY <2>1, <2>2
<1> DEFINE n == [r.errs EXCEPT ![t] = @ + 1]
<1>3. [r EXCEPT !.errs[t] = @ + 1] = [r EXCEPT !.errs = n]
  OBVIOUS
<1> HIDE DEF n
<1>4. [r EXCEPT !.errs = n] \in AnyRow
  BY <1>2 DEF AnyRow, n
<1> QED
  BY <1>1, <1>3, <1>4

\* The row that changes of phase in an episode whose budget is spent has halted.
LEMMA PhaseHalts ==
  ASSUME SeenInv, NEW a \in Agents, Step(a), ChangePhase(a), NEW e \in Episodes, e = h[a].ep,
         session[a] \notin parallel, rows'[e].count >= MaxSteps
  PROVE  rows'[e].phase = "halt"
<1> DEFINE t == tool[h[a].step]
           row == IF h[a].kind = "fail" THEN [h[a].row EXCEPT !.errs[t] = @ + 1] ELSE h[a].row
           phase == IF BudgetExceeded(row, h[a].ep) THEN "halt" ELSE row.phase
<1>0. rows \in Seq(AnyRow) /\ e \in DOMAIN rows /\ h[a].row \in AnyRow /\ e # None
  BY DEF SeenInv, CallsInv, RowsSound, Episodes, None
<1>1. row \in AnyRow /\ row.count = h[a].row.count /\ row.phase = h[a].row.phase
  BY <1>0, ErrorNoted
<1>2. IF phase = row.phase THEN rows' = rows
      ELSE rows' = [rows EXCEPT ![h[a].ep] = [row EXCEPT !.phase = phase]]
  BY DEF ChangePhase
<1>3. rows[e] = h[a].row
  BY <1>0, Placed DEF SeenInv, RowsSeen
<1>4. row.count >= MaxSteps => phase = "halt"
  BY DEF BudgetExceeded
<1> HIDE DEF row, phase
<1>5. CASE phase = row.phase
  BY <1>1, <1>2, <1>3, <1>4, <1>5
<1>6. CASE phase # row.phase
  <2>1. rows'[e] = [row EXCEPT !.phase = phase]
    BY <1>0, <1>2, <1>6
  <2>2. rows'[e].count = row.count /\ rows'[e].phase = phase
    BY <1>1, <2>1 DEF AnyRow
  <2> QED
    BY <1>4, <2>2
<1> QED
  BY <1>5, <1>6

\* No step that waits in an open episode is taken to another one.
LEMMA StepsStayIn ==
  ASSUME HaltInv, NEW a \in Agents, Step(a), Steady', NEW s \in Sessions \ parallel',
         NEW e \in OpenEpisodes(s), Evaluate(a) => e # h[a].ep,
         NEW c \in Calls, steps[c].ep = e
  PROVE  steps'[c] = steps[c]
<1>0. /\ steps = [d \in Calls |-> steps[d]] /\ e \in Episodes /\ e # None /\ owner[e] = s
      /\ s \in Sessions \ parallel /\ Steady
  BY SteadyStays DEF HaltInv, SeenInv, CallsInv, IInv, FilesSound, OpenEpisodes, Episodes, None, Step
<1>1. CASE CreateStep(a)
  <2>1. h[a].pc = "create_step" /\ Busy(h[a]) /\ InHand(a, h[a])
    BY <1>1 DEF CreateStep, HaltInv, SeenInv, CallsInv, StepsKept
  <2>2. steps[h[a].call] = NoStep
    BY <2>1 DEF InHand, Busy, Early
  <2>3. c # h[a].call
    BY <1>0, <2>2 DEF NoStep
  <2> QED
    BY <1>0, <1>1, <2>3 DEF CreateStep
<1>2. CASE Evaluate(a)
  <2>1. h[a].pc = "evaluate"
    BY <1>2 DEF Evaluate
  <2>2. OfSession(session[a], h[a].step) /\ h[a].ep # None
    BY <2>1, EvaluatesOwn DEF HaltInv, SeenInv
  <2>3. c # h[a].step
    <3> SUFFICES ASSUME c = h[a].step PROVE FALSE
      OBVIOUS
    <3>1. session[a] = s
      BY <1>0, <2>2 DEF OfSession
    <3>2. Settled(s)
      BY <1>0 DEF HaltInv, OpenInv, AllSettled
    <3>3. Leads(s, h[a].ep)
      BY <2>1, <2>2, <3>1, <3>2 DEF Settled, At, Working
    <3>4. \A b \in Agents : session[b] = s => h[b].pc \notin Mapping
      <4>1. \A b \in Agents \ {a} : session[b] = s => h[b].pc = "idle"
        BY <3>1, FellowsIdle DEF HaltInv, OpenInv
      <4> QED
        BY <2>1, <4>1 DEF Mapping
    <3>5. Leads(s, e)
      BY <3>2, <3>4 DEF Settled
    <3>6. e = h[a].ep
      BY <1>0, <3>3, <3>5, LeadsToOne DEF HaltInv, OpenInv
    <3> QED
      BY <1>2, <3>6
  <2> QED
    BY <1>0, <1>2, <2>3 DEF Evaluate
<1>3. CASE ~CreateStep(a) /\ ~Evaluate(a)
  BY <1>3, Writes DEF HaltInv, SeenInv, CallsInv, IInv
<1> QED
  BY <1>1, <1>2, <1>3

LEMMA StaysHalted ==
  ASSUME HaltInv, NEW a \in Agents, Step(a), Course(a)
  PROVE  HaltsOrWill'
<1> SUFFICES ASSUME Steady', NEW s \in Sessions \ parallel', NEW e \in OpenEpisodes(s)', Spent(e)'
             PROVE  \/ rows'[e].phase = "halt"
                    \/ \E b \in Agents : session'[b] = s /\ h'[b].pc = "phase" /\ h'[b].ep = e
  BY DEF HaltsOrWill
<1>0. Steady /\ ~Kill(a) /\ s \in Sessions \ parallel /\ session' = session
  BY SteadyStays DEF HaltInv, SeenInv, CallsInv, IInv, Step
<1>1. /\ rows'[e].count >= MaxSteps
      /\ \A c \in Calls : steps'[c].ep = e => steps'[c].eval # "unknown"
  BY DEF Spent
<1>2. \/ e \in OpenEpisodes(s) /\ StaysOpen(a, e)
      \/ s = session[a] /\ (Opens(a, e) \/ Reopens(a, e))
  BY OpenMoves DEF HaltInv
<1>3. CASE Opens(a, e)
  <2>1. rows'[e] = NewRow
    BY <1>3 DEF Opens, Create, HaltInv, SeenInv, CallsInv, IInv, FilesSound, RowsSound
  <2>2. rows'[e].count = 0
    BY <2>1 DEF NewRow
  <2> QED
    BY <1>1, <2>2, EpisodesAssumption DEF EpisodesAssumption
<1>4. CASE s = session[a] /\ CountStep(a) /\ e = h[a].ep
  <2>1. h[a].pc = "count" /\ steps' = steps
    BY <1>4 DEF CountStep
  <2>2. h[a].kind = "pre" /\ h[a].call \in Calls
    BY <2>1, CallBounds DEF HaltInv, SeenInv, CallsInv, StepsKept, Busy
  <2>3. steps[h[a].call].ep = e /\ steps[h[a].call].eval = "unknown"
    BY <1>0, <1>4, <2>1, <2>2 DEF HaltInv, Fresh
  <2> QED
    BY <1>1, <2>1, <2>2, <2>3
<1>5. CASE s = session[a] /\ ChangePhase(a) /\ e \in Episodes /\ e = h[a].ep
  BY <1>0, <1>1, <1>5, PhaseHalts DEF HaltInv
<1>6. CASE /\ e \in OpenEpisodes(s) /\ StaysOpen(a, e)
           /\ ~(s = session[a] /\ (CountStep(a) \/ ChangePhase(a)) /\ e = h[a].ep)
  <2>0. e \in Episodes /\ owner[e] = s
    BY <1>6 DEF OpenEpisodes
  <2>1. CASE Evaluate(a) /\ e = h[a].ep
    <3>1. h[a].pc = "evaluate" /\ session[a] = s
      BY <2>0, <2>1, EvaluatesOwn DEF Evaluate, HaltInv, SeenInv
    <3>2. h'[a].pc = "phase" /\ h'[a].ep = e
      BY <1>0, <2>1, <3>1 DEF Course, CourseCall, CourseFind, CourseNew, CourseOn, CourseStep,
           CourseTool, CourseReturn, CourseEnd, CoursePhase, CourseIdle, Rests, Placed, Evaluate
    <3> QED
      BY <1>0, <3>1, <3>2
  <2>2. CASE Evaluate(a) => e # h[a].ep
    <3>1. rows'[e] = rows[e]
      <4>1. CountStep(a) \/ ChangePhase(a) => e # h[a].ep \/ rows'[e] = rows[e]
        BY <1>6, <2>0, RowWrites DEF HaltInv, SeenInv
      <4>2. ~(Close(a) /\ e = h[a].ep) /\ ~(Finish(a) /\ e = h[a].m[session[a]])
        BY <1>6 DEF StaysOpen
      <4> QED
        BY <2>0, <4>1, <4>2, RowWrites DEF HaltInv, SeenInv
    <3>2. \A c \in Calls : steps[c].ep = e => steps'[c] = steps[c]
      BY <1>6, <2>2, StepsStayIn
    <3>3. Spent(e)
      BY <1>1, <3>1, <3>2 DEF Spent
    <3>4. \/ rows[e].phase = "halt"
          \/ \E b \in Agents : session[b] = s /\ h[b].pc = "phase" /\ h[b].ep = e
      BY <1>0, <1>6, <3>3 DEF HaltInv, HaltsOrWill
    <3>5. ASSUME NEW b \in Agents, session[b] = s, h[b].pc = "phase", h[b].ep = e
          PROVE  h'[b] = h[b]
      <4>1. b # a
        <5> SUFFICES ASSUME b = a PROVE FALSE
          OBVIOUS
        <5>1. ChangePhase(a)
          BY <1>0, <3>5 DEF Course, CourseCall, CourseFind, CourseNew, CourseOn, CourseStep,
             CourseTool, CourseReturn, CourseEnd, CoursePhase, CourseIdle
        <5> QED
          BY <1>6, <3>5, <5>1
      <4> QED
        BY <4>1 DEF Step
    <3> QED
      BY <1>0, <3>1, <3>4, <3>5
  <2> QED
    BY <2>1, <2>2
<1>7. CASE e \in OpenEpisodes(s) /\ StaysOpen(a, e)
  BY <1>4, <1>5, <1>6, <1>7 DEF StaysOpen
<1>8. CASE s = session[a] /\ Reopens(a, e)
  BY <1>4, <1>5, <1>8 DEF Reopens
<1> QED
  BY <1>2, <1>3, <1>7, <1>8

LEMMA InitHaltInv == Init => HaltInv
<1> SUFFICES ASSUME Init PROVE HaltInv
  OBVIOUS
<1>1. Idle.kind = "none"
  BY DEF Idle
<1>2. Fresh
  BY <1>1 DEF Init, Fresh
<1>3. HaltsOrWill
  BY DEF Init, HaltsOrWill, OpenEpisodes, Episodes
<1> QED
  BY <1>2, <1>3, InitOpenInv, InitSeenInv DEF HaltInv

LEMMA StepHaltInv == HaltInv /\ [Next]_vars => HaltInv'
<1> SUFFICES ASSUME HaltInv, [Next]_vars PROVE HaltInv'
  OBVIOUS
<1>1. OpenInv'
  BY StepOpenInv DEF HaltInv
<1>2. CASE HalfAnHour \/ UNCHANGED vars
  <2>1. SeenInv' /\ UNCHANGED <<files, h, session, owner, calls, history>>
    BY <1>2, RestSeenInv DEF HaltInv
  <2>2. Fresh' /\ HaltsOrWill'
    BY <2>1 DEF HaltInv, Fresh, HaltsOrWill, Steady, OpenEpisodes, Episodes, Spent, files, history
  <2> QED
    BY <1>1, <2>1, <2>2 DEF HaltInv
<1>3. CASE \E a \in Agents : HookStep(a) \/ HostStep(a)
  <2>1. PICK a \in Agents : HookStep(a) \/ HostStep(a)
    BY <1>3
  <2>2. SeenInv' /\ Step(a) /\ Course(a)
    BY <2>1, StepSeenInv DEF HaltInv
  <2>3. Fresh' /\ HaltsOrWill'
    BY <2>2, StaysFresh, StaysHalted DEF HaltInv
  <2> QED
    BY <1>1, <2>2, <2>3 DEF HaltInv
<1> QED
  BY <1>2, <1>3 DEF Next

\* An open episode whose steps are spent and evaluated has halted whenever no hook of
\* its session runs (models.py:105, elevated_control.py:118), if no hook is killed, the
\* session's calls do not overlap and no process writes the mapping over another's.
THEOREM BudgetsHalt == Spec => []BudgetHalts
<1>1. HaltInv => BudgetHalts
  <2> SUFFICES ASSUME HaltInv, ~mapClash, NEW s \in Sessions, Undisturbed(s), Quiet(s),
                      NEW e \in OpenEpisodes(s), rows[e].count >= MaxSteps,
                      Count(e, "unknown") = 0
               PROVE  rows[e].phase = "halt"
    BY DEF BudgetHalts
  <2>1. Steady /\ s \in Sessions \ parallel
    BY DEF Undisturbed, Steady
  <2>2. \A c \in Calls : steps[c].ep = e => steps[c].eval # "unknown"
    <3> DEFINE left == {c \in Calls : steps[c].ep = e /\ steps[c].eval = "unknown"}
    <3>1. IsFiniteSet(left)
      <4>1. IsFiniteSet(Calls)
        BY EpisodesAssumption, FS_Interval DEF EpisodesAssumption, Calls
      <4> QED
        BY <4>1, FS_Subset
    <3>2. left = {}
      BY <3>1, FS_EmptySet DEF Count
    <3> QED
      BY <3>2
  <2>3. ~\E a \in Agents : session[a] = s /\ h[a].pc = "phase"
    BY DEF Quiet
  <2> QED
    BY <2>1, <2>2, <2>3 DEF HaltInv, HaltsOrWill, Spent
<1> QED
  BY <1>1, InitHaltInv, StepHaltInv, PTL DEF Spec

-----------------------------------------------------------------------------
(* Types: neither of a call's hooks creates more than one episode.         *)

\* Whether hook x may still create an episode as the one before its call (1),
\* or the one after it (2) may, which comes after the former.
Creating(x) == x.pc \in {"close", "create"} \/ (x.pc \in {"truncate", "fill"} /\ x.ep = None)
MayCreate(x, k) ==
  \/ k = 1 /\ x.kind = "pre" /\ Creating(x)
  \/ k = 2 /\ (x.kind = "pre" \/ x.pc \in {"tool", "look_up"} \/ (x.kind \in Evaluations /\ Creating(x)))

\* The episodes still to be created, by the hooks that may create them.
Left == {p \in Calls \X {1, 2} :
           p[1] > calls \/ \E a \in Agents : h[a].call = p[1] /\ MayCreate(h[a], p[2])}
Enough == Len(owner) + Cardinality(Left) <= 2 * MaxCalls

LEMMA LeftIsFinite ==
  /\ IsFiniteSet(Calls \X {1, 2}) /\ Cardinality(Calls \X {1, 2}) = 2 * MaxCalls
  /\ IsFiniteSet(Left) /\ Cardinality(Left) \in Nat
<1>1. IsFiniteSet(Calls) /\ Cardinality(Calls) = MaxCalls /\ MaxCalls \in Nat
  BY EpisodesAssumption, FS_Interval DEF EpisodesAssumption, Calls
<1>2. IsFiniteSet({1, 2}) /\ Cardinality({1, 2}) = 2
  <2>1. IsFiniteSet({1}) /\ Cardinality({1}) = 1
    BY FS_Singleton
  <2>2. /\ IsFiniteSet({1} \cup {2})
        /\ Cardinality({1} \cup {2}) = Cardinality({1}) + 1
    BY <2>1, FS_AddElement
  <2>3. {1} \cup {2} = {1, 2}
    OBVIOUS
  <2> QED
    BY <2>1, <2>2, <2>3
<1>3. IsFiniteSet(Calls \X {1, 2}) /\ Cardinality(Calls \X {1, 2}) = Cardinality(Calls) * Cardinality({1, 2})
  BY <1>1, <1>2, FS_Product
<1>4. Cardinality(Calls \X {1, 2}) = 2 * MaxCalls
  BY <1>1, <1>2, <1>3
<1>5. IsFiniteSet(Left)
  BY <1>3, FS_Subset DEF Left
<1> QED
  BY <1>3, <1>4, <1>5, FS_CardinalityType

Which(x) == IF x.kind = "pre" THEN 1 ELSE 2

LEMMA CreateCounts ==
  ASSUME CallsInv, NEW a \in Agents, Create(a)
  PROVE  /\ Len(owner) \in Nat /\ Len(owner') = Len(owner) + 1
         /\ h[a].call \in Calls /\ MayCreate(h[a], Which(h[a]))
<1>1. owner \in Seq(Sessions) /\ session[a] \in Sessions /\ owner' = Append(owner, session[a])
  BY DEF Create, CallsInv, IInv, FilesSound
<1>2. h[a].pc = "create" /\ Busy(h[a])
  BY DEF Create, CallsInv, StepsKept
<1>3. h[a].call \in Calls
  BY <1>2, CallBounds DEF Busy
<1>4. MayCreate(h[a], Which(h[a]))
  BY <1>2 DEF Busy, MayCreate, Creating, Which
<1> QED
  BY <1>1, <1>3, <1>4

\* What a hook may create after its step it might have created before, too.
LEMMA MayCreateStays ==
  ASSUME CallsInv, NEW a \in Agents, Course(a), ~CourseCall(a), NEW k,
         h'[a].call # None, MayCreate(h'[a], k)
  PROVE  h'[a].call = h[a].call /\ MayCreate(h[a], k) /\ ~(Create(a) /\ k = Which(h[a]))
<1> DEFINE g == h[a]
           x == h'[a]
<1>0. Busy(g)
  BY DEF CallsInv, StepsKept
<1> USE DEF Places, Kinds, Evaluations
<1>1. ~CourseIdle(a) /\ ~CoursePhase(a) /\ ~CourseEnd(a)
  BY IdleFields DEF CourseIdle, CoursePhase, CourseEnd
<1>2. CASE CourseFind(a)
  BY <1>0, <1>2, Placed DEF CourseFind, Keeps, Busy, Work, MayCreate, Creating
<1>3. CASE CourseNew(a)
  <2>1. CASE Close(a) /\ g.pc = "close" /\ x.ep = None
    BY <1>0, <1>3, <2>1, Placed DEF CourseNew, Keeps, Busy, MayCreate, Creating
  <2>2. CASE Create(a) /\ g.pc = "create" /\ x.ep = Len(owner')
    <3>1. x.ep # None
      BY <2>2, CreateCounts DEF None
    <3> QED
      BY <1>0, <1>3, <2>2, <3>1 DEF CourseNew, Keeps, Busy, MayCreate, Creating, Which
  <2> QED
    BY <1>3, <2>1, <2>2 DEF CourseNew
<1>4. CASE CourseOn(a)
  <2>1. Rests(a) /\ ~Create(a)
    BY <1>4, Placed DEF CourseOn
  <2>2. Creating(x) => Creating(g) \/ g.kind = "end"
    BY <1>0, <1>4, <2>1 DEF CourseOn, Rests, Keeps, Busy, Creating, Work
  <2>3. x.pc \notin {"tool", "look_up"}
    BY <1>0, <1>4 DEF CourseOn, Busy, Work
  <2> QED
    BY <2>1, <2>2, <2>3 DEF Rests, Keeps, MayCreate
<1>5. CASE CourseStep(a)
  BY <1>0, <1>5, Placed DEF CourseStep, Keeps, Busy, MayCreate, Creating
<1>6. CASE CourseTool(a)
  <2>1. g.kind = "pre" /\ k = 2 /\ x.call = g.call
    BY <1>0, <1>6 DEF CourseTool, Busy, MayCreate, Creating
  <2> QED
    BY <1>6, <2>1 DEF CourseTool, MayCreate, Which
<1>7. CASE CourseReturn(a)
  BY <1>0, <1>7, Placed DEF CourseReturn, Busy, MayCreate, Creating
<1> QED
  BY <1>1, <1>2, <1>3, <1>4, <1>5, <1>6, <1>7 DEF Course

LEMMA LeftShrinks ==
  ASSUME CallsInv, NEW a \in Agents, Step(a), Course(a)
  PROVE  Left' \subseteq IF Create(a) THEN Left \ {<<h[a].call, Which(h[a])>>} ELSE Left
<1>0. calls \in Nat /\ \A b \in Agents \ {a} : h'[b] = h[b]
  BY CallBounds DEF Step
<1>6. CourseCall(a) => calls' = calls + 1
  BY DEF CourseCall, CallTool
<1>7. ~CourseCall(a) => calls' = calls
  BY DEF Course, CourseFind, CourseNew, CourseOn, CourseStep, CourseTool, CourseReturn, CourseEnd,
     CoursePhase, CourseIdle, ToolReturns, ToolInterrupted, EndSession, Kill, FindEpisode, Close, Create,
     Finish, Truncate, Fill, CreateStep, WriteTmp, Replace, CountStep, Evaluate, ChangePhase, world
<1> SUFFICES ASSUME NEW c \in Calls, NEW k \in {1, 2},
                    \/ c > calls'
                    \/ \E b \in Agents : h'[b].call = c /\ MayCreate(h'[b], k)
             PROVE  /\ c > calls \/ \E b \in Agents : h[b].call = c /\ MayCreate(h[b], k)
                    /\ Create(a) => c # h[a].call \/ k # Which(h[a])
  BY DEF Left, MayCreate, Creating
<1>1. c \in Nat /\ c # None /\ h[a].call \in Nat /\ h[a].call <= calls
  BY CallBounds, EpisodesAssumption DEF Calls, EpisodesAssumption, None
<1>2. Create(a) => h[a].call # None
  BY CreateCounts, EpisodesAssumption DEF Calls, EpisodesAssumption, None
<1>3. CASE c > calls'
  <2>1. c > calls
    BY <1>0, <1>1, <1>3, <1>6, <1>7
  <2>2. c # h[a].call
    BY <1>0, <1>1, <2>1
  <2> QED
    BY <2>1, <2>2
<1>4. CASE \E b \in Agents \ {a} : h'[b].call = c /\ MayCreate(h'[b], k)
  <2>1. PICK b \in Agents \ {a} : h[b].call = c /\ MayCreate(h[b], k)
    BY <1>0, <1>4
  <2>2. Create(a) => c # h[a].call
    BY <1>1, <2>1 DEF CallsInv, StepsKept
  <2> QED
    BY <2>1, <2>2
<1>5. CASE h'[a].call = c /\ MayCreate(h'[a], k)
  <2>1. CASE CourseCall(a)
    <3>1. c = calls' /\ ~Create(a)
      BY <1>5, <2>1, Placed DEF CourseCall
    <3>2. c > calls
      BY <1>0, <1>6, <2>1, <3>1
    <3> QED
      BY <3>1, <3>2
  <2>2. CASE ~CourseCall(a)
    BY <1>1, <1>5, <2>2, MayCreateStays
  <2> QED
    BY <2>1, <2>2
<1> QED
  BY <1>3, <1>4, <1>5

LEMMA StaysEnough ==
  ASSUME CallsInv, Enough, NEW a \in Agents, Step(a), Course(a)
  PROVE  Enough'
<1>1. IsFiniteSet(Left) /\ Cardinality(Left) \in Nat /\ MaxCalls \in Nat /\ Len(owner) \in Nat
  BY LeftIsFinite, EpisodesAssumption DEF EpisodesAssumption, CallsInv, IInv, FilesSound
<1>2. CASE Create(a)
  <2> DEFINE p == <<h[a].call, Which(h[a])>>
  <2>1. Len(owner') = Len(owner) + 1 /\ h[a].call \in Calls /\ MayCreate(h[a], Which(h[a]))
    BY <1>2, CreateCounts
  <2>2. p \in Left
    BY <2>1 DEF Left, Which
  <2>3. IsFiniteSet(Left \ {p}) /\ Cardinality(Left \ {p}) = Cardinality(Left) - 1
    BY <1>1, <2>2, FS_RemoveElement
  <2>4. Left' \subseteq Left \ {p}
    BY <1>2, LeftShrinks
  <2>5. Cardinality(Left') <= Cardinality(Left \ {p}) /\ Cardinality(Left') \in Nat
    BY <2>3, <2>4, FS_Subset, FS_CardinalityType
  <2> QED
    BY <1>1, <2>1, <2>3, <2>5 DEF Enough
<1>3. CASE ~Create(a)
  <2>1. Left' \subseteq Left
    BY <1>3, LeftShrinks
  <2>2. Cardinality(Left') <= Cardinality(Left) /\ Cardinality(Left') \in Nat
    BY <1>1, <2>1, FS_Subset, FS_CardinalityType
  <2>3. owner' = owner
    BY <1>3 DEF Step, HookStep, HostStep, CallTool, ToolReturns, ToolInterrupted, EndSession, Kill,
       FindEpisode, Close, Finish, Truncate, Fill, CreateStep, WriteTmp, Replace, CountStep, Evaluate,
       ChangePhase, world
  <2> QED
    BY <1>1, <2>2, <2>3 DEF Enough
<1> QED
  BY <1>2, <1>3

\* A row counts no more than n, the calls so far.  Errors are noted only when the row
\* leaves its first phase, one of them at most; and its last phase is that of a
\* closed episode.
Fits(row, n) ==
  /\ row.count <= n
  /\ \A t \in Tools : row.errs[t] <= n /\ (row.phase = "explore" => row.errs[t] = 0)
  /\ row.phase = "consolidate" => row.outcome # "in_progress"

RowsFit ==
  /\ \A e \in Episodes : Fits(rows[e], calls)
  /\ \A a \in Agents : Fits(h[a].row, calls) /\ (h[a].kind = "pre" => h[a].row.count < calls)

LEMMA FitsLater ==
  ASSUME NEW n \in Nat, NEW row \in AnyRow, Fits(row, n), NEW m \in {n, n + 1}
  PROVE  Fits(row, m)
<1>1. row.count \in Nat /\ \A t \in Tools : row.errs[t] \in Nat
  BY DEF AnyRow
<1>2. row.count <= m /\ \A t \in Tools : row.errs[t] <= m
  BY <1>1 DEF Fits
<1> QED
  BY <1>2 DEF Fits

\* A step that changes the row of its hook writes one that fits.
LEMMA ChangeFits ==
  ASSUME CallsInv, Resting, RowsFit, NEW a \in Agents, ChangePhase(a), NEW e \in Episodes, e = h[a].ep,
         rows'[e] # rows[e]
  PROVE  Fits(rows'[e], calls)
<1> DEFINE t == tool[h[a].step]
           row == IF h[a].kind = "fail" THEN [h[a].row EXCEPT !.errs[t] = @ + 1] ELSE h[a].row
           phase == IF BudgetExceeded(row, h[a].ep) THEN "halt" ELSE row.phase
<1>0. rows \in Seq(AnyRow) /\ e \in DOMAIN rows /\ h[a].row \in AnyRow
  BY DEF CallsInv, RowsSound, Episodes
<1>1. Fits(h[a].row, calls) /\ h[a].row.outcome = "in_progress"
  BY DEF RowsFit, Resting
<1>2. calls \in Nat /\ 1 <= calls
  <2>1. h[a].call # None
    BY DEF ChangePhase, CallsInv, StepsKept, Busy
  <2> QED
    BY <2>1, CallBounds DEF None
<1>3. rows' = rows \/ rows' = [rows EXCEPT ![e] = [row EXCEPT !.phase = phase]]
  BY DEF ChangePhase
<1>4. row.phase # phase => phase = "halt"
  OBVIOUS
<1>5. phase # row.phase
  BY DEF ChangePhase
<1>6. row \in AnyRow /\ row.count = h[a].row.count /\ row.phase = h[a].row.phase
  BY <1>0, ErrorNoted
<1>7. \A u \in Tools : row.errs[u] \in {h[a].row.errs[u], h[a].row.errs[u] + 1}
  <2> DEFINE errs == h[a].row.errs
  <2>1. DOMAIN h[a].row = {"outcome", "phase", "count", "errs"} /\ errs \in [Tools -> Nat]
    BY <1>0 DEF AnyRow
  <2>2. CASE h[a].kind = "fail"
    <3>1. row.errs = [errs EXCEPT ![t] = @ + 1]
      BY <2>1, <2>2
    <3> QED
      BY <2>1, <3>1
  <2> QED
    BY <2>2
<1> HIDE DEF row, phase
<1>8. rows'[e] = [row EXCEPT !.phase = "halt"]
  BY <1>0, <1>3, <1>4, <1>5
<1>9. /\ rows'[e].phase = "halt" /\ rows'[e].count = row.count /\ rows'[e].errs = row.errs
  BY <1>6, <1>8 DEF AnyRow
<1>10. h[a].row.phase = "explore"
  BY <1>0, <1>1, <1>4, <1>5, <1>6 DEF AnyRow, Phases, Fits
<1>11. \A u \in Tools : row.errs[u] \in {0, 1}
  BY <1>1, <1>7, <1>10 DEF Fits
<1>12. \A u \in Tools : row.errs[u] <= calls
  BY <1>2, <1>11
<1> QED
  BY <1>1, <1>6, <1>9, <1>12 DEF Fits

LEMMA ClosedFits ==
  ASSUME NEW n, NEW row \in AnyRow, Fits(row, n), NEW o \in Outcomes \ {"in_progress"}
  PROVE  Fits(Closed(row, o), n)
<1>1. /\ Closed(row, o).outcome = o /\ Closed(row, o).count = row.count
      /\ Closed(row, o).errs = row.errs /\ Closed(row, o).phase = "consolidate"
  BY DEF Closed, AnyRow
<1> QED
  BY <1>1 DEF Fits

LEMMA NewRowFits ==
  ASSUME NEW n \in Nat
  PROVE  Fits(NewRow, n) /\ NewRow.count = 0
<1>1. /\ NewRow.count = 0 /\ NewRow.phase = "explore" /\ NewRow.errs = [t \in Tools |-> 0]
  BY DEF NewRow
<1> QED
  BY <1>1 DEF Fits

\* What one step leaves fits the calls that were there before it.
LEMMA WritesFit ==
  ASSUME CallsInv, Resting, RowsFit, NEW a \in Agents, Step(a), NEW e \in Episodes'
  PROVE  Fits(rows'[e], calls)
<1>2. CASE e \in Episodes
  <2>0. Fits(rows[e], calls) /\ rows[e] \in AnyRow /\ Fits(h[a].row, calls) /\ h[a].row \in AnyRow
    BY <1>2 DEF RowsFit, CallsInv, RowsSound, Episodes
  <2>1. CASE Close(a) /\ rows'[e] = Closed(h[a].row, AutoOutcome(e))
    BY <2>0, <2>1, ClosedFits, OutcomeCloses
  <2>2. CASE Finish(a) /\ rows'[e] = Closed(rows[e], EndOutcome(e))
    BY <2>0, <2>2, ClosedFits, OutcomeCloses
  <2>3. CASE CountStep(a) /\ rows'[e] = [h[a].row EXCEPT !.count = @ + 1]
    <3>1. h[a].kind = "pre"
      BY <2>3 DEF CountStep, CallsInv, StepsKept, Busy
    <3>2. h[a].row.count < calls /\ h[a].row.count \in Nat /\ calls \in Nat
      BY <2>0, <3>1, CallBounds DEF RowsFit, AnyRow
    <3>3. /\ rows'[e].count = h[a].row.count + 1 /\ rows'[e].errs = h[a].row.errs
          /\ rows'[e].phase = h[a].row.phase /\ rows'[e].outcome = h[a].row.outcome
      BY <2>0, <2>3 DEF AnyRow
    <3>4. rows'[e].count <= calls
      BY <3>2, <3>3
    <3> QED
      BY <2>0, <3>3, <3>4 DEF Fits
  <2>4. CASE ChangePhase(a) /\ e = h[a].ep /\ rows'[e] # rows[e]
    BY <1>2, <2>4, ChangeFits
  <2>5. CASE rows'[e] = rows[e]
    BY <2>0, <2>5
  <2> QED
    BY <1>2, <2>1, <2>2, <2>3, <2>4, <2>5, RowWrites
<1>3. CASE e \notin Episodes
  <2>1. Create(a)
    <3> SUFFICES ASSUME ~Create(a) PROVE FALSE
      OBVIOUS
    <3>1. owner' = owner
      BY DEF Step, HookStep, HostStep, CallTool, ToolReturns, ToolInterrupted, EndSession, Kill,
         FindEpisode, Close, Finish, Truncate, Fill, CreateStep, WriteTmp, Replace, CountStep, Evaluate,
         ChangePhase, world
    <3> QED
      BY <1>3, <3>1 DEF Episodes
  <2>2. rows' = Append(rows, NewRow) /\ e = Len(rows) + 1 /\ rows \in Seq(AnyRow)
    <3>1. rows' = Append(rows, NewRow) /\ rows \in Seq(AnyRow) /\ Len(rows) = Len(owner)
      BY <2>1 DEF Create, CallsInv, RowsSound
    <3>2. e \in 1..(Len(owner) + 1) /\ e \notin 1..Len(owner) /\ Len(owner) \in Nat
      BY <1>3, <2>1, CreateCounts DEF Episodes
    <3> QED
      BY <3>1, <3>2
  <2>3. rows'[e] = NewRow
    BY <2>2, NewRowIsRow
  <2> QED
    BY <2>3, NewRowFits, CallBounds
<1> QED
  BY <1>2, <1>3

LEMMA StaysFit ==
  ASSUME CallsInv, CallsInv', Resting, RowsFit, NEW a \in Agents, Step(a), Course(a)
  PROVE  RowsFit'
<1>0. calls \in Nat /\ calls' \in {calls, calls + 1}
  BY CallBounds, Writes DEF CallsInv, IInv
<1>1. \A e \in Episodes' : Fits(rows'[e], calls')
  <2> TAKE e \in Episodes'
  <2>1. rows'[e] \in AnyRow
    BY DEF CallsInv, RowsSound, Episodes
  <2> QED
    BY <1>0, <2>1, WritesFit, FitsLater
<1>2. ASSUME NEW b \in Agents \ {a}
      PROVE  Fits(h'[b].row, calls') /\ (h'[b].kind = "pre" => h'[b].row.count < calls')
  <2>1. h'[b] = h[b] /\ h[b].row \in AnyRow /\ Fits(h[b].row, calls)
    BY DEF Step, CallsInv, RowsSound, RowsFit
  <2>2. Fits(h[b].row, calls')
    BY <1>0, <2>1, FitsLater
  <2>3. h[b].kind = "pre" => h[b].row.count < calls
    BY DEF RowsFit
  <2>4. h[b].row.count \in Nat
    BY <2>1 DEF AnyRow
  <2> QED
    BY <1>0, <2>1, <2>2, <2>3, <2>4
<1>3. Fits(h'[a].row, calls)
  <2>1. NewRow \in AnyRow /\ Fits(NewRow, calls) /\ Fits(h[a].row, calls)
    BY <1>0, NewRowIsRow, NewRowFits DEF RowsFit
  <2>2. Opened(a, h'[a]) => Fits(h'[a].row, calls)
    BY LoadedOwned DEF Opened, RowsFit, CallsInv, IInv, FilesSound, Owned
  <2> QED
    BY <2>1, <2>2, IdleFields DEF Course, CourseIdle, CourseCall, CourseFind, CourseNew, CourseOn,
       CourseStep, CourseTool, CourseReturn, CourseEnd, CoursePhase, Rests
<1>4. Fits(h'[a].row, calls')
  <2>1. h'[a].row \in AnyRow
    BY DEF CallsInv, RowsSound
  <2> QED
    BY <1>0, <1>3, <2>1, FitsLater
<1>5. ASSUME h'[a].kind = "pre" PROVE h'[a].row.count < calls'
  <2>0. h'[a].row.count \in Nat /\ h[a].row.count \in Nat
    BY DEF CallsInv, RowsSound, AnyRow
  <2>1. CASE CourseCall(a)
    <3>1. calls' = calls + 1
      BY <2>1 DEF CourseCall, CallTool
    <3>2. h'[a].row.count <= calls
      BY <1>3 DEF Fits
    <3> QED
      BY <1>0, <2>0, <3>1, <3>2
  <2>2. CASE ~CourseCall(a)
    <3>1. h[a].kind = "pre" /\ h'[a].row \in {h[a].row, NewRow}
      BY <1>5, <2>2, IdleFields DEF Course, CourseIdle, CourseFind, CourseNew, CourseOn,
         CourseStep, CourseTool, CourseReturn, CourseEnd, CoursePhase, Rests, Keeps, Evaluations,
         CallsInv, StepsKept, Busy
    <3>2. h[a].row.count < calls
      BY <3>1 DEF RowsFit
    <3>3. NewRow.count < calls
      BY <1>0, <2>0, <3>2, NewRowFits
    <3>4. calls <= calls'
      BY <1>0
    <3>5. h'[a].row.count < calls
      BY <3>1, <3>2, <3>3
    <3> QED
      BY <1>0, <2>0, <3>4, <3>5
  <2> QED
    BY <2>1, <2>2
<1> QED
  BY <1>1, <1>2, <1>4, <1>5 DEF RowsFit

\* The types of what no other part has needed.
Judged == [ep : Nat, eval : Evaluations \cup {"unknown"}, by : Calls \cup {None}]
WorldTyped ==
  /\ \A c \in Calls : steps[c] \in Judged
  /\ tool \in [Calls -> Tools]
  /\ old \subseteq Episodes /\ aged \subseteq 1..calls
  /\ parallel \subseteq Sessions /\ mapClash \in BOOLEAN /\ stepClash \in BOOLEAN
  /\ kills \in 0..MaxKills

LEMMA StaysWorldTyped ==
  ASSUME CallsInv, WorldTyped, NEW a \in Agents, Step(a), Course(a)
  PROVE  WorldTyped'
<1>1. \A c \in Calls : steps'[c] \in Judged
  <2>0. steps = [d \in Calls |-> steps[d]]
    BY DEF CallsInv, IInv, FilesSound
  <2>1. CASE CreateStep(a) /\ steps' = [steps EXCEPT ![h[a].call] = [NoStep EXCEPT !.ep = h[a].ep]]
    <3>1. h[a].ep \in Nat
      BY DEF CallsInv, IInv, HooksSound, Sound
    <3>2. [NoStep EXCEPT !.ep = h[a].ep] \in Judged
      BY <3>1 DEF NoStep, Judged
    <3> QED
      BY <2>0, <2>1, <3>2 DEF WorldTyped
  <2>2. CASE /\ Evaluate(a)
             /\ steps' = [steps EXCEPT ![h[a].step] =
                            [ep |-> h[a].ep, eval |-> h[a].kind, by |-> h[a].call]]
    <3>1. h[a].ep \in Nat /\ h[a].kind \in Evaluations /\ h[a].call \in Calls
      BY <2>2, EvaluatesOwn, CallBounds DEF Evaluate, CallsInv, IInv, HooksSound, Sound
    <3>2. [ep |-> h[a].ep, eval |-> h[a].kind, by |-> h[a].call] \in Judged
      BY <3>1 DEF Judged
    <3> QED
      BY <2>0, <2>2, <3>2 DEF WorldTyped
  <2> QED
    BY <2>1, <2>2, Writes DEF CallsInv, IInv, WorldTyped
<1>2. tool' = tool /\ old' = old /\ aged' = aged
  BY DEF Step, HookStep, HostStep, CallTool, ToolReturns, ToolInterrupted, EndSession, Kill,
     FindEpisode, Close, Create, Finish, Truncate, Fill, CreateStep, WriteTmp, Replace, CountStep,
     Evaluate, ChangePhase, world
<1>3. old' \subseteq Episodes' /\ aged' \subseteq 1..calls'
  <2>1. Episodes \subseteq Episodes'
    BY Writes, OwnersStay DEF CallsInv, IInv
  <2>2. calls \in Nat /\ calls' \in {calls, calls + 1}
    BY CallBounds, Writes DEF CallsInv, IInv
  <2>3. 1..calls \subseteq 1..calls'
    BY <2>2
  <2> QED
    BY <1>2, <2>1, <2>3 DEF WorldTyped
<1>4. parallel' \subseteq Sessions
  <2>1. parallel' \in {parallel, parallel \cup {session[a]}}
    BY DEF Step, HookStep, HostStep, CallTool, ToolReturns, ToolInterrupted, EndSession, Kill,
       FindEpisode, Close, Create, Finish, Truncate, Fill, CreateStep, WriteTmp, Replace, CountStep,
       Evaluate, ChangePhase, history
  <2>2. session[a] \in Sessions /\ parallel \subseteq Sessions
    BY DEF CallsInv, IInv, FilesSound, WorldTyped
  <2> QED
    BY <2>1, <2>2
<1>5. mapClash' \in BOOLEAN
  <2>1. mapClash' = mapClash \/ mapClash' = (mapClash \/ mapping # h[a].m)
    BY DEF Step, HookStep, HostStep, CallTool, ToolReturns, ToolInterrupted, EndSession, Kill,
       FindEpisode, Close, Create, Finish, Truncate, Fill, CreateStep, WriteTmp, Replace, CountStep,
       Evaluate, ChangePhase, history
  <2>2. (mapClash \/ mapping # h[a].m) \in BOOLEAN
    OBVIOUS
  <2> QED
    BY <2>1, <2>2 DEF WorldTyped
<1>6. stepClash' \in BOOLEAN
  <2>1. \/ stepClash' = stepClash
        \/ stepClash' = (stepClash \/ tmp # NoTmp)
        \/ stepClash' = (stepClash \/ tmp = NoTmp \/ active # h[a].act)
    BY DEF Step, HookStep, HostStep, CallTool, ToolReturns, ToolInterrupted, EndSession, Kill,
       FindEpisode, Close, Create, Finish, Truncate, Fill, CreateStep, WriteTmp, Replace, CountStep,
       Evaluate, ChangePhase, history
  <2>2. /\ (stepClash \/ tmp # NoTmp) \in BOOLEAN
        /\ (stepClash \/ tmp = NoTmp \/ active # h[a].act) \in BOOLEAN
    OBVIOUS
  <2> QED
    BY <2>1, <2>2 DEF WorldTyped
<1>7. kills' \in 0..MaxKills
  <2>1. kills' = kills \/ (kills < MaxKills /\ kills' = kills + 1)
    BY DEF Step, HookStep, HostStep, CallTool, ToolReturns, ToolInterrupted, EndSession, Kill,
       FindEpisode, Close, Create, Finish, Truncate, Fill, CreateStep, WriteTmp, Replace, CountStep,
       Evaluate, ChangePhase, history
  <2>2. MaxKills \in Nat /\ kills \in 0..MaxKills
    BY EpisodesAssumption DEF EpisodesAssumption, WorldTyped
  <2> QED
    BY <2>1, <2>2
<1> QED
  BY <1>1, <1>2, <1>3, <1>4, <1>5, <1>6, <1>7 DEF WorldTyped

TypesInv == CallsInv /\ Resting /\ RowsFit /\ Enough /\ WorldTyped

LEMMA InitTypesInv == Init => TypesInv
<1> SUFFICES ASSUME Init PROVE TypesInv
  OBVIOUS
<1>1. \A a \in Agents : h[a] = Idle
  BY DEF Init
<1>2. Resting
  BY <1>1, IdleFields, NewRowIsRow DEF Resting
<1>3. RowsFit
  BY <1>1, IdleFields, NewRowFits DEF RowsFit, Init, Episodes
<1>4. Enough
  <2>1. Left \subseteq Calls \X {1, 2}
    BY DEF Left
  <2>2. Cardinality(Left) <= 2 * MaxCalls /\ Cardinality(Left) \in Nat
    BY <2>1, LeftIsFinite, FS_Subset
  <2>3. Len(owner) = 0 /\ MaxCalls \in Nat
    BY EpisodesAssumption DEF EpisodesAssumption, Init
  <2> QED
    BY <2>2, <2>3 DEF Enough
<1>5. WorldTyped
  <2>1. \A c \in Calls : steps[c] = NoStep
    BY DEF Init
  <2>2. NoStep \in Judged
    BY DEF NoStep, Judged, None
  <2>3. tool \in [Calls -> Tools] /\ old = {} /\ aged = {} /\ parallel = {}
    BY DEF Init
  <2>4. mapClash \in BOOLEAN /\ stepClash \in BOOLEAN
    BY DEF Init
  <2>5. kills \in 0..MaxKills
    BY EpisodesAssumption DEF EpisodesAssumption, Init
  <2> QED
    BY <2>1, <2>2, <2>3, <2>4, <2>5 DEF WorldTyped
<1> QED
  BY <1>2, <1>3, <1>4, <1>5, InitCallsInv DEF TypesInv

LEMMA StepTypesInv == TypesInv /\ [Next]_vars => TypesInv'
<1> SUFFICES ASSUME TypesInv, [Next]_vars PROVE TypesInv'
  OBVIOUS
<1>1. CallsInv'
  BY StepCallsInv DEF TypesInv
<1>2. CASE HalfAnHour \/ UNCHANGED vars
  <2>1. UNCHANGED <<files, h, session, tool, owner, calls, history>>
    BY <1>2 DEF HalfAnHour, vars, world
  <2>2. Resting' /\ RowsFit' /\ Enough'
    BY <2>1 DEF TypesInv, Resting, RowsFit, Enough, Left, Episodes, files
  <2>3. (old' = old /\ aged' = aged) \/ (old' = Episodes /\ aged' = 1..calls)
    BY <1>2 DEF HalfAnHour, vars, world
  <2>4. WorldTyped'
    BY <2>1, <2>3 DEF TypesInv, WorldTyped, Episodes, files, history
  <2> QED
    BY <1>1, <2>2, <2>4 DEF TypesInv
<1>3. CASE \E a \in Agents : HookStep(a) \/ HostStep(a)
  <2>1. PICK a \in Agents : HookStep(a) \/ HostStep(a)
    BY <1>3
  <2>2. Step(a) /\ Course(a)
    BY <2>1, AgentCallsInv DEF TypesInv
  <2> QED
    BY <1>1, <2>2, StaysResting, StaysFit, StaysEnough, StaysWorldTyped DEF TypesInv
<1> QED
  BY <1>2, <1>3 DEF Next

LEMMA TypesInvTypes == TypesInv => TypeOK
<1> SUFFICES ASSUME TypesInv PROVE TypeOK
  OBVIOUS
<1>0. /\ HooksSound /\ FilesSound /\ RowsSound /\ StepsKept /\ RowsFit /\ WorldTyped /\ CallsInv
      /\ calls \in Nat /\ calls <= MaxCalls /\ 1..calls \subseteq Calls /\ MaxCalls \in Nat
  <2>1. CASE Agents = {}
    BY <2>1, EpisodesAssumption DEF TypesInv, CallsInv, IInv, FilesSound, Calls, EpisodesAssumption
  <2>2. CASE Agents # {}
    BY <2>2, CallBounds, EpisodesAssumption DEF TypesInv, CallsInv, IInv, EpisodesAssumption
  <2> QED
    BY <2>1, <2>2
<1>1. Episodes \subseteq Ids
  <2>1. Len(owner) \in Nat /\ Len(owner) <= 2 * MaxCalls
    BY <1>0, LeftIsFinite DEF TypesInv, Enough, FilesSound
  <2> QED
    BY <1>0, <2>1 DEF Episodes, Ids
<1>2. \A m \in Table : Owned(m) => m \in Mappings
  BY <1>1 DEF Table, Owned, Mappings
<1>3. \A m \in Table : Entries(m) => m \in Actives
  BY <1>0 DEF Table, Entries, OfSession, Actives
<1>4. \A row \in AnyRow : Fits(row, calls) => row \in Rows
  <2> TAKE row \in AnyRow
  <2> HAVE Fits(row, calls)
  <2>1. row.count \in 0..MaxCalls
    BY <1>0 DEF Fits, AnyRow
  <2>2. row.errs \in [Tools -> 0..MaxCalls]
    <3>1. row.errs \in [Tools -> Nat] /\ \A t \in Tools : row.errs[t] <= calls
      BY DEF Fits, AnyRow
    <3>2. \A t \in Tools : row.errs[t] \in 0..MaxCalls
      BY <1>0, <3>1
    <3> QED
      BY <3>1, <3>2
  <2> QED
    BY <2>1, <2>2 DEF AnyRow, Rows
<1>5. mapping \in Mappings \cup {Torn} /\ active \in Actives /\ tmp \in Actives \cup {NoTmp}
  BY <1>0, <1>2, <1>3 DEF FilesSound, StepsKept
<1>6. rows \in Seq(Rows) /\ Len(rows) = Len(owner)
  <2>1. rows \in Seq(AnyRow) /\ Len(rows) = Len(owner)
    BY <1>0 DEF RowsSound
  <2>2. \A e \in 1..Len(rows) : rows[e] \in Rows
    BY <1>0, <1>4, <2>1 DEF RowsFit, Episodes
  <2> QED
    BY <2>1, <2>2
<1>7. steps \in [Calls -> [ep : Ids \cup {None}, eval : Evaluations \cup {"unknown"},
                           by : Calls \cup {None}]]
  <2>1. \A c \in Calls : /\ steps[c] \in Judged
                         /\ steps[c].ep # None => steps[c].ep \in Ids
    BY <1>0, <1>1 DEF WorldTyped, FilesSound
  <2>2. \A c \in Calls : steps[c] \in [ep : Ids \cup {None}, eval : Evaluations \cup {"unknown"},
                                       by : Calls \cup {None}]
    BY <2>1 DEF Judged
  <2>3. steps = [c \in Calls |-> steps[c]]
    BY <1>0 DEF FilesSound
  <2> QED
    BY <2>2, <2>3
<1>8. h \in [Agents -> [pc : Places, kind : Kinds, call : Calls \cup {None},
                        step : Calls \cup {None}, m : Mappings, act : Actives,
                        ep : Ids \cup {None}, row : Rows, noticed : BOOLEAN]]
  <2>1. ASSUME NEW a \in Agents
        PROVE  h[a] \in [pc : Places, kind : Kinds, call : Calls \cup {None},
                         step : Calls \cup {None}, m : Mappings, act : Actives,
                         ep : Ids \cup {None}, row : Rows, noticed : BOOLEAN]
    <3>1. Whole(h[a]) /\ h[a].pc \in Places /\ h[a].kind \in Kinds /\ h[a].noticed \in BOOLEAN
      BY <1>0 DEF StepsKept, Busy, HooksSound, Sound
    <3>2. h[a].call \in Calls \cup {None} /\ h[a].step \in Calls \cup {None}
      BY <1>0, CallBounds
    <3>3. h[a].m \in Mappings /\ h[a].ep \in Ids \cup {None}
      BY <1>0, <1>1, <1>2 DEF HooksSound, Sound
    <3>4. h[a].act \in Actives
      BY <1>0, <1>3 DEF HooksSound, Sound, StepsKept, InHand
    <3>5. h[a].row \in Rows
      BY <1>0, <1>4 DEF RowsFit, RowsSound
    <3> QED
      BY <3>1, <3>2, <3>3, <3>4, <3>5 DEF Whole
  <2> QED
    BY <1>0, <2>1 DEF HooksSound
<1> QED
  BY <1>0, <1>5, <1>6, <1>7, <1>8 DEF TypeOK, WorldTyped, FilesSound

\* Whatever the agents and sessions do, the hooks before and after a tool call create
\* one episode each at most (integration.py:159-211), a row counts no more steps than
\* there were calls, and every file and variable has its type.
THEOREM TypesHold == Spec => []TypeOK
  BY InitTypesInv, StepTypesInv, TypesInvTypes, PTL DEF Spec
=============================================================================
