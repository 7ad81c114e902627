--------------------------- MODULE EpisodesProofs ---------------------------
(***************************************************************************)
(* Proofs about Episodes, for any agents, sessions, tools and bounds: a    *)
(* step is evaluated with the result of its own call.                      *)
(***************************************************************************)
EXTENDS Episodes, TLAPS

\* A hook's memory has the fields of Idle.
Whole(x) == x = [pc |-> x.pc, kind |-> x.kind, call |-> x.call, step |-> x.step, m |-> x.m,
                 act |-> x.act, ep |-> x.ep, row |-> x.row, noticed |-> x.noticed]

Table == [Sessions -> Nat]

\* Whoever writes the mapping, it leads a session to an episode of its own.
Owned(m) == \A s \in Sessions : m[s] # None => m[s] \in Episodes /\ owner[m[s]] = s

\* What agent a may have in memory, but for what is only written to a row.
Sound(a, x) ==
  /\ Whole(x)
  /\ x.call \in Nat /\ x.ep \in Nat /\ x.m \in Table /\ x.act \in Table
  /\ Owned(x.m)
  /\ x.ep # None => x.ep \in Episodes /\ owner[x.ep] = session[a]
  /\ x.pc \in {"create_step", "evaluate"} => x.ep # None

HooksSound == h = [a \in Agents |-> h[a]] /\ \A a \in Agents : Sound(a, h[a])

FilesSound ==
  /\ session \in [Agents -> Sessions]
  /\ mapping \in Table \cup {Torn} /\ (mapping # Torn => Owned(mapping))
  /\ active \in Table /\ tmp \in Table \cup {NoTmp}
  /\ steps = [c \in Calls |-> steps[c]]
  /\ \A c \in Calls : steps[c].ep # None => steps[c].ep \in Episodes
  /\ owner \in Seq(Sessions)
  /\ calls \in 0..MaxCalls
  /\ kills \in Nat

\* In a session whose calls do not overlap one agent is busy at most.
Alone ==
  \A a, b \in Agents :
    a # b /\ session[a] = session[b] /\ session[a] \notin parallel
      => h[a].pc = "idle" \/ h[b].pc = "idle"

\* Unless there was a clash, the .tmp is of the one hook that will move it.
Handover ==
  ~stepClash =>
    \A a \in Agents : h[a].pc = "replace" =>
      /\ tmp \in Table
      /\ tmp[session[a]] = Entry(a)
      /\ \A s \in Sessions \ {session[a]} : tmp[s] \in {None, h[a].act[s]}
      /\ \A b \in Agents \ {a} : h[b].pc # "replace"

\* Where a hook has the step that it will evaluate, if it will.
Searching == {"finish", "look_up", "close", "create", "truncate", "fill", "evaluate"}

\* The step that waits for a result is that of the call that will have it.
Mine ==
  ~stepClash /\ kills = 0 =>
    \A a \in Agents : session[a] \notin parallel =>
      /\ h[a].pc \in {"count", "tool"} => active[session[a]] \in {None, h[a].call}
      /\ h[a].pc \in Searching => h[a].step \in {None, h[a].call}

\* OwnResult for all calls, those still to be made as well.
EachOwnResult ==
  ~stepClash => \A c \in Calls :
    (steps[c].ep # None => Undisturbed(owner[steps[c].ep])) => steps[c].by \in {None, c}

IInv == HooksSound /\ FilesSound /\ Alone /\ Handover /\ Mine /\ EachOwnResult

\* The memory of a hook that begins.
LEMMA IdleSound ==
  ASSUME NEW a
  PROVE  /\ Sound(a, Idle)
         /\ Idle.call = None /\ Idle.step = None /\ Idle.ep = None /\ Idle.kind = "none"
         /\ Idle.pc = "idle"
<1>1. Whole(Idle) /\ Idle.m \in Table /\ Idle.act \in Table /\ Owned(Idle.m)
  BY DEF Whole, Idle, Table, Owned, NoMapping, NoActive, None
<1>2. /\ Idle.call = None /\ Idle.step = None /\ Idle.ep = None /\ Idle.kind = "none"
      /\ Idle.pc = "idle"
  BY DEF Idle
<1> QED
  BY <1>1, <1>2 DEF Sound, None

LEMMA InitIInv == Init => IInv
<1> SUFFICES ASSUME Init PROVE IInv
  OBVIOUS
<1>1. \A a \in Agents : Sound(a, Idle)
  BY IdleSound DEF Init
<1>2. h = [a \in Agents |-> h[a]] /\ \A a \in Agents : h[a] = Idle
  BY DEF Init
<1>3. HooksSound
  BY <1>1, <1>2 DEF HooksSound
<1>4. FilesSound
  <2>1. NoMapping \in Table /\ NoActive \in Table /\ Owned(NoMapping)
    BY DEF NoMapping, NoActive, Table, Owned, None
  <2>2. 0 \in 0..MaxCalls
    BY EpisodesAssumption DEF EpisodesAssumption
  <2>3. steps = [c \in Calls |-> steps[c]] /\ \A c \in Calls : steps[c].ep = None
    BY DEF Init, NoStep
  <2> QED
    BY <2>1, <2>2, <2>3 DEF Init, FilesSound
<1>5. Alone /\ Handover /\ Mine /\ EachOwnResult
  BY DEF Init, Alone, Handover, Mine, EachOwnResult, Idle, NoActive, NoStep, Searching
<1> QED
  BY <1>3, <1>4, <1>5 DEF IInv

-----------------------------------------------------------------------------
(* What a hook knows after it has looked for its episode.                  *)

LEMMA LoadedOwned ==
  ASSUME FilesSound
  PROVE  Loaded \in Table /\ Owned(Loaded)
  BY DEF FilesSound, Loaded, NoMapping, Table, Owned, None

LEMMA LookupKeeps ==
  ASSUME FilesSound, NEW a \in Agents, NEW hook, Sound(a, hook),
         NEW x, x = Lookup(a, hook)
  PROVE  /\ Sound(a, x)
         /\ x.kind = hook.kind /\ x.call = hook.call /\ x.step = hook.step
         /\ x.pc \in {"create", "close", Work(hook.kind)}
<1> DEFINE e == Loaded[session[a]]
           found == [hook EXCEPT !.ep = e, !.row = rows[e]]
<1> USE DEF Sound
<1>1. session[a] \in Sessions /\ e \in Nat /\ Loaded \in Table /\ Owned(Loaded)
  BY LoadedOwned DEF FilesSound, Table
<1>2. e # None => e \in Episodes /\ owner[e] = session[a]
  BY <1>1 DEF Owned
<1>3. CASE x = [hook EXCEPT !.pc = "create", !.m = Loaded]
  <2>1. Whole(x)
    BY <1>3 DEF Whole
  <2>2. /\ x.kind = hook.kind /\ x.call = hook.call /\ x.step = hook.step
        /\ x.act = hook.act /\ x.m = Loaded /\ x.ep = hook.ep /\ x.pc = "create"
    BY <1>3 DEF Whole
  <2> QED
    BY <1>1, <2>1, <2>2 DEF None
<1>4. CASE e # None /\ x = [found EXCEPT !.pc = "close", !.m = Loaded]
  BY <1>1, <1>2, <1>4 DEF Whole
<1>5. CASE e # None /\ x = [found EXCEPT !.pc = Work(hook.kind)]
  <2>1. Whole(x)
    BY <1>5 DEF Whole
  <2>2. /\ x.kind = hook.kind /\ x.call = hook.call /\ x.step = hook.step
        /\ x.act = hook.act /\ x.m = hook.m /\ x.ep = e /\ x.pc = Work(hook.kind)
    BY <1>5 DEF Whole
  <2> QED
    BY <1>1, <1>2, <1>5, <2>1, <2>2
<1> QED
  BY <1>3, <1>4, <1>5 DEF Lookup

-----------------------------------------------------------------------------
(* The types, and whose episodes are whose.                                *)

LEMMA OwnersStay ==
  ASSUME FilesSound, owner' = owner \/ \E s \in Sessions : owner' = Append(owner, s)
  PROVE  \A e \in Episodes : e \in Episodes' /\ owner'[e] = owner[e]
  BY DEF FilesSound, Episodes

LEMMA OwnedStays ==
  ASSUME FilesSound, owner' = owner \/ \E s \in Sessions : owner' = Append(owner, s),
         NEW m, Owned(m)
  PROVE  Owned(m)'
  BY OwnersStay DEF Owned

LEMMA SoundStays ==
  ASSUME FilesSound, owner' = owner \/ \E s \in Sessions : owner' = Append(owner, s),
         UNCHANGED session, NEW b, NEW y, Sound(b, y)
  PROVE  Sound(b, y)'
<1>1. Owned(y.m)'
  BY OwnedStays DEF Sound
<1>2. y.ep # None => y.ep \in Episodes' /\ owner'[y.ep] = session'[b]
  BY OwnersStay DEF Sound
<1> QED
  BY <1>1, <1>2 DEF Sound, Owned, Whole

LEMMA TurnSound ==
  ASSUME HooksSound, FilesSound, UNCHANGED session,
         owner' = owner \/ \E s \in Sessions : owner' = Append(owner, s),
         NEW a \in Agents, NEW x, h' = [h EXCEPT ![a] = x], Sound(a, x)'
  PROVE  HooksSound'
<1>1. \A b \in Agents : Sound(b, h[b])'
  <2> TAKE b \in Agents
  <2>1. CASE b = a
    BY <2>1 DEF HooksSound
  <2>2. CASE b # a
    <3>1. h'[b] = h[b] /\ Sound(b, h[b])
      BY <2>2 DEF HooksSound
    <3> HIDE DEF Sound
    <3> QED
      BY <3>1, SoundStays
  <2> QED
    BY <2>1, <2>2
<1>2. h' = [b \in Agents |-> h'[b]]
  BY DEF HooksSound
<1> QED
  BY <1>1, <1>2 DEF HooksSound

LEMMA NoneSound == NoMapping \in Table /\ NoActive \in Table /\ Owned(NoMapping) /\ None \in Nat
  BY DEF NoMapping, NoActive, Table, Owned, None

LEMMA HookTurns ==
  ASSUME HooksSound, FilesSound, NEW a \in Agents, HookStep(a)
  PROVE  HooksSound'
<1> DEFINE g == h[a]
<1>0. /\ Whole(g) /\ Sound(a, g) /\ a \in DOMAIN h
      /\ g.call \in Nat /\ g.ep \in Nat /\ g.m \in Table /\ g.act \in Table /\ Owned(g.m)
      /\ g.ep # None => g.ep \in Episodes /\ owner[g.ep] = session[a]
      /\ active \in Table
  BY DEF HooksSound, Sound, FilesSound
<1> HIDE DEF g
<1>a. Sound(a, Idle)
  BY IdleSound
<1>b. ASSUME NEW x, Sound(a, x), h' = [h EXCEPT ![a] = x], UNCHANGED <<owner, session>>
      PROVE  HooksSound'
  BY <1>b, SoundStays, TurnSound
<1>1. CASE FindEpisode(a)
  BY <1>0, <1>1, <1>b, LookupKeeps DEF FindEpisode, world, g
<1>2. CASE Close(a)
  <2>1. PICK x : /\ x = [g EXCEPT !.pc = "truncate", !.ep = None, !.row = NewRow]
                 /\ h' = [h EXCEPT ![a] = x]
    BY <1>2 DEF Close, g
  <2>2. Sound(a, x)
    <3>1. /\ Whole(x) /\ x.pc = "truncate" /\ x.call = g.call
          /\ x.m = g.m /\ x.act = g.act /\ x.ep = None
      BY <1>0, <2>1 DEF Whole
    <3> QED
      BY <1>0, <2>1, <3>1, NoneSound DEF Sound
  <2> QED
    BY <1>2, <1>b, <2>1, <2>2 DEF Close, world
<1>3. CASE Create(a)
  <2> DEFINE e == Len(owner')
  <2>1. PICK x : /\ x = [g EXCEPT !.pc = "truncate", !.ep = e, !.row = NewRow]
                 /\ h' = [h EXCEPT ![a] = x]
    BY <1>3 DEF Create, g
  <2>2. /\ owner' = Append(owner, session[a]) /\ UNCHANGED session /\ session[a] \in Sessions
    BY <1>3 DEF Create, FilesSound
  <2>3. e \in Episodes' /\ owner'[e] = session'[a] /\ e \in Nat
    BY <2>2 DEF FilesSound, Episodes
  <2>4. /\ Whole(x) /\ x.call = g.call /\ x.ep = e /\ x.m = g.m /\ x.act = g.act
        /\ x.pc = "truncate"
    BY <1>0, <2>1 DEF Whole
  <2>5. Owned(x.m)'
    <3>1. Owned(x.m)
      BY <1>0, <2>4
    <3> QED
      BY <2>2, <3>1, OwnedStays DEF Owned
  <2>6. Sound(a, x)'
    BY <1>0, <2>3, <2>4, <2>5 DEF Sound
  <2> QED
    BY <2>1, <2>2, <2>6, TurnSound
<1>4. CASE Finish(a) \/ Truncate(a) \/ WriteTmp(a) \/ Evaluate(a)
  <2>1. PICK p \in {"truncate", "fill", "replace", "phase"} : Goto(a, p) /\ UNCHANGED <<owner, session>>
    BY <1>4 DEF Finish, Truncate, WriteTmp, Evaluate, world
  <2>2. PICK x : x = [g EXCEPT !.pc = p] /\ h' = [h EXCEPT ![a] = x]
    BY <2>1 DEF Goto, g
  <2>3. Sound(a, x)
    <3>1. /\ Whole(x) /\ x.pc = p /\ x.call = g.call
          /\ x.m = g.m /\ x.act = g.act /\ x.ep = g.ep
      BY <1>0, <2>2 DEF Whole
    <3> QED
      BY <1>0, <2>1, <2>2, <3>1 DEF Sound
  <2> QED
    BY <1>b, <2>1, <2>2, <2>3
<1>5. CASE Fill(a)
  <2>1. UNCHANGED <<owner, session>> /\ mapping' = NewMapping(a)
    BY <1>5 DEF Fill, world
  <2>2. NewMapping(a) \in Table /\ Owned(NewMapping(a))
    BY <1>0 DEF NewMapping, Owned, Table, g
  <2>3. CASE Done(a)
    BY <1>a, <1>b, <2>1, <2>3 DEF Done
  <2>4. CASE h' = [h EXCEPT ![a] = [g EXCEPT !.pc = "create", !.m = NewMapping(a)]]
    <3>1. PICK x : x = [g EXCEPT !.pc = "create", !.m = NewMapping(a)]
      OBVIOUS
    <3>2. Sound(a, x)
      <4>1. /\ Whole(x) /\ x.pc = "create" /\ x.call = g.call
            /\ x.m = NewMapping(a) /\ x.act = g.act /\ x.ep = g.ep
        BY <1>0, <3>1 DEF Whole
      <4> QED
        BY <1>0, <2>2, <3>1, <4>1 DEF Sound
    <3> QED
      BY <1>b, <2>1, <2>4, <3>1, <3>2
  <2>5. CASE /\ g.ep # None
             /\ h' = [h EXCEPT ![a] = [g EXCEPT !.pc = Work(g.kind), !.m = NoMapping]]
    <3>1. PICK x : x = [g EXCEPT !.pc = Work(g.kind), !.m = NoMapping]
      OBVIOUS
    <3>2. Sound(a, x)
      <4>1. /\ Whole(x) /\ x.pc = Work(g.kind) /\ x.call = g.call
            /\ x.m = NoMapping /\ x.act = g.act /\ x.ep = g.ep
        BY <1>0, <3>1 DEF Whole
      <4> QED
        BY <1>0, <2>5, <3>1, <4>1, NoneSound DEF Sound
    <3> QED
      BY <1>b, <2>1, <2>5, <3>1, <3>2
  <2> QED
    BY <1>5, <2>1, <2>3, <2>4, <2>5 DEF Fill, g
<1>6. CASE CreateStep(a)
  <2>1. PICK x : /\ x = [g EXCEPT !.pc = "write_tmp", !.act = active]
                 /\ h' = [h EXCEPT ![a] = x]
    BY <1>6 DEF CreateStep, g
  <2>2. Sound(a, x)
    <3>1. /\ Whole(x) /\ x.pc = "write_tmp" /\ x.call = g.call
          /\ x.m = g.m /\ x.act = active /\ x.ep = g.ep
      BY <1>0, <2>1 DEF Whole
    <3> QED
      BY <1>0, <2>1, <3>1 DEF Sound
  <2> QED
    BY <1>6, <1>b, <2>1, <2>2 DEF CreateStep, world
<1>7. CASE Replace(a)
  <2>1. UNCHANGED <<owner, session>>
    BY <1>7 DEF Replace, world
  <2>2. CASE h' = [h EXCEPT ![a] = [g EXCEPT !.pc = "count"]]
    <3>1. PICK x : x = [g EXCEPT !.pc = "count"]
      OBVIOUS
    <3>2. Sound(a, x)
      <4>1. /\ Whole(x) /\ x.pc = "count" /\ x.call = g.call
            /\ x.m = g.m /\ x.act = g.act /\ x.ep = g.ep
        BY <1>0, <3>1 DEF Whole
      <4> QED
        BY <1>0, <3>1, <4>1 DEF Sound
    <3> QED
      BY <1>b, <2>1, <2>2, <3>1, <3>2
  <2>3. CASE Done(a)
    BY <1>a, <1>b, <2>1, <2>3 DEF Done
  <2> QED
    BY <1>7, <2>2, <2>3 DEF Replace, Goto, g
<1>8. CASE CountStep(a)
  <2>1. PICK x, n : /\ x = [Idle EXCEPT !.pc = "tool", !.kind = "tool", !.call = g.call,
                                        !.ep = g.ep, !.noticed = n]
                    /\ h' = [h EXCEPT ![a] = x]
    BY <1>8 DEF CountStep, g
  <2>2. Sound(a, x)
    <3>1. /\ Whole(x) /\ x.pc = "tool" /\ x.call = g.call
          /\ x.m = NoMapping /\ x.act = NoActive /\ x.ep = g.ep
      BY <2>1 DEF Whole, Idle
    <3> QED
      BY <1>0, <2>1, <3>1, NoneSound DEF Sound
  <2> QED
    BY <1>8, <1>b, <2>1, <2>2 DEF CountStep, world
<1>9. CASE ChangePhase(a)
  <2>1. PICK x : /\ x = [Idle EXCEPT !.pc = "write_tmp", !.kind = g.kind, !.act = active]
                 /\ h' = [h EXCEPT ![a] = x]
    BY <1>9 DEF ChangePhase, g
  <2>2. Sound(a, x)
    <3>1. /\ Whole(x) /\ x.pc = "write_tmp" /\ x.call = None
          /\ x.m = NoMapping /\ x.act = active /\ x.ep = None
      BY <2>1 DEF Whole, Idle
    <3> QED
      BY <1>0, <2>1, <3>1, NoneSound DEF Sound
  <2> QED
    BY <1>9, <1>b, <2>1, <2>2 DEF ChangePhase, world
<1> QED
  BY <1>1, <1>2, <1>3, <1>4, <1>5, <1>6, <1>7, <1>8, <1>9 DEF HookStep

LEMMA HostTurns ==
  ASSUME HooksSound, FilesSound, NEW a \in Agents, HostStep(a)
  PROVE  HooksSound'
<1> DEFINE g == h[a]
<1>0. Sound(a, g) /\ g.call \in Nat /\ a \in DOMAIN h
  BY DEF HooksSound, Sound
<1> HIDE DEF g
<1>1. UNCHANGED <<owner, session>>
  BY DEF HostStep, CallTool, ToolReturns, ToolInterrupted, EndSession, Kill, world
<1>a. Sound(a, Idle)
  BY IdleSound
<1>b. ASSUME NEW x, Sound(a, x), h' = [h EXCEPT ![a] = x]
      PROVE  HooksSound'
  BY <1>1, <1>b, SoundStays, TurnSound
<1>2. CASE CallTool(a)
  <2>1. calls' \in Nat
    BY <1>2 DEF CallTool, FilesSound
  <2>2. PICK y : y = [Idle EXCEPT !.kind = "pre", !.call = calls'] /\ h' = [h EXCEPT ![a] = Lookup(a, y)]
    BY <1>2 DEF CallTool
  <2>3. Sound(a, y)
    <3>1. /\ Whole(y) /\ y.pc = "idle" /\ y.call = calls'
          /\ y.m = NoMapping /\ y.act = NoActive /\ y.ep = None
      BY <2>2 DEF Whole, Idle
    <3> QED
      BY <1>0, <2>1, <2>2, <3>1, NoneSound DEF Sound
  <2> QED
    BY <1>b, <2>2, <2>3, LookupKeeps
<1>3. CASE ToolReturns(a)
  <2>1. CASE Done(a)
    BY <1>a, <1>b, <2>1 DEF Done
  <2>2. CASE ~Done(a)
    <3>1. PICK x, k, c : /\ x = [Idle EXCEPT !.pc = "look_up", !.kind = k, !.call = g.call, !.step = c]
                         /\ h' = [h EXCEPT ![a] = x]
      BY <1>3, <2>2 DEF ToolReturns, g
    <3>2. Sound(a, x)
      <4>1. /\ Whole(x) /\ x.pc = "look_up" /\ x.call = g.call
            /\ x.m = NoMapping /\ x.act = NoActive /\ x.ep = None
        BY <3>1 DEF Whole, Idle
      <4> QED
        BY <1>0, <3>1, <4>1, NoneSound DEF Sound
    <3> QED
      BY <1>b, <3>1, <3>2
  <2> QED
    BY <2>1, <2>2
<1>4. CASE ToolInterrupted(a)
  BY <1>4, <1>a, <1>b DEF ToolInterrupted, Done
<1>5. CASE EndSession(a)
  <2>1. PICK x : /\ x = [Idle EXCEPT !.pc = "finish", !.kind = "end", !.m = Loaded]
                 /\ h' = [h EXCEPT ![a] = x]
    BY <1>5 DEF EndSession
  <2>2. Sound(a, x)
    <3>1. /\ Whole(x) /\ x.pc = "finish" /\ x.call = None
          /\ x.m = Loaded /\ x.act = NoActive /\ x.ep = None
      BY <2>1 DEF Whole, Idle
    <3> QED
      BY <1>0, <2>1, <3>1, NoneSound, LoadedOwned DEF Sound
  <2> QED
    BY <1>b, <2>1, <2>2
<1>6. CASE Kill(a)
  <2>1. CASE Done(a)
    BY <1>a, <1>b, <2>1 DEF Done
  <2>2. CASE h' = [h EXCEPT ![a] = [Idle EXCEPT !.pc = "tool", !.kind = "tool", !.call = g.call]]
    <3>1. PICK x : x = [Idle EXCEPT !.pc = "tool", !.kind = "tool", !.call = g.call]
      OBVIOUS
    <3>2. Sound(a, x)
      <4>1. /\ Whole(x) /\ x.pc = "tool" /\ x.call = g.call
            /\ x.m = NoMapping /\ x.act = NoActive /\ x.ep = None
        BY <3>1 DEF Whole, Idle
      <4> QED
        BY <1>0, <3>1, <4>1, NoneSound DEF Sound
    <3> QED
      BY <1>b, <2>2, <3>1, <3>2
  <2> QED
    BY <1>6, <2>1, <2>2 DEF Kill, Done, g
<1> QED
  BY <1>2, <1>3, <1>4, <1>5, <1>6 DEF HostStep

LEMMA FilesStay ==
  ASSUME HooksSound, FilesSound, NEW a \in Agents, HookStep(a) \/ HostStep(a)
  PROVE  FilesSound'
<1> DEFINE g == h[a]
<1>0. /\ g.call \in Nat /\ g.m \in Table /\ g.act \in Table /\ Owned(g.m)
      /\ g.ep # None => g.ep \in Episodes /\ owner[g.ep] = session[a]
      /\ g.pc \in {"create_step", "evaluate"} => g.ep # None
      /\ session[a] \in Sessions /\ session \in [Agents -> Sessions]
      /\ g.ep \in Nat
  BY DEF HooksSound, Sound, FilesSound
<1> HIDE DEF g
<1>1. UNCHANGED session
  BY DEF HookStep, HostStep, CallTool, ToolReturns, ToolInterrupted, EndSession, Kill, FindEpisode,
         Close, Create, Finish, Truncate, Fill, CreateStep, WriteTmp, Replace, CountStep, Evaluate,
         ChangePhase, world
<1>2. owner' \in Seq(Sessions) /\ (owner' = owner \/ \E s \in Sessions : owner' = Append(owner, s))
  <2>1. CASE Create(a)
    BY <1>0, <2>1 DEF Create, FilesSound
  <2>2. CASE ~Create(a)
    BY <2>2 DEF HookStep, HostStep, CallTool, ToolReturns, ToolInterrupted, EndSession, Kill,
                FindEpisode, Close, Finish, Truncate, Fill, CreateStep, WriteTmp, Replace, CountStep,
                Evaluate, ChangePhase, world, FilesSound
  <2> QED
    BY <2>1, <2>2
<1>3. mapping' \in Table \cup {Torn} /\ (mapping' # Torn => Owned(mapping)')
  <2>1. CASE Truncate(a)
    BY <2>1 DEF Truncate
  <2>2. CASE Fill(a)
    <3>1. mapping' = NewMapping(a) /\ UNCHANGED owner
      BY <2>2 DEF Fill, world
    <3>2. NewMapping(a) \in Table /\ Owned(NewMapping(a))
      BY <1>0 DEF NewMapping, Owned, Table, g
    <3> QED
      BY <3>1, <3>2 DEF Owned, Episodes
  <2>3. CASE ~Truncate(a) /\ ~Fill(a)
    <3>1. UNCHANGED mapping
      BY <2>3 DEF HookStep, HostStep, CallTool, ToolReturns, ToolInterrupted, EndSession, Kill,
                  FindEpisode, Close, Create, Finish, CreateStep, WriteTmp, Replace, CountStep,
                  Evaluate, ChangePhase, files
    <3>2. mapping # Torn => Owned(mapping)
      BY DEF FilesSound
    <3> QED
      BY <1>2, <3>1, <3>2, OwnedStays DEF FilesSound, Owned
  <2> QED
    BY <2>1, <2>2, <2>3
<1>4. active' \in Table /\ tmp' \in Table \cup {NoTmp}
  <2>1. CASE WriteTmp(a)
    <3>1. Entry(a) \in Nat
      BY <1>0 DEF Entry, None, g
    <3>2. tmp' \in Table
      BY <1>0, <2>1, <3>1 DEF WriteTmp, Table, None, g
    <3> QED
      BY <2>1, <3>2 DEF WriteTmp, FilesSound
  <2>2. CASE Replace(a)
    BY <2>2 DEF Replace, Moved, FilesSound
  <2>3. CASE ~WriteTmp(a) /\ ~Replace(a)
    BY <2>3 DEF HookStep, HostStep, CallTool, ToolReturns, ToolInterrupted, EndSession, Kill,
                FindEpisode, Close, Create, Finish, Truncate, Fill, CreateStep, CountStep, Evaluate,
                ChangePhase, files, FilesSound
  <2> QED
    BY <2>1, <2>2, <2>3
<1>5. /\ steps' = [c \in Calls |-> steps'[c]]
      /\ \A c \in Calls : steps'[c].ep # None => steps'[c].ep \in Episodes'
  <2>1. CASE CreateStep(a) \/ Evaluate(a)
    <3>1. g.ep \in Episodes /\ UNCHANGED owner
      BY <1>0, <2>1 DEF CreateStep, Evaluate, world, g
    <3>2. PICK c, x : steps' = [steps EXCEPT ![c] = x] /\ x.ep = g.ep
      BY <2>1 DEF CreateStep, Evaluate, EvaluatedIn, NoStep, g
    <3> QED
      BY <3>1, <3>2 DEF FilesSound, Episodes
  <2>2. CASE ~CreateStep(a) /\ ~Evaluate(a)
    <3>1. UNCHANGED steps
      BY <2>2 DEF HookStep, HostStep, CallTool, ToolReturns, ToolInterrupted, EndSession, Kill,
                  FindEpisode, Close, Create, Finish, Truncate, Fill, WriteTmp, Replace, CountStep,
                  ChangePhase, files
    <3> QED
      BY <1>2, <3>1, OwnersStay DEF FilesSound
  <2> QED
    BY <2>1, <2>2
<1>6. calls' \in 0..MaxCalls /\ kills' \in Nat
  <2>1. MaxCalls \in Nat
    BY EpisodesAssumption DEF EpisodesAssumption
  <2>2. CASE CallTool(a)
    BY <2>1, <2>2 DEF CallTool, FilesSound
  <2>3. CASE Kill(a)
    BY <2>3 DEF Kill, world, FilesSound
  <2>4. CASE ~CallTool(a) /\ ~Kill(a)
    BY <2>4 DEF HookStep, HostStep, ToolReturns, ToolInterrupted, EndSession, FindEpisode, Close,
                Create, Finish, Truncate, Fill, CreateStep, WriteTmp, Replace, CountStep, Evaluate,
                ChangePhase, world, history, FilesSound
  <2> QED
    BY <2>2, <2>3, <2>4
<1> QED
  BY <1>1, <1>2, <1>3, <1>4, <1>5, <1>6 DEF FilesSound

LEMMA HalfAnHourSound ==
  ASSUME HooksSound, FilesSound, HalfAnHour \/ UNCHANGED vars
  PROVE  HooksSound' /\ FilesSound'
<1>1. UNCHANGED <<h, session, owner, files, calls, kills>>
  BY DEF HalfAnHour, vars, world, history
<1>2. ASSUME NEW a \in Agents PROVE Sound(a, h[a])'
  BY <1>1, <1>2, SoundStays DEF HooksSound
<1>3. HooksSound'
  BY <1>1, <1>2 DEF HooksSound
<1>4. Owned(mapping) => Owned(mapping)'
  BY <1>1 DEF Owned, Episodes, files
<1> QED
  BY <1>1, <1>3, <1>4 DEF FilesSound, Episodes, files

-----------------------------------------------------------------------------
(* What a step does to its agent and to the others.                        *)

\* x is what a hook may have in memory after g.
Turned(a, g, x) ==
  /\ x.pc = "replace" => WriteTmp(a) /\ x.kind = g.kind /\ x.call = g.call /\ x.act = g.act
  /\ x.pc = "count" => Replace(a) /\ g.kind = "pre" /\ x.call = g.call
  /\ x.pc = "tool" => (CountStep(a) \/ Kill(a)) /\ x.call = g.call
  /\ x.pc \in Searching =>
       \/ x.step = None
       \/ g.pc \in Searching /\ x.step = g.step /\ x.call = g.call
       \/ ToolReturns(a) /\ x.step = active[session[a]] /\ x.call = g.call

LEMMA HookTurned ==
  ASSUME HooksSound, FilesSound, NEW a \in Agents, HookStep(a)
  PROVE  \E x : h' = [h EXCEPT ![a] = x] /\ Turned(a, h[a], x)
<1> DEFINE g == h[a]
<1>0. Whole(g) /\ Sound(a, g)
  BY DEF HooksSound, Sound
<1>a. FindEpisode(a) \/ Close(a) \/ Create(a) \/ Finish(a) \/ Truncate(a) \/ Fill(a) \/ Evaluate(a)
        => g.pc \in Searching
  BY DEF FindEpisode, Close, Create, Finish, Truncate, Fill, Evaluate, Searching
<1>1. CASE FindEpisode(a)
  <2>1. PICK x : x = Lookup(a, g) /\ h' = [h EXCEPT ![a] = x]
    BY <1>1 DEF FindEpisode
  <2>2. /\ x.kind = g.kind /\ x.call = g.call /\ x.step = g.step
        /\ x.pc \in {"create", "close", "create_step", "evaluate"}
    BY <1>0, <2>1, LookupKeeps DEF Work
  <2> QED
    BY <1>a, <1>1, <2>1, <2>2 DEF Turned
<1>2. CASE Close(a) \/ Create(a)
  <2>1. PICK x, e : /\ x = [g EXCEPT !.pc = "truncate", !.ep = e, !.row = NewRow]
                    /\ h' = [h EXCEPT ![a] = x]
    BY <1>2 DEF Close, Create
  <2>2. x.pc = "truncate" /\ x.kind = g.kind /\ x.call = g.call /\ x.step = g.step
    BY <1>0, <2>1 DEF Whole
  <2> QED
    BY <1>a, <1>2, <2>1, <2>2 DEF Turned
<1>3. CASE Finish(a) \/ Truncate(a) \/ WriteTmp(a) \/ Evaluate(a)
  <2>1. PICK p : /\ Goto(a, p)
                 /\ \/ p = "replace" /\ WriteTmp(a)
                    \/ p \in {"truncate", "fill"} /\ g.pc \in Searching
                    \/ p = "phase"
    BY <1>a, <1>3 DEF Finish, Truncate, WriteTmp, Evaluate
  <2>2. PICK x : x = [g EXCEPT !.pc = p] /\ h' = [h EXCEPT ![a] = x]
    BY <2>1 DEF Goto
  <2>3. x.pc = p /\ x.kind = g.kind /\ x.call = g.call /\ x.step = g.step /\ x.act = g.act
    BY <1>0, <2>2 DEF Whole
  <2> QED
    BY <2>1, <2>2, <2>3 DEF Turned, Searching
<1>4. CASE Fill(a)
  <2>1. CASE Done(a)
    BY <2>1, IdleSound DEF Done, Turned, Searching
  <2>2. CASE ~Done(a)
    <3>1. PICK x, p, m : /\ x = [g EXCEPT !.pc = p, !.m = m]
                         /\ p \in {"create", "create_step", "evaluate"}
                         /\ h' = [h EXCEPT ![a] = x]
      BY <1>4, <2>2 DEF Fill, Work
    <3>2. x.pc = p /\ x.kind = g.kind /\ x.call = g.call /\ x.step = g.step
      BY <1>0, <3>1 DEF Whole
    <3> QED
      BY <1>a, <1>4, <3>1, <3>2 DEF Turned
  <2> QED
    BY <2>1, <2>2
<1>5. CASE CreateStep(a)
  <2>1. PICK x : /\ x = [g EXCEPT !.pc = "write_tmp", !.act = active]
                 /\ h' = [h EXCEPT ![a] = x]
    BY <1>5 DEF CreateStep
  <2>2. x.pc = "write_tmp" /\ x.kind = g.kind /\ x.call = g.call /\ x.step = g.step
    BY <1>0, <2>1 DEF Whole
  <2> QED
    BY <2>1, <2>2 DEF Turned, Searching
<1>6. CASE Replace(a)
  <2>1. CASE g.kind = "pre" /\ h' = [h EXCEPT ![a] = [g EXCEPT !.pc = "count"]]
    <3>1. PICK x : x = [g EXCEPT !.pc = "count"]
      OBVIOUS
    <3>2. x.pc = "count" /\ x.kind = g.kind /\ x.call = g.call /\ x.step = g.step
      BY <1>0, <3>1 DEF Whole
    <3> QED
      BY <1>6, <2>1, <3>1, <3>2 DEF Turned, Searching
  <2>2. CASE Done(a)
    BY <2>2, IdleSound DEF Done, Turned, Searching
  <2> QED
    BY <1>6, <2>1, <2>2 DEF Replace, Goto
<1>7. CASE CountStep(a)
  <2>1. PICK x, n : /\ x = [Idle EXCEPT !.pc = "tool", !.kind = "tool", !.call = g.call,
                                        !.ep = g.ep, !.noticed = n]
                    /\ h' = [h EXCEPT ![a] = x]
    BY <1>7 DEF CountStep
  <2>2. x.pc = "tool" /\ x.kind = "tool" /\ x.call = g.call /\ x.step = None
    BY <2>1 DEF Idle
  <2> QED
    BY <1>7, <2>1, <2>2 DEF Turned, Searching
<1>8. CASE ChangePhase(a)
  <2>1. PICK x : /\ x = [Idle EXCEPT !.pc = "write_tmp", !.kind = g.kind, !.act = active]
                 /\ h' = [h EXCEPT ![a] = x]
    BY <1>8 DEF ChangePhase
  <2>2. x.pc = "write_tmp" /\ x.step = None
    BY <2>1 DEF Idle
  <2> QED
    BY <2>1, <2>2 DEF Turned, Searching
<1> QED
  BY <1>1, <1>2, <1>3, <1>4, <1>5, <1>6, <1>7, <1>8 DEF HookStep

LEMMA HostTurned ==
  ASSUME HooksSound, FilesSound, NEW a \in Agents, HostStep(a)
  PROVE  \E x : h' = [h EXCEPT ![a] = x] /\ Turned(a, h[a], x)
<1> DEFINE g == h[a]
<1>1. CASE Done(a)
  BY <1>1, IdleSound DEF Done, Turned, Searching
<1>2. CASE CallTool(a)
  <2>1. PICK y, x : /\ y = [Idle EXCEPT !.kind = "pre", !.call = calls']
                    /\ x = Lookup(a, y) /\ h' = [h EXCEPT ![a] = x]
    BY <1>2 DEF CallTool
  <2>2. /\ Whole(y) /\ y.kind = "pre" /\ y.call = calls' /\ y.pc = "idle" /\ y.ep = None
        /\ y.m = NoMapping /\ y.act = NoActive /\ y.step = None /\ calls' \in Nat
    <3>1. calls' \in Nat
      BY <1>2 DEF CallTool, FilesSound
    <3> QED
      BY <2>1, <3>1 DEF Idle, Whole
  <2>3. Sound(a, y)
    BY <2>2, NoneSound DEF Sound
  <2>4. x.step = None /\ x.pc \in {"create", "close", "create_step"}
    BY <2>1, <2>2, <2>3, LookupKeeps DEF Work
  <2> QED
    BY <2>1, <2>4 DEF Turned, Searching
<1>3. CASE ToolReturns(a) /\ ~Done(a)
  <2>1. PICK x, k : /\ x = [Idle EXCEPT !.pc = "look_up", !.kind = k, !.call = g.call,
                                        !.step = active[session[a]]]
                    /\ h' = [h EXCEPT ![a] = x]
    BY <1>3 DEF ToolReturns
  <2>2. x.pc = "look_up" /\ x.call = g.call /\ x.step = active[session[a]]
    BY <2>1 DEF Idle
  <2> QED
    BY <1>3, <2>1, <2>2 DEF Turned, Searching
<1>4. CASE EndSession(a)
  <2>1. PICK x : /\ x = [Idle EXCEPT !.pc = "finish", !.kind = "end", !.m = Loaded]
                 /\ h' = [h EXCEPT ![a] = x]
    BY <1>4 DEF EndSession
  <2>2. x.pc = "finish" /\ x.step = None
    BY <2>1 DEF Idle
  <2> QED
    BY <2>1, <2>2 DEF Turned, Searching
<1>5. CASE Kill(a) /\ ~Done(a)
  <2>1. PICK x : /\ x = [Idle EXCEPT !.pc = "tool", !.kind = "tool", !.call = g.call]
                 /\ h' = [h EXCEPT ![a] = x]
    BY <1>5 DEF Kill, Done
  <2>2. x.pc = "tool" /\ x.call = g.call /\ x.step = None
    BY <2>1 DEF Idle
  <2> QED
    BY <1>5, <2>1, <2>2 DEF Turned, Searching
<1> QED
  BY <1>1, <1>2, <1>3, <1>4, <1>5 DEF HostStep, ToolInterrupted

\* All that the following lemmas need of a step by agent a.
Step(a) ==
  /\ HookStep(a) \/ HostStep(a)
  /\ \A b \in Agents \ {a} : h'[b] = h[b]
  /\ Turned(a, h[a], h'[a])
  /\ UNCHANGED session /\ parallel \subseteq parallel'
  /\ stepClash => stepClash'
  /\ kills' = 0 => kills = 0 /\ ~Kill(a)

LEMMA StepIsStep ==
  ASSUME HooksSound, FilesSound, NEW a \in Agents, HookStep(a) \/ HostStep(a)
  PROVE  Step(a)
<1>1. PICK x : h' = [h EXCEPT ![a] = x] /\ Turned(a, h[a], x)
  BY HookTurned, HostTurned
<1>2. h'[a] = x /\ \A b \in Agents \ {a} : h'[b] = h[b]
  BY <1>1 DEF HooksSound
<1>3. UNCHANGED session
  BY DEF HookStep, HostStep, CallTool, ToolReturns, ToolInterrupted, EndSession, Kill, FindEpisode,
         Close, Create, Finish, Truncate, Fill, CreateStep, WriteTmp, Replace, CountStep, Evaluate,
         ChangePhase, world
<1>4. parallel \subseteq parallel'
  <2>1. CASE CallTool(a)
    BY <2>1 DEF CallTool
  <2>2. CASE ~CallTool(a)
    BY <2>2 DEF HookStep, HostStep, ToolReturns, ToolInterrupted, EndSession, Kill, FindEpisode,
                Close, Create, Finish, Truncate, Fill, CreateStep, WriteTmp, Replace, CountStep,
                Evaluate, ChangePhase, history
  <2> QED
    BY <2>1, <2>2
<1>6. stepClash => stepClash'
  <2>1. CASE WriteTmp(a)
    BY <2>1 DEF WriteTmp
  <2>2. CASE Replace(a)
    BY <2>2 DEF Replace
  <2>3. CASE ~WriteTmp(a) /\ ~Replace(a)
    <3>1. UNCHANGED stepClash
      BY <2>3 DEF HookStep, HostStep, CallTool, ToolReturns, ToolInterrupted, EndSession, Kill,
                  FindEpisode, Close, Create, Finish, Truncate, Fill, CreateStep, CountStep, Evaluate,
                  ChangePhase, history
    <3> QED
      BY <3>1
  <2> QED
    BY <2>1, <2>2, <2>3
<1>5. kills' = 0 => kills = 0 /\ ~Kill(a)
  <2>1. CASE Kill(a)
    BY <2>1 DEF Kill, FilesSound
  <2>2. CASE ~Kill(a)
    BY <2>2 DEF HookStep, HostStep, CallTool, ToolReturns, ToolInterrupted, EndSession, FindEpisode,
                Close, Create, Finish, Truncate, Fill, CreateStep, WriteTmp, Replace, CountStep,
                Evaluate, ChangePhase, history
  <2> QED
    BY <2>1, <2>2
<1> QED
  BY <1>1, <1>2, <1>3, <1>4, <1>5, <1>6 DEF Step

-----------------------------------------------------------------------------
(* The argument.                                                           *)

LEMMA StaysAlone ==
  ASSUME IInv, NEW a \in Agents, Step(a)
  PROVE  Alone'
<1>1. ASSUME NEW b \in Agents \ {a}, session[b] = session[a], session[a] \notin parallel',
             h[b].pc # "idle"
      PROVE  h'[a].pc = "idle"
  <2>1. h[a].pc = "idle"
    BY <1>1 DEF IInv, Alone, Step
  <2>2. b \in Fellows(a)
    BY <1>1 DEF Fellows
  <2>3. ~CallTool(a) /\ ~EndSession(a)
    BY <1>1, <2>2 DEF CallTool, EndSession
  <2>4. ~HookStep(a) /\ ~ToolReturns(a) /\ ~ToolInterrupted(a) /\ ~Kill(a)
    BY <2>1 DEF HookStep, ToolReturns, ToolInterrupted, Kill, FindEpisode, Close, Create, Finish,
                Truncate, Fill, CreateStep, WriteTmp, Replace, CountStep, Evaluate, ChangePhase
  <2> QED
    BY <2>3, <2>4 DEF Step, HostStep
<1> SUFFICES ASSUME NEW b \in Agents, NEW c \in Agents, b # c, session'[b] = session'[c],
                    session'[b] \notin parallel'
             PROVE  h'[b].pc = "idle" \/ h'[c].pc = "idle"
  BY DEF Alone
<1>2. CASE b = a
  BY <1>1, <1>2 DEF Step
<1>3. CASE c = a
  BY <1>1, <1>3 DEF Step
<1>4. CASE b # a /\ c # a
  BY <1>4 DEF IInv, Alone, Step
<1> QED
  BY <1>2, <1>3, <1>4

LEMMA HandsOver ==
  ASSUME IInv, NEW a \in Agents, Step(a)
  PROVE  Handover'
<1> SUFFICES ASSUME ~stepClash', NEW c \in Agents, h'[c].pc = "replace"
             PROVE  (/\ tmp \in Table
                     /\ tmp[session[c]] = Entry(c)
                     /\ \A s \in Sessions \ {session[c]} : tmp[s] \in {None, h[c].act[s]}
                     /\ \A b \in Agents \ {c} : h[b].pc # "replace")'
  BY DEF Handover
<1>0. session \in [Agents -> Sessions] /\ ~stepClash
  BY DEF IInv, FilesSound, Step
<1>1. NoTmp \notin Table
  BY <1>0 DEF NoTmp, Table
<1>2. CASE c = a
  <2>1. WriteTmp(a) /\ h'[a].kind = h[a].kind /\ h'[a].call = h[a].call /\ h'[a].act = h[a].act
    BY <1>2 DEF Step, Turned
  <2>2. tmp = NoTmp
    BY <2>1 DEF WriteTmp
  <2>3. \A b \in Agents \ {a} : h'[b].pc # "replace"
    BY <1>0, <1>1, <2>2 DEF IInv, Handover, Step
  <2>4. Entry(a)' = Entry(a) /\ Entry(a) \in Nat
    BY <2>1 DEF Entry, IInv, HooksSound, Sound, None
  <2>5. h[a].act \in Table
    BY DEF IInv, HooksSound, Sound
  <2>6. tmp' \in Table
    BY <2>1, <2>4, <2>5 DEF WriteTmp, Table, None
  <2>7. tmp'[session[a]] = Entry(a)
    BY <1>0, <2>1 DEF WriteTmp
  <2>8. \A s \in Sessions \ {session[a]} : tmp'[s] \in {None, h[a].act[s]}
    BY <2>1 DEF WriteTmp
  <2> QED
    BY <1>2, <2>1, <2>3, <2>4, <2>6, <2>7, <2>8 DEF Step
<1>3. CASE c # a
  <2>1. h[c].pc = "replace" /\ h'[c] = h[c] /\ UNCHANGED session
    BY <1>3 DEF Step
  <2>2. /\ tmp \in Table
        /\ tmp[session[c]] = Entry(c)
        /\ \A s \in Sessions \ {session[c]} : tmp[s] \in {None, h[c].act[s]}
        /\ \A b \in Agents \ {c} : h[b].pc # "replace"
    BY <1>0, <2>1 DEF IInv, Handover
  <2>3. ~WriteTmp(a) /\ ~Replace(a)
    BY <1>1, <1>3, <2>2 DEF WriteTmp, Replace
  <2>4. UNCHANGED tmp
    BY <2>3 DEF Step, HookStep, HostStep, CallTool, ToolReturns, ToolInterrupted, EndSession, Kill,
                FindEpisode, Close, Create, Finish, Truncate, Fill, CreateStep, CountStep, Evaluate,
                ChangePhase, files
  <2>5. h'[a].pc # "replace"
    BY <2>3 DEF Step, Turned
  <2>6. \A b \in Agents \ {c} : h'[b].pc # "replace"
    BY <2>2, <2>5 DEF Step
  <2> QED
    BY <2>1, <2>2, <2>4, <2>6 DEF Entry
<1> QED
  BY <1>2, <1>3

LEMMA StaysMine ==
  ASSUME IInv, NEW a \in Agents, Step(a)
  PROVE  Mine'
<1> SUFFICES ASSUME ~stepClash', kills' = 0, NEW c \in Agents, session'[c] \notin parallel'
             PROVE  /\ h'[c].pc \in {"count", "tool"} => active'[session[c]] \in {None, h'[c].call}
                    /\ h'[c].pc \in Searching => h'[c].step \in {None, h'[c].call}
  BY DEF Mine, Step
<1>0. /\ ~stepClash /\ kills = 0 /\ ~Kill(a) /\ session[c] \notin parallel
      /\ session[c] \in Sessions /\ session[a] \in Sessions
  BY DEF IInv, FilesSound, Step
<1>1. /\ h[c].pc \in {"count", "tool"} => active[session[c]] \in {None, h[c].call}
      /\ h[c].pc \in Searching => h[c].step \in {None, h[c].call}
  BY <1>0 DEF IInv, Mine
\* What is moved over the file is the .tmp of this hook, made of the same file.
<1>2. CASE Replace(a)
  <2>1. active' = tmp /\ active = h[a].act /\ h[a].pc = "replace"
    BY <1>2 DEF Replace, Moved
  <2>2. /\ tmp[session[a]] = Entry(a)
        /\ \A s \in Sessions \ {session[a]} : tmp[s] \in {None, active[s]}
    BY <1>0, <2>1 DEF IInv, Handover
  <2>3. CASE c = a
    <3>1. h'[a].pc # "tool"
      BY <1>0, <1>2 DEF Step, Turned, CountStep, Replace
    <3>2. h'[a].pc = "count" => active'[session[a]] = h'[a].call
      BY <2>1, <2>2 DEF Step, Turned, Entry
    <3>3. ~ToolReturns(a)
      BY <2>1 DEF ToolReturns
    <3>4. h'[a].pc \in Searching => h'[a].step \in {None, h'[a].call}
      BY <1>1, <2>3, <3>3 DEF Step, Turned
    <3> QED
      BY <2>3, <3>1, <3>2, <3>4
  <2>4. CASE c # a
    <3>1. h'[c] = h[c]
      BY <2>4 DEF Step
    <3>2. CASE session[c] = session[a]
      <4>1. h[c].pc = "idle"
        BY <1>0, <2>1, <2>4, <3>2 DEF IInv, Alone
      <4> QED
        BY <1>1, <3>1, <4>1
    <3>3. CASE session[c] # session[a]
      <4>1. active'[session[c]] \in {None, active[session[c]]}
        BY <1>0, <2>1, <2>2, <3>3
      <4> QED
        BY <1>1, <3>1, <4>1
    <3> QED
      BY <3>2, <3>3
  <2> QED
    BY <2>3, <2>4
<1>3. CASE ~Replace(a)
  <2>1. UNCHANGED active
    BY <1>3 DEF Step, HookStep, HostStep, CallTool, ToolReturns, ToolInterrupted, EndSession, Kill,
                FindEpisode, Close, Create, Finish, Truncate, Fill, CreateStep, WriteTmp, CountStep,
                Evaluate, ChangePhase, files
  <2>2. CASE c = a
    <3>1. h'[a].pc # "count"
      BY <1>3 DEF Step, Turned
    <3>2. h'[a].pc = "tool" => h[a].pc = "count" /\ h'[a].call = h[a].call
      BY <1>0 DEF Step, Turned, CountStep
    <3>3. ToolReturns(a) => h[a].pc = "tool"
      BY DEF ToolReturns
    <3>4. h'[a].pc \in Searching => h'[a].step \in {None, h'[a].call}
      BY <1>1, <2>2, <3>3 DEF Step, Turned
    <3> QED
      BY <1>1, <2>1, <2>2, <3>1, <3>2, <3>4
  <2>3. CASE c # a
    BY <1>1, <2>1, <2>3 DEF Step
  <2> QED
    BY <2>2, <2>3
<1> QED
  BY <1>2, <1>3

LEMMA OwnResultStays ==
  ASSUME IInv, NEW a \in Agents, Step(a)
  PROVE  EachOwnResult'
<1> SUFFICES ASSUME ~stepClash', NEW c \in Calls,
                    steps'[c].ep # None => Undisturbed(owner[steps[c].ep])'
             PROVE  steps'[c].by \in {None, c}
  BY DEF EachOwnResult
<1>0. ~stepClash /\ steps = [d \in Calls |-> steps[d]]
  BY DEF Step, IInv, FilesSound
<1>1. CASE CreateStep(a)
  <2>1. steps'[c] = steps[c] \/ steps'[c].by = None
    BY <1>0, <1>1 DEF CreateStep, NoStep
  <2>2. CASE steps'[c] = steps[c]
    <3>1. UNCHANGED <<owner, parallel, kills>>
      BY <1>1 DEF CreateStep, world, history
    <3> QED
      BY <1>0, <2>2, <3>1 DEF IInv, EachOwnResult, Undisturbed
  <2> QED
    BY <2>1, <2>2
<1>2. CASE Evaluate(a)
  <2>1. UNCHANGED <<owner, parallel, kills>>
    BY <1>2 DEF Evaluate, world, history
  <2>2. CASE h[a].step = c
    <3>1. steps'[c].ep = h[a].ep /\ steps'[c].by = h[a].call
      BY <1>0, <1>2, <2>2 DEF Evaluate, EvaluatedIn
    <3>2. h[a].ep # None /\ owner[h[a].ep] = session[a]
      BY <1>2 DEF Evaluate, IInv, HooksSound, Sound
    <3>3. session[a] \notin parallel /\ kills = 0
      BY <2>1, <3>1, <3>2 DEF Undisturbed
    <3>4. c # None /\ h[a].pc \in Searching
      BY <1>2 DEF Calls, None, Evaluate, Searching
    <3> QED
      BY <1>0, <2>2, <3>1, <3>3, <3>4 DEF IInv, Mine
  <2>3. CASE h[a].step # c
    <3>1. steps'[c] = steps[c]
      BY <1>0, <1>2, <2>3 DEF Evaluate
    <3> QED
      BY <1>0, <2>1, <3>1 DEF IInv, EachOwnResult, Undisturbed
  <2> QED
    BY <2>2, <2>3
<1>3. CASE ~CreateStep(a) /\ ~Evaluate(a)
  <2>1. UNCHANGED steps
    BY <1>3 DEF Step, HookStep, HostStep, CallTool, ToolReturns, ToolInterrupted, EndSession, Kill,
                FindEpisode, Close, Create, Finish, Truncate, Fill, WriteTmp, Replace, CountStep,
                ChangePhase, files
  <2>2. owner' = owner \/ \E s \in Sessions : owner' = Append(owner, s)
    BY DEF Step, HookStep, HostStep, CallTool, ToolReturns, ToolInterrupted, EndSession, Kill,
           FindEpisode, Close, Create, Finish, Truncate, Fill, CreateStep, WriteTmp, Replace,
           CountStep, Evaluate, ChangePhase, world, IInv, FilesSound
  <2>3. steps[c].ep # None => owner'[steps[c].ep] = owner[steps[c].ep]
    BY <2>2, OwnersStay DEF IInv, FilesSound
  <2>4. steps[c].ep # None => Undisturbed(owner[steps[c].ep])
    BY <2>1, <2>3 DEF Undisturbed, Step
  <2> QED
    BY <1>0, <2>1, <2>4 DEF IInv, EachOwnResult
<1> QED
  BY <1>1, <1>2, <1>3

LEMMA StepIInv == IInv /\ [Next]_vars => IInv'
<1> SUFFICES ASSUME IInv, [Next]_vars PROVE IInv'
  OBVIOUS
<1>1. ASSUME NEW a \in Agents, HookStep(a) \/ HostStep(a) PROVE IInv'
  <2>1. HooksSound' /\ FilesSound' /\ Step(a)
    BY <1>1, HookTurns, HostTurns, FilesStay, StepIsStep DEF IInv
  <2> QED
    BY <2>1, StaysAlone, HandsOver, StaysMine, OwnResultStays DEF IInv
<1>2. CASE HalfAnHour \/ UNCHANGED vars
  <2>1. UNCHANGED <<files, h, session, owner, history>>
    BY <1>2 DEF HalfAnHour, vars, world
  <2>2. Alone' /\ Handover' /\ Mine' /\ EachOwnResult'
    BY <2>1 DEF IInv, Alone, Handover, Entry, Mine, EachOwnResult, Undisturbed, files, history
  <2> QED
    BY <1>2, <2>2, HalfAnHourSound DEF IInv
<1> QED
  BY <1>1, <1>2 DEF Next

\* A step is evaluated with the result of its own call, whatever the number of
\* agents and sessions, whichever hooks are killed and calls interrupted, in every
\* session that is undisturbed itself, unless two processes hand over active steps
\* at once (integration.py:89-115, 655-703).
THEOREM StepsGetTheirResults == Spec => []OwnResult
<1>1. IInv => OwnResult
  <2>1. IInv => 1..calls \subseteq Calls
    BY EpisodesAssumption DEF IInv, FilesSound, Calls, EpisodesAssumption
  <2> QED
    BY <2>1 DEF IInv, EachOwnResult, OwnResult
<1> QED
  BY <1>1, InitIInv, StepIInv, PTL DEF Spec
=============================================================================
