------------------------------ MODULE Advisory ------------------------------
(***************************************************************************)
(* Advice before a tool call (lib/advisory_engine.py and the packet store, *)
(* the gate and the session state it calls).  Every event of an agent runs *)
(* a hook process: before a tool it looks for a stored packet of advice,   *)
(* or retrieves some, and shows it unless the gate or the log of recent    *)
(* advice forbids; after a tool it counts the outcome for the packet and   *)
(* invalidates the packets about an edited file; at a prompt it stores a   *)
(* baseline packet.  There are no locks: hooks share the packet files, one *)
(* index of them with one .tmp, the log, and one state file per session.   *)
(*                                                                         *)
(* A packet has one piece of advice.  Scores, intents, texts and rankings  *)
(* are data.  The model lasts less than the ten minutes after which advice *)
(* may be repeated and packets expire; the prefetch queue and the fallback *)
(* texts are off, as config/tuneables.json and the defaults have them.     *)
(***************************************************************************)
EXTENDS Integers, Sequences, FiniteSets

CONSTANTS
  Hooks,     \* hook processes
  Sessions,
  Tools,
  Editors,   \* Edit and Write
  Advices,
  Baseline,  \* the advice of baseline packets, about no file
  MaxCalls,  \* bound: hooks run and hooks killed
  MaxKills   \* bound: hooks killed

ASSUME AdvisoryAssumption ==
  /\ Editors \subseteq Tools
  /\ Baseline \in Advices
  /\ "*" \notin Tools
  /\ {MaxCalls, MaxKills} \subseteq Nat
  /\ IsFiniteSet(Hooks)

None == 0
\* Each call stores one packet at most.
Ids == 1..MaxCalls
\* _make_exact_key: a session's tool; baseline packets have no tool.
Keys == Sessions \X (Tools \cup {"*"})

Packets == [key : Keys, advice : Advices, invalid : BOOLEAN,
            emits : 0..MaxCalls, outcomes : 0..MaxCalls]
NoCopy == [key |-> <<None, "*">>, advice |-> Baseline, invalid |-> FALSE,
           emits |-> 0, outcomes |-> 0]
NewPacket(k, a) == [key |-> k, advice |-> a, invalid |-> FALSE, emits |-> 0, outcomes |-> 0]

\* An index is rough without its schema version or the counts save_packet
\* leaves out of an entry.
Indexes == [exact : [Keys -> Ids \cup {None}], fresh : SUBSET Ids, dead : SUBSET Ids,
            rough : BOOLEAN]
NoIndex == [exact |-> [k \in Keys |-> None], fresh |-> {}, dead |-> {}, rough |-> TRUE]

States == [shown : SUBSET Advices, last : Ids \cup {None}, tool : Tools \cup {"*"}]
NewState == [shown |-> {}, last |-> None, tool |-> "*"]

VARIABLES
  \* Files.
  packets,  \* the packet files, by number
  torn,     \* packet files that cannot be read, emptied or mixed by their writers
  index,    \* index.json: by_exact, and packet_meta by its invalidated flag
  tmp,      \* index.json.tmp: no or one index
  log,      \* the advice in advisory_global_dedupe.jsonl
  state,    \* the state file of each session
  \* Processes.
  h,        \* what each hook does
  cache,    \* _INDEX_CACHE: the index a hook holds, none if the file is newer
  \* History.
  calls, kills,
  told,     \* the advice shown so far, in each session
  logged,   \* the advice that was ever written to the log
  shows,    \* how often each packet has been shown
  repeated, \* advice shown more than once
  retired,  \* packets a finished edit has invalidated
  stale,    \* whether a call that began later has shown one of them
  raced,    \* advice two hooks were about to show at once, one died showing, or
            \* the log had lost when a hook looked for it
  clash,    \* a packet or the index was written over what its writer had not seen,
            \* or an edit passed over a packet it could not read
  parallel, \* sessions whose calls have overlapped
  unsaved   \* sessions with a call that ended without saving its state

files   == <<packets, torn, index, tmp, log, state>>
history == <<calls, kills, told, logged, shows, repeated, retired, stale, raced, clash,
             parallel, unsaved>>
vars == <<files, h, cache, history>>

\* A hook's place, session and tool, the session state it has loaded, the
\* packet and the advice it has found, whether it has shown it, the lines of the
\* log it is writing back, the packet it is changing as read and as changed, what
\* for, the index it is writing, where it goes on if that is for _load_index and
\* what it has loaded, the packets it has found for an edit and those left, and
\* what was retired when it began.
Idle == [pc |-> "idle", s |-> None, t |-> "*", st |-> NewState,
         id |-> None, advice |-> None, shown |-> FALSE, lines |-> {},
         seen |-> NoCopy, copy |-> NoCopy, task |-> "none", ix |-> NoIndex,
         back |-> "none", data |-> {},
         edited |-> {}, hits |-> {}, todo |-> {}, before |-> {}]

Init ==
  /\ packets = <<>> /\ torn = {} /\ index = NoIndex /\ tmp = {} /\ log = {}
  /\ state = [s \in Sessions |-> NewState]
  /\ h = [p \in Hooks |-> Idle] /\ cache = [p \in Hooks |-> {}]
  /\ calls = 0 /\ kills = 0
  /\ told = [s \in Sessions |-> {}] /\ logged = {} /\ shows = <<>> /\ repeated = {}
  /\ retired = {} /\ stale = FALSE /\ raced = {} /\ clash = FALSE
  /\ parallel = {} /\ unsaved = {}

Key(p) == <<h[p].s, h[p].t>>
Others(p) == Hooks \ {p}
Known(ix) == ix.fresh \cup ix.dead

Become(p, hook) == h' = [h EXCEPT ![p] = hook]
Goto(p, pc) == Become(p, [h[p] EXCEPT !.pc = pc])
\* The process ends, and its memory with it.
Leave(p) == h' = [h EXCEPT ![p] = Idle] /\ cache' = [cache EXCEPT ![p] = {}]

-----------------------------------------------------------------------------
(* Packets and their index.                                                *)

\* _load_index: what a hook has just loaded and saved; or the index it has,
\* while nobody has replaced the file; or the file, if it need not be saved.
Ready(p) == h[p].data # {} \/ cache[p] # {} \/ ~index.rough
Loaded(p) ==
  LET ixs == IF h[p].data # {} THEN h[p].data ELSE IF cache[p] # {} THEN cache[p] ELSE {index}
  IN  CHOOSE ix \in ixs : TRUE
Using(p) == [h[p] EXCEPT !.data = {}]
Keep(p, ix) ==
  cache' = [cache EXCEPT ![p] = IF h[p].data # {} /\ cache[p] = {} THEN {} ELSE {ix}]

\* What _load_index reads is rough: it saves it first.
Tidy(p) ==
  /\ h[p].pc \in {"exact", "relaxed", "alias", "index", "edit"} /\ ~Ready(p)
  /\ h[p].pc = "edit" => h[p].t \in Editors
  /\ LET ix == [index EXCEPT !.rough = FALSE] IN
     /\ Become(p, [h[p] EXCEPT !.pc = "tmp", !.back = h[p].pc, !.ix = ix])
     /\ cache' = [cache EXCEPT ![p] = {ix}]
  /\ UNCHANGED <<files, history>>

\* Mutant of Changed: a packet that was found but not shown counts as emitted.
CountedAnyway(hook, packet) ==
  IF hook.task = "usage" THEN [packet EXCEPT !.emits = @ + 1]
                         ELSE [packet EXCEPT !.outcomes = @ + 1]
\* What get_packet's caller does to its copy.
Changed(hook, packet) ==
  CASE hook.task = "usage"   -> [packet EXCEPT !.emits = @ + (IF hook.shown THEN 1 ELSE 0)]
    [] hook.task = "outcome" -> [packet EXCEPT !.outcomes = @ + 1]

\* get_packet of record_packet_usage or record_packet_outcome.
ReadPacket(p) ==
  /\ h[p].pc = "read" /\ h[p].id \notin torn
  /\ LET packet == packets[h[p].id] IN
     Become(p, [h[p] EXCEPT !.pc = "write", !.seen = packet, !.copy = Changed(h[p], packet)])
  /\ UNCHANGED <<files, cache, history>>

News == {"new", "baseline"}

\* write_text empties the file of a packet before it writes it.
EmptyPacket(p) ==
  /\ h[p].pc = "write" /\ h[p].task \notin News /\ h[p].id \notin torn
  /\ torn' = torn \cup {h[p].id}
  /\ UNCHANGED <<packets, index, tmp, log, state, h, cache, history>>

\* The packet file, which is new in save_packet of a packet just built.  What two
\* have written at once may not be readable.
WritePacket(p) ==
  /\ h[p].pc = "write"
  /\ LET new == h[p].task \in News
         id  == IF new THEN Len(packets) + 1 ELSE h[p].id
     IN  /\ packets' = IF new THEN Append(packets, h[p].copy)
                              ELSE [packets EXCEPT ![id] = h[p].copy]
         /\ LET over == ~new /\ packets[id] # h[p].seen IN
            /\ clash' = (clash \/ over)
            /\ \/ torn' = torn \ {id}
               \/ over /\ torn' = torn \cup {id}
         /\ shows' = IF new THEN Append(shows, IF h[p].shown THEN 1 ELSE 0) ELSE shows
         /\ Become(p, [h[p] EXCEPT !.pc = "index", !.id = id, !.seen = NoCopy])
  /\ UNCHANGED <<index, tmp, log, state, cache, calls, kills, told, logged, repeated, retired,
                 stale, raced, parallel, unsaved>>

\* A packet's entry says what the hook's copy says; save_packet also points
\* the packet's own key to it.
Entered(ix, id, packet) ==
  [exact |-> [ix.exact EXCEPT ![packet.key] = id],
   fresh |-> IF packet.invalid THEN ix.fresh \ {id} ELSE ix.fresh \cup {id},
   dead  |-> IF packet.invalid THEN ix.dead \cup {id} ELSE ix.dead \ {id},
   rough |-> TRUE]
\* Mutant of Marked: the entry is removed.
Unlisted(ix, id) == [ix EXCEPT !.fresh = @ \ {id}, !.dead = @ \ {id}]
\* invalidate_packet marks an entry that is there.
Marked(ix, id) ==
  IF id \in Known(ix) THEN [ix EXCEPT !.fresh = @ \ {id}, !.dead = @ \cup {id}] ELSE ix

\* The index is changed in memory, where the cache is the same object.
ChangeIndex(p) ==
  /\ h[p].pc = "index" /\ Ready(p)
  /\ LET ix == IF h[p].task = "invalid"
                 THEN Marked(Loaded(p), h[p].id)
                 ELSE Entered(Loaded(p), h[p].id, h[p].copy)
     IN  Keep(p, ix) /\ Become(p, [Using(p) EXCEPT !.pc = "tmp", !.ix = ix])
  /\ clash' = (clash \/ packets[h[p].id] # h[p].copy)
  /\ UNCHANGED <<files, calls, kills, told, logged, shows, repeated, retired, stale, raced,
                 parallel, unsaved>>

\* Mutant of WriteTmp: a .tmp that is there already stays.
WriteAnotherTmp(p) ==
  /\ h[p].pc = "tmp"
  /\ tmp' = tmp \cup {h[p].ix}
  /\ Goto(p, "replace")
  /\ UNCHANGED <<packets, torn, index, log, state, cache, history>>
\* _atomic_write_json.
WriteTmp(p) ==
  /\ h[p].pc = "tmp"
  /\ tmp' = {h[p].ix}
  /\ Goto(p, "replace")
  /\ UNCHANGED <<packets, torn, index, log, state, cache, history>>

\* Mutant of Resumed: a call whose usage was recorded does not save its state.
ResumedWithout(hook) ==
  LET loaded == [hook EXCEPT !.pc = hook.back, !.back = "none", !.data = {hook.ix}, !.ix = NoIndex]
      clean  == [hook EXCEPT !.copy = NoCopy, !.ix = NoIndex, !.task = "none"]
  IN
  IF hook.back # "none" THEN loaded ELSE
  CASE hook.task = "alias"   -> [clean EXCEPT !.pc = "gate"]
    [] hook.task = "new"     -> [clean EXCEPT !.pc = "read", !.task = "usage"]
    [] hook.task = "usage"   -> Idle
    [] hook.task = "outcome" -> [clean EXCEPT !.pc = "edit", !.id = None]
    [] hook.task = "invalid" -> [clean EXCEPT !.pc = "next", !.id = None]
\* Where the caller of a save goes on.
Resumed(hook) ==
  LET loaded == [hook EXCEPT !.pc = hook.back, !.back = "none", !.data = {hook.ix}, !.ix = NoIndex]
      clean  == [hook EXCEPT !.copy = NoCopy, !.ix = NoIndex, !.task = "none"]
  IN
  IF hook.back # "none" THEN loaded ELSE
  CASE hook.task = "alias"   -> [clean EXCEPT !.pc = "gate"]
    [] hook.task = "new"     -> [clean EXCEPT !.pc = "read", !.task = "usage", !.st.last = hook.id,
                                              !.st.tool = hook.t]
    [] hook.task = "usage"   -> [clean EXCEPT !.pc = "save"]
    [] hook.task = "outcome" -> [clean EXCEPT !.pc = "edit", !.id = None]
    [] hook.task = "invalid" -> [clean EXCEPT !.pc = "next", !.id = None]

\* get_packet returns None while another hook writes the file: nothing is counted.
PacketUnread(p) ==
  /\ h[p].pc = "read" /\ h[p].id \in torn
  /\ Become(p, Resumed(h[p]))
  /\ UNCHANGED <<files, cache, history>>

\* A hook ends without a save after a baseline packet, and when a new packet
\* cannot be saved or its advice was not shown.
ReplaceIndex(p) ==
  /\ h[p].pc = "replace" /\ tmp # {}
  /\ index' = (CHOOSE ix \in tmp : TRUE) /\ tmp' = {}
  /\ clash' = (clash \/ index' # h[p].ix \/ cache[p] = {})
  /\ LET ends == /\ h[p].back = "none"
                 /\ h[p].task = "baseline" \/ (h[p].task = "new" /\ ~h[p].shown)
     IN
     /\ Become(p, IF ends THEN Idle ELSE Resumed(h[p]))
     /\ cache' = [q \in Hooks |-> IF q = p /\ ~ends THEN {h[p].ix} ELSE {}]
  /\ UNCHANGED <<packets, torn, log, state, calls, kills, told, logged, shows, repeated, retired,
                 stale, raced, parallel, unsaved>>

\* Another hook has taken the .tmp away: os.replace raises, which ends a
\* prompt or a call with new advice, and the invalidations of an edit; a load
\* goes on without.
ReplaceFails(p) ==
  /\ h[p].pc = "replace" /\ tmp = {}
  /\ clash' = TRUE
  /\ LET loads == h[p].back # "none"
         ends  == ~loads /\ h[p].task \in {"baseline", "new"}
     IN
     /\ IF ends THEN Leave(p)
        ELSE /\ Become(p, IF h[p].task = "invalid" /\ ~loads
                            THEN [Resumed(h[p]) EXCEPT !.pc = "save", !.todo = {}, !.hits = {}]
                            ELSE Resumed(h[p]))
             /\ UNCHANGED cache
     /\ unsaved' = IF ends /\ h[p].task = "new" THEN unsaved \cup {h[p].s} ELSE unsaved
  /\ UNCHANGED <<files, calls, kills, told, logged, shows, repeated, retired, stale, raced,
                 parallel>>

-----------------------------------------------------------------------------
(* Before a tool: on_pre_tool.                                             *)

Begin(p, s, hook) ==
  /\ h[p].pc = "idle" /\ calls + kills < MaxCalls
  /\ calls' = calls + 1
  /\ parallel' = IF \E q \in Hooks : h[q].s = s THEN parallel \cup {s} ELSE parallel
  /\ Become(p, [hook EXCEPT !.s = s, !.st = state[s], !.before = retired])
  /\ UNCHANGED <<files, cache, kills, told, logged, shows, repeated, retired, stale, raced, clash,
                 unsaved>>

PreTool(p, s, t) == Begin(p, s, [Idle EXCEPT !.pc = "exact", !.t = t])

Found(hook, id, pc) == [hook EXCEPT !.pc = pc, !.id = id, !.advice = packets[id].advice]

\* Mutant of LookupExact: the packet's file is not asked whether it is valid.
LookupAny(p) ==
  /\ h[p].pc = "exact" /\ Ready(p)
  /\ LET id == Loaded(p).exact[Key(p)] IN
     Become(p, IF id # None /\ id \notin torn THEN Found(Using(p), id, "gate")
                                              ELSE [Using(p) EXCEPT !.pc = "relaxed"])
  /\ Keep(p, Loaded(p))
  /\ UNCHANGED <<files, history>>
\* lookup_exact: the packet of the session's key, if its file can be read and is
\* still valid.
LookupExact(p) ==
  /\ h[p].pc = "exact" /\ Ready(p)
  /\ LET id == Loaded(p).exact[Key(p)] IN
     Become(p, IF id # None /\ id \notin torn /\ ~packets[id].invalid
                 THEN Found(Using(p), id, "gate") ELSE [Using(p) EXCEPT !.pc = "relaxed"])
  /\ Keep(p, Loaded(p))
  /\ UNCHANGED <<files, history>>

\* lookup_relaxed: a packet of the tool or of the same intent whose entry is
\* fresh.  A session keeps its intent, other sessions may share it, and which
\* packet ranks first is data.  One of the same tool and intent gets the
\* session's key as an alias.  Without any, or if the first cannot be read,
\* advise_on_tool finds some advice or none.
LookupRelaxed(p) ==
  /\ h[p].pc = "relaxed" /\ Ready(p)
  /\ LET ix == Loaded(p)
         ofTool    == {id \in ix.fresh : packets[id].key[2] = h[p].t}
         ofSession == {id \in ix.fresh : packets[id].key[1] = h[p].s}
     IN  /\ \/ \E id \in ix.fresh \ ((ofTool \cap ofSession) \cup torn) :
                 Become(p, Found(Using(p), id, "gate"))
            \/ \E id \in ofTool \ torn : Become(p, Found(Using(p), id, "alias"))
            \/ /\ ofTool \cup ofSession = {} \/ ix.fresh \cap torn # {}
               /\ \/ \E a \in Advices : Become(p, [Using(p) EXCEPT !.pc = "gate", !.advice = a])
                  \/ Become(p, [Using(p) EXCEPT !.pc = "save"])
         /\ Keep(p, ix)
  /\ UNCHANGED <<files, history>>

\* alias_exact_key.
Alias(p) ==
  /\ h[p].pc = "alias" /\ Ready(p)
  /\ LET ix  == Loaded(p)
         new == [ix EXCEPT !.exact[Key(p)] = h[p].id]
     IN  /\ Become(p, IF new = ix THEN [Using(p) EXCEPT !.pc = "gate"]
                                  ELSE [Using(p) EXCEPT !.pc = "tmp", !.task = "alias", !.ix = new])
         /\ Keep(p, new)
  /\ UNCHANGED <<files, history>>

\* What is not shown is counted as a use of its packet.
Suppressed(hook) ==
  IF hook.id = None THEN [hook EXCEPT !.pc = "save"]
                    ELSE [hook EXCEPT !.pc = "read", !.task = "usage"]

\* evaluate: advice the session has been shown does not pass; other advice may
\* not, for its score, the tool's cooldown or the context.
GateBlocks(p) ==
  /\ h[p].pc = "gate"
  /\ Become(p, Suppressed(h[p]))
  /\ UNCHANGED <<files, cache, history>>

\* evaluate lets it pass, and _global_recently_emitted looks whether any session
\* was shown it, as far as the log has it.
Dedupe(p) ==
  /\ h[p].pc = "gate" /\ h[p].advice \notin h[p].st.shown
  /\ Goto(p, IF h[p].advice \in log THEN "save" ELSE "emit")
  /\ raced' = IF \/ \E q \in Others(p) : h[q].pc \in {"emit", "log"} /\ h[q].advice = h[p].advice
                \/ h[p].advice \in logged \ log
                THEN raced \cup {h[p].advice} ELSE raced
  /\ UNCHANGED <<files, cache, calls, kills, told, logged, shows, repeated, retired, stale, clash,
                 parallel, unsaved>>

\* _duplicate_repeat_state: the text equals the last one shown.
RepeatBlocks(p) ==
  /\ h[p].pc = "emit" /\ h[p].st.last # None
  /\ Become(p, Suppressed(h[p]))
  /\ UNCHANGED <<files, cache, history>>

\* emit_advisory writes to the agent; mark_advice_shown notes it in memory.
Emit(p) ==
  /\ h[p].pc = "emit"
  /\ LET a == h[p].advice IN
     /\ Become(p, [h[p] EXCEPT !.pc = "log", !.shown = TRUE, !.st.shown = @ \cup {a}])
     /\ told' = [told EXCEPT ![h[p].s] = @ \cup {a}]
     /\ repeated' = IF \E s \in Sessions : a \in told[s] THEN repeated \cup {a} ELSE repeated
     /\ shows' = IF h[p].id = None THEN shows ELSE [shows EXCEPT ![h[p].id] = @ + 1]
     /\ stale' = (stale \/ h[p].id \in h[p].before)
  /\ UNCHANGED <<files, cache, calls, kills, logged, retired, raced, clash, parallel, unsaved>>

\* The packet of advice that was just retrieved.
Built(p) == [h[p] EXCEPT !.pc = "write", !.task = "new", !.copy = NewPacket(Key(p), h[p].advice)]

\* If stdout fails, new advice is stored all the same, and the call ends in an
\* exception: shown_ids has no value.
EmitFails(p) ==
  /\ h[p].pc = "emit"
  /\ IF h[p].id = None THEN Become(p, Built(p)) /\ UNCHANGED cache ELSE Leave(p)
  /\ UNCHANGED <<files, history>>

\* Where a call goes on from the log; the packet becomes the session's last one.
Noted(p) ==
  IF h[p].id = None THEN Built(p)
  ELSE [h[p] EXCEPT !.pc = "read", !.task = "usage", !.st.last = h[p].id, !.st.tool = h[p].t]

\* Mutant of LogAdvice: advice from a stored packet is not logged.
LogNewAdvice(p) ==
  /\ h[p].pc = "log"
  /\ LET new == IF h[p].id = None THEN {h[p].advice} ELSE {} IN
     log' = log \cup new /\ logged' = logged \cup new
  /\ Become(p, Noted(p)) \/ Goto(p, "cap")
  /\ UNCHANGED <<packets, torn, index, tmp, state, cache, calls, kills, told, shows, repeated,
                 retired, stale, raced, clash, parallel, unsaved>>
\* _append_jsonl_capped: a line in the log of recent advice.  How long the log has
\* become is data.
LogAdvice(p) ==
  /\ h[p].pc = "log"
  /\ log' = log \cup {h[p].advice} /\ logged' = logged \cup {h[p].advice}
  /\ Become(p, Noted(p)) \/ Goto(p, "cap")
  /\ UNCHANGED <<packets, torn, index, tmp, state, cache, calls, kills, told, shows, repeated,
                 retired, stale, raced, clash, parallel, unsaved>>

\* Beyond its cap the log is read and written again, emptied first; lines others
\* append meanwhile are written over.
EmptyLog(p) ==
  /\ h[p].pc = "cap"
  /\ log' = {}
  /\ Become(p, [h[p] EXCEPT !.pc = "fill", !.lines = log])
  /\ UNCHANGED <<packets, torn, index, tmp, state, cache, history>>
FillLog(p) ==
  /\ h[p].pc = "fill"
  /\ log' = h[p].lines
  /\ Become(p, [Noted(p) EXCEPT !.lines = {}])
  /\ UNCHANGED <<packets, torn, index, tmp, state, cache, history>>

\* save_state writes what the hook has loaded and changed.
SaveState(p) ==
  /\ h[p].pc = "save"
  /\ state' = [state EXCEPT ![h[p].s] = h[p].st]
  /\ Leave(p)
  /\ UNCHANGED <<packets, torn, index, tmp, log, history>>

-----------------------------------------------------------------------------
(* After a tool and at a prompt: on_post_tool, on_user_prompt.             *)

\* The packet shown last before this tool gets the outcome.  An edit is about
\* some advice, or all if it names no file; one about none only loads the index.
PostTool(p, s, t, edited) ==
  LET last == state[s].last IN
  Begin(p, s, [Idle EXCEPT !.t = t, !.edited = edited,
                           !.pc   = IF last # None /\ state[s].tool = t THEN "read" ELSE "edit",
                           !.id   = IF last # None /\ state[s].tool = t THEN last ELSE None,
                           !.task = IF last # None /\ state[s].tool = t THEN "outcome" ELSE "none"])

Edits(t) == IF t \in Editors THEN {{a} : a \in Advices \ {Baseline}} \cup {Advices} ELSE {{}}

\* invalidate_packets after an edit: the packets in the index that are about the
\* file, as far as they can be read.
FindEdited(p) ==
  /\ h[p].pc = "edit"
  /\ IF h[p].t \in Editors
     THEN /\ Ready(p) /\ Keep(p, Loaded(p))
          /\ LET hits == {id \in Known(Loaded(p)) : packets[id].advice \in h[p].edited}
                 passed == IF h[p].edited = Advices THEN {} ELSE hits \cap torn
             IN  /\ Become(p, [Using(p) EXCEPT !.pc = "next", !.edited = {}, !.hits = hits,
                                               !.todo = hits \ passed])
                 /\ clash' = (clash \/ passed # {})
     ELSE Become(p, [Using(p) EXCEPT !.pc = "save"]) /\ UNCHANGED <<cache, clash>>
  /\ UNCHANGED <<files, calls, kills, told, logged, shows, repeated, retired, stale, raced,
                 parallel, unsaved>>

\* invalidate_packet reads the next one, ...
InvalidateNext(p) ==
  /\ h[p].pc = "next"
  /\ \E id \in h[p].todo \ torn :
       Become(p, [h[p] EXCEPT !.pc = "write", !.task = "invalid", !.id = id, !.todo = @ \ {id},
                              !.seen = packets[id], !.copy = [packets[id] EXCEPT !.invalid = TRUE]])
  /\ UNCHANGED <<files, cache, history>>

\* ... or returns False: the packet stays as it is, and in the index.
PassOver(p) ==
  /\ h[p].pc = "next"
  /\ \E id \in h[p].todo \cap torn : Become(p, [h[p] EXCEPT !.todo = @ \ {id}])
  /\ clash' = TRUE
  /\ UNCHANGED <<files, cache, calls, kills, told, logged, shows, repeated, retired, stale, raced,
                 parallel, unsaved>>

AllInvalidated(p) ==
  /\ h[p].pc = "next" /\ h[p].todo = {}
  /\ retired' = retired \cup h[p].hits
  /\ Become(p, [h[p] EXCEPT !.pc = "save", !.hits = {}])
  /\ UNCHANGED <<files, cache, calls, kills, told, logged, shows, repeated, stale, raced, clash,
                 parallel, unsaved>>

\* A prompt saves the session state, then a baseline packet.
Prompt(p, s) == Begin(p, s, [Idle EXCEPT !.pc = "prompt", !.t = "*"])

SavePrompt(p) ==
  /\ h[p].pc = "prompt"
  /\ state' = [state EXCEPT ![h[p].s] = h[p].st]
  /\ Become(p, [h[p] EXCEPT !.pc = "write", !.task = "baseline",
                            !.copy = NewPacket(Key(p), Baseline)])
  /\ UNCHANGED <<packets, torn, index, tmp, log, cache, history>>

-----------------------------------------------------------------------------
Kill(p) ==
  /\ h[p].pc # "idle" /\ kills < MaxKills /\ calls + kills < MaxCalls
  /\ kills' = kills + 1
  /\ raced' = IF h[p].pc = "log" THEN raced \cup {h[p].advice} ELSE raced
  /\ Leave(p)
  /\ UNCHANGED <<files, calls, told, logged, shows, repeated, retired, stale, clash, parallel,
                 unsaved>>

Work(p) ==
  \/ Tidy(p) \/ ReadPacket(p) \/ PacketUnread(p) \/ EmptyPacket(p) \/ WritePacket(p)
  \/ ChangeIndex(p) \/ WriteTmp(p)
  \/ ReplaceIndex(p) \/ ReplaceFails(p)
  \/ LookupExact(p) \/ LookupRelaxed(p) \/ Alias(p)
  \/ GateBlocks(p) \/ Dedupe(p) \/ RepeatBlocks(p)
  \/ Emit(p) \/ EmitFails(p) \/ LogAdvice(p) \/ EmptyLog(p) \/ FillLog(p) \/ SaveState(p)
  \/ FindEdited(p) \/ InvalidateNext(p) \/ PassOver(p) \/ AllInvalidated(p) \/ SavePrompt(p)

Next ==
  \E p \in Hooks :
    \/ \E s \in Sessions, t \in Tools :
         PreTool(p, s, t) \/ \E edited \in Edits(t) : PostTool(p, s, t, edited)
    \/ \E s \in Sessions : Prompt(p, s)
    \/ Work(p) \/ Kill(p)

Spec == Init /\ [][Next]_vars

-----------------------------------------------------------------------------
Places == {"idle", "exact", "relaxed", "alias", "gate", "emit", "log", "cap", "fill", "read",
           "write", "index", "tmp", "replace", "save", "edit", "next", "prompt"}
Tasks == {"none", "alias", "new", "usage", "outcome", "invalid", "baseline"}

HookTypes ==
  [pc : Places, s : Sessions \cup {None}, t : Tools \cup {"*"}, st : States,
   id : Ids \cup {None}, advice : Advices \cup {None}, shown : BOOLEAN, lines : SUBSET Advices,
   seen : Packets \cup {NoCopy}, copy : Packets \cup {NoCopy}, task : Tasks, ix : Indexes,
   back : Places \cup {"none"}, data : SUBSET Indexes,
   edited : SUBSET Advices, hits : SUBSET Ids, todo : SUBSET Ids, before : SUBSET Ids]

TypeOK ==
  /\ packets \in Seq(Packets) /\ Len(packets) <= MaxCalls /\ torn \subseteq 1..Len(packets)
  /\ index \in Indexes
  /\ tmp \subseteq Indexes /\ Cardinality(tmp) <= 1
  /\ log \subseteq Advices /\ state \in [Sessions -> States]
  /\ \A p \in Hooks : h[p] \in HookTypes /\ Cardinality(h[p].data) <= 1
  /\ \A p \in Hooks : cache[p] \subseteq Indexes /\ Cardinality(cache[p]) <= 1
  /\ calls \in 0..MaxCalls /\ kills \in 0..MaxKills
  /\ told \in [Sessions -> SUBSET Advices] /\ logged \subseteq Advices
  /\ shows \in Seq(0..MaxCalls)
  /\ repeated \subseteq Advices /\ raced \subseteq Advices /\ retired \subseteq Ids
  /\ stale \in BOOLEAN /\ clash \in BOOLEAN
  /\ parallel \subseteq Sessions /\ unsaved \subseteq Sessions

\* After an edit has invalidated the packets about the file, no later call
\* shows one of them (advisory_engine.py:2545, advisory_packet_store.py:2780),
\* while no hook writes a packet or the index over what it has not seen, and the
\* edit could read every packet it was about.
StaleAdviceEnds == ~clash => ~stale

\* Advice is shown once within the cooldown, whatever session asks for it and
\* whether or not the session's state was saved (advisory_engine.py:1894),
\* but by two hooks that look into the log at once, by one that dies between the
\* showing and the log, and by one that looks while the rewriting of a log at its
\* cap hides or has lost the line (advisory_engine.py:179).
ShownOnce == repeated \subseteq raced

\* A packet's count of emissions, which ranks it, never exceeds how often it
\* was shown (advisory_packet_store.py:2859), whoever overwrites whom.
EmitsAreReal == \A id \in 1..Len(packets) : packets[id].emits <= shows[id]

\* An edit finds every stored packet through the index, and so does a lookup
\* (advisory_packet_store.py:2317): one that is no longer being written has an
\* entry, and every key leads to an entry.
PacketsAreFound ==
  ~clash /\ kills = 0 =>
    /\ \A id \in 1..Len(packets) :
         id \in Known(index) \/ \E p \in Hooks : h[p].id = id /\ h[p].pc \in {"index", "tmp", "replace"}
    /\ \A k \in Keys : index.exact[k] \in Known(index) \cup {None}

\* What a session was shown is in its state once its hooks are done
\* (advisory_engine.py:2330), unless its calls overlapped, one was killed, or
\* storing new advice failed.
ShownIsRemembered ==
  kills = 0 =>
    \A s \in Sessions \ (parallel \cup unsaved) :
      (\A p \in Hooks : h[p].s # s) => told[s] \subseteq state[s].shown
=============================================================================
