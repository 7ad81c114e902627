---------------------------- MODULE AdvisoryProofs ---------------------------
(***************************************************************************)
(* Proofs about Advisory, for any hooks, sessions, tools, advice and       *)
(* bounds: advice is shown once, a packet's count of emissions is real,    *)
(* an invalidated packet is not shown, every packet is found, what a       *)
(* session was shown is remembered, and nothing outgrows the calls there   *)
(* were.  Each has an inductive invariant of its own (OnceInv, Counted,    *)
(* StaleInv, FoundInv, RememberInv, TypesInv) beside Typed, what memory and*)
(* files are; most steps (Passive) touch neither of the first two.         *)
(***************************************************************************)
EXTENDS Advisory, FiniteSetTheorems, TLAPS

Stored == 1..Len(packets)

-----------------------------------------------------------------------------
(* What is in memory and in the files, with n packets stored.              *)

\* Packets, session states and indexes without the bounds of a run.
AnyPackets == [key : (Sessions \cup {None}) \X (Tools \cup {"*"}), advice : Advices \cup {None},
               invalid : BOOLEAN, emits : Nat, outcomes : Nat]
AnyStates(n) == [shown : SUBSET (Advices \cup {None}), last : 0..n, tool : Tools \cup {"*"}]
AnyIndexes(n) == [exact : [Keys -> 0..n], fresh : SUBSET (1..n), dead : SUBSET (1..n),
                  rough : BOOLEAN]

\* A hook's memory has the fields of Idle.
Names == {"pc", "s", "t", "st", "id", "advice", "shown", "lines", "seen", "copy", "task", "ix",
          "back", "data", "edited", "hits", "todo", "before"}
Whole(x) == x = [f \in Names |-> x[f]]

\* Its fields lead to packets that are stored.
Fields(x, n) ==
  /\ x.s \in Sessions \cup {None} /\ x.t \in Tools \cup {"*"} /\ x.st \in AnyStates(n)
  /\ x.id \in 0..n /\ x.advice \in Advices \cup {None} /\ x.shown \in BOOLEAN
  /\ x.seen \in AnyPackets /\ x.copy \in AnyPackets
  /\ x.ix \in AnyIndexes(n) /\ x.data \subseteq AnyIndexes(n)
  /\ x.hits \subseteq 1..n /\ x.todo \subseteq 1..n

Loads == {"exact", "relaxed", "alias", "index", "edit"}
Changes == {"usage", "outcome", "invalid"}

\* What each place in the code says of the memory.
Place(x) ==
  /\ x.pc # "idle" => x.s \in Sessions
  /\ x.back \in Loads \cup {"none"}
  /\ x.back # "none" => x.pc \in {"tmp", "replace"}
  /\ x.pc = "read" => x.task \in {"usage", "outcome"} /\ x.id # None
  /\ x.pc = "write" => \/ x.task \in Changes /\ x.id # None
                       \/ x.task \in News /\ x.copy.emits = 0
  /\ x.pc = "index" \/ x.back = "index" => x.task \in Changes \cup News /\ x.id # None
  /\ x.pc = "alias" \/ x.back = "alias" => x.id # None
  /\ x.pc \in {"tmp", "replace"} /\ x.back = "none" =>
       x.task \in Changes \cup News \cup {"alias"} /\ x.id # None
  /\ x.pc \in {"idle", "exact", "relaxed", "alias", "gate", "emit", "edit", "next", "prompt"} \/
     x.back \in {"exact", "relaxed", "alias", "edit"} => ~x.shown
  /\ x.shown /\ x.pc \in {"read", "write", "index", "tmp", "replace"} => x.task \in {"new", "usage"}

HookSound(x, n) == Whole(x) /\ Fields(x, n) /\ Place(x)

FilesTyped ==
  /\ packets \in Seq(AnyPackets) /\ shows \in Seq(Nat) /\ Len(shows) = Len(packets)
  /\ index \in AnyIndexes(Len(packets)) /\ tmp \subseteq AnyIndexes(Len(packets))
  /\ state \in [Sessions -> AnyStates(Len(packets))]
  /\ retired \subseteq Stored
  /\ DOMAIN told = Sessions
HooksTyped ==
  h = [p \in Hooks |-> h[p]] /\ \A p \in Hooks : HookSound(h[p], Len(packets))
CachesTyped ==
  /\ cache = [p \in Hooks |-> cache[p]]
  /\ \A p \in Hooks : cache[p] \subseteq AnyIndexes(Len(packets))
Typed == FilesTyped /\ HooksTyped /\ CachesTyped

-----------------------------------------------------------------------------
\* Hooks that have shown the packet and have not counted it.
Owes(x, id) ==
  /\ x.shown /\ x.id = id
  /\ \/ x.pc \in {"log", "cap", "fill", "read"}
     \/ x.pc = "write" /\ x.task = "usage"
     \/ x.task = "new" /\ x.pc \in {"index", "tmp", "replace"}
Debts(hooks, id) == {p \in Hooks : Owes(hooks[p], id)}

\* A packet's count, and any copy that may replace it, leaves room for those.
Counted ==
  /\ \A id \in Stored : packets[id].emits + Cardinality(Debts(h, id)) <= shows[id]
  /\ \A p \in Hooks : h[p].pc = "write" /\ h[p].task \in Changes =>
       h[p].copy.emits + Cardinality(Debts(h, h[p].id) \ {p}) <= shows[h[p].id]

\* A hook is about to show some advice, or has shown it and has not logged it.
Showing(x) == x.pc \in {"emit", "log"}

OnceInv ==
  /\ repeated \subseteq raced
  /\ \A s \in Sessions : \A a \in told[s] \ (raced \cup logged) :
       \E p \in Hooks : h[p].pc = "log" /\ h[p].advice = a
  /\ \A p, q \in Hooks : p # q /\ Showing(h[p]) /\ Showing(h[q]) /\ h[p].advice = h[q].advice =>
       h[p].advice \in raced
  /\ \A p \in Hooks : h[p].pc = "emit" =>
       h[p].advice \in raced \/ \A s \in Sessions : h[p].advice \notin told[s]

-----------------------------------------------------------------------------
\* The packet an edit is working on; the ones it is done with.
Current(x) ==
  IF x.task = "invalid" /\ x.pc \in {"write", "index", "tmp", "replace"} THEN {x.id} ELSE {}
Done(x) == (x.hits \ x.todo) \ Current(x)
Gone(hooks, old) == old \cup UNION {Done(hooks[p]) : p \in Hooks}

Saves == {"tmp", "replace"}
Seeks == {"exact", "relaxed", "alias"}

\* A hook with the memory x and the cache c, while the index is i, the packets
\* stored are pk, and those that are gone and retired are gone and old, has
\* found and offers nothing that was retired when it began, and saves nothing
\* that is gone.
Careful(x, c, i, pk, gone, old) ==
  /\ x.before \subseteq old
  /\ x.todo \subseteq x.hits
  /\ c = {} \/ c = {i} \/ (x.pc \in Saves /\ c = {x.ix})
  /\ x.data # {} => x.pc \in Loads /\ c \in {{}, x.data}
  /\ \A ix \in x.data : ix.fresh \cap x.before = {}
  /\ x.pc \in Saves => x.ix.fresh \cap x.before = {}
  /\ x.pc \in Saves /\ c # {} => x.ix.fresh \cap gone = {}
  /\ x.pc \in Saves /\ x.back = "none" /\ x.task = "invalid" => x.id \notin x.ix.fresh
  /\ x.pc = "write" /\ x.task \in Changes => x.copy.invalid \/ (~x.seen.invalid /\ x.task # "invalid")
  /\ x.pc # "write" => \A id \in Current(x) : pk[id].invalid
  /\ (x.pc \in Seeks \cup {"gate", "emit"} \/ x.back \in Seeks \/ (x.pc \in Saves /\ x.task = "alias"))
       => x.id \notin x.before
  /\ (x.pc \in Seeks \cup {"edit"} \/ x.back \in Seeks \cup {"edit"}) => x.task = "none"

\* Unless there was a clash, a packet that is gone stays invalid, and the index
\* does not offer it.
StaleInv ==
  /\ ~stale
  /\ \A id \in Gone(h, retired) : packets[id].invalid /\ id \notin index.fresh
  /\ \A p \in Hooks : Careful(h[p], cache[p], index, packets, Gone(h, retired), retired)

\* All that the invariants speak of stays as it is.
Still == UNCHANGED <<packets, index, tmp, log, state, h, cache, history>>

LEMMA StillSteps ==
  ASSUME UNCHANGED vars \/ \E p \in Hooks : EmptyPacket(p)
  PROVE  Still
BY DEF EmptyPacket, vars, files, history, Still

-----------------------------------------------------------------------------
(* The memory and the files stay sound.                                    *)

LEMMA Growing ==
  ASSUME NEW n \in Nat, NEW m \in Nat, n <= m
  PROVE  /\ AnyIndexes(n) \subseteq AnyIndexes(m)
         /\ AnyStates(n) \subseteq AnyStates(m)
         /\ \A x : HookSound(x, n) => HookSound(x, m)
<1>1. 0..n \subseteq 0..m /\ 1..n \subseteq 1..m
  OBVIOUS
<1>2. AnyIndexes(n) \subseteq AnyIndexes(m)
  <2> SUFFICES ASSUME NEW ix \in AnyIndexes(n) PROVE ix \in AnyIndexes(m)
    OBVIOUS
  <2>1. ix = [exact |-> ix.exact, fresh |-> ix.fresh, dead |-> ix.dead, rough |-> ix.rough]
    BY DEF AnyIndexes
  <2>2. /\ ix.exact \in [Keys -> 0..m] /\ ix.fresh \subseteq 1..m /\ ix.dead \subseteq 1..m
        /\ ix.rough \in BOOLEAN
    BY <1>1 DEF AnyIndexes
  <2> QED
    BY <2>1, <2>2 DEF AnyIndexes
<1>3. AnyStates(n) \subseteq AnyStates(m)
  BY <1>1 DEF AnyStates
<1>4. \A x : HookSound(x, n) => HookSound(x, m)
  BY <1>1, <1>2, <1>3 DEF HookSound, Fields
<1> QED
  BY <1>2, <1>3, <1>4

LEMMA Blanks ==
  ASSUME NEW n \in Nat
  PROVE  /\ HookSound(Idle, n) /\ NoIndex \in AnyIndexes(n) /\ NoCopy \in AnyPackets
         /\ NewState \in AnyStates(n)
<1>1. NoIndex \in AnyIndexes(n)
  BY DEF NoIndex, AnyIndexes, None
<1>2. NoCopy \in AnyPackets
  BY AdvisoryAssumption DEF AdvisoryAssumption, NoCopy, AnyPackets, None
<1>3. NewState \in AnyStates(n)
  BY DEF NewState, AnyStates, None
<1>4. Whole(Idle)
  BY DEF Whole, Names, Idle
<1>5. Fields(Idle, n)
  BY <1>1, <1>2, <1>3 DEF Fields, Idle, None
<1>6. Place(Idle)
  BY DEF Place, Idle
<1> QED
  BY <1>1, <1>2, <1>3, <1>4, <1>5, <1>6 DEF HookSound

LEMMA LoadedTyped ==
  ASSUME Typed, NEW p \in Hooks
  PROVE  /\ Loaded(p) \in AnyIndexes(Len(packets))
         /\ Loaded(p) \in (IF h[p].data # {} THEN h[p].data ELSE IF cache[p] # {} THEN cache[p]
                                                                            ELSE {index})
<1> DEFINE ixs == IF h[p].data # {} THEN h[p].data ELSE IF cache[p] # {} THEN cache[p] ELSE {index}
<1>1. ixs # {} /\ ixs \subseteq AnyIndexes(Len(packets))
  BY DEF Typed, FilesTyped, HooksTyped, CachesTyped, HookSound, Fields
<1>2. Loaded(p) = CHOOSE ix \in ixs : TRUE
  BY DEF Loaded
<1> QED
  BY <1>1, <1>2

\* A step of one hook that leaves the hooks and files sound.
LEMMA TypedMove ==
  ASSUME Typed, NEW p \in Hooks, NEW x, h' = [h EXCEPT ![p] = x],
         Len(packets) <= Len(packets'), FilesTyped', CachesTyped', HookSound(x, Len(packets'))
  PROVE  Typed'
<1>1. Len(packets) \in Nat /\ Len(packets') \in Nat
  BY DEF Typed, FilesTyped
<1>2. \A q \in Hooks : HookSound(h'[q], Len(packets'))
  BY <1>1, Growing DEF Typed, HooksTyped
<1>3. h' = [q \in Hooks |-> h'[q]]
  BY DEF Typed, HooksTyped
<1> QED
  BY <1>2, <1>3 DEF Typed, HooksTyped

LEMMA SameFiles ==
  ASSUME Typed, UNCHANGED <<packets, index, tmp, state, shows, retired>>, DOMAIN told' = DOMAIN told
  PROVE  FilesTyped'
  BY DEF Typed, FilesTyped, Stored

LEMMA SameCaches ==
  ASSUME Typed, FilesTyped', Len(packets) <= Len(packets'), UNCHANGED cache
  PROVE  CachesTyped'
<1>1. Len(packets) \in Nat /\ Len(packets') \in Nat
  BY DEF Typed, FilesTyped
<1> QED
  BY <1>1, Growing DEF Typed, CachesTyped

LEMMA KeptCache ==
  ASSUME Typed, NEW p \in Hooks, NEW ix \in AnyIndexes(Len(packets)), Keep(p, ix), UNCHANGED packets
  PROVE  CachesTyped'
  BY DEF Typed, CachesTyped, Keep

LEMMA LeavingTyped ==
  ASSUME Typed, NEW p \in Hooks, Leave(p), FilesTyped', UNCHANGED packets
  PROVE  Typed'
<1>1. Len(packets) \in Nat
  BY DEF Typed, FilesTyped
<1>2. HookSound(Idle, Len(packets'))
  BY <1>1, Blanks
<1>3. CachesTyped'
  BY DEF Typed, CachesTyped, Leave
<1>4. h' = [h EXCEPT ![p] = Idle] /\ Len(packets) <= Len(packets')
  BY <1>1 DEF Leave
<1> QED
  BY <1>2, <1>3, <1>4, TypedMove

LEMMA HookTyped ==
  ASSUME Typed, NEW p \in Hooks
  PROVE  /\ Len(packets) \in Nat /\ HookSound(h[p], Len(packets))
         /\ h[p].id # None => packets[h[p].id] \in AnyPackets
  BY DEF Typed, FilesTyped, HooksTyped, HookSound, Fields, None

LEMMA ReadPacketTyped ==
  ASSUME Typed, NEW p \in Hooks, ReadPacket(p)
  PROVE  Typed'
<1> DEFINE packet == packets[h[p].id]
           copy == Changed(h[p], packet)
           x == [h[p] EXCEPT !.pc = "write", !.seen = packet, !.copy = copy]
<1>1. HookSound(h[p], Len(packets)) /\ h[p].id # None /\ packet \in AnyPackets
  BY HookTyped DEF ReadPacket, HookSound, Place
<1>2. h[p].task \in {"usage", "outcome"}
  BY <1>1 DEF ReadPacket, HookSound, Place
<1>3. copy \in AnyPackets
  BY <1>1, <1>2 DEF Changed, AnyPackets
<1>4. Whole(x) /\ Fields(x, Len(packets))
  <2>1. Whole(x)
    BY <1>1 DEF HookSound, Whole
  <2>2. Fields(x, Len(packets))
    BY <1>1, <1>3 DEF HookSound, Whole, Names, Fields
  <2> QED
    BY <2>1, <2>2
<1>5. Place(x)
  BY <1>1, <1>2 DEF ReadPacket, HookSound, Place, Whole, Names, Changes
<1>6. h' = [h EXCEPT ![p] = x] /\ FilesTyped' /\ CachesTyped' /\ UNCHANGED packets
  BY SameFiles, SameCaches DEF ReadPacket, Become, Typed, FilesTyped, files, history
<1>7. HookSound(x, Len(packets')) /\ Len(packets) <= Len(packets')
  BY <1>4, <1>5, <1>6, HookTyped DEF HookSound
<1> HIDE DEF x
<1> QED
  BY <1>6, <1>7, TypedMove

LEMMA WritePacketTyped ==
  ASSUME Typed, NEW p \in Hooks, WritePacket(p)
  PROVE  Typed'
<1> DEFINE new == h[p].task \in {"new", "baseline"}
           id == IF new THEN Len(packets) + 1 ELSE h[p].id
           x == [h[p] EXCEPT !.pc = "index", !.id = id, !.seen = NoCopy]
<1>1. /\ HookSound(h[p], Len(packets)) /\ h[p].copy \in AnyPackets /\ Len(packets) \in Nat
      /\ h[p].pc = "write"
  BY HookTyped DEF HookSound, Fields, WritePacket
<1>2. /\ packets' = IF new THEN Append(packets, h[p].copy) ELSE [packets EXCEPT ![id] = h[p].copy]
      /\ shows' = IF new THEN Append(shows, IF h[p].shown THEN 1 ELSE 0) ELSE shows
      /\ h' = [h EXCEPT ![p] = x]
      /\ UNCHANGED <<index, tmp, state, cache, retired, told>>
  BY DEF WritePacket, Become, News
<1>3. packets' \in Seq(AnyPackets) /\ shows' \in Seq(Nat) /\ Len(shows') = Len(packets')
  <2>1. packets \in Seq(AnyPackets) /\ shows \in Seq(Nat) /\ Len(shows) = Len(packets)
    BY DEF Typed, FilesTyped
  <2>2. CASE new
    BY <1>1, <1>2, <2>1, <2>2
  <2>3. CASE ~new
    <3>1. packets' = [packets EXCEPT ![h[p].id] = h[p].copy] /\ shows' = shows
      BY <1>2, <2>3
    <3>2. packets \in [1..Len(packets) -> AnyPackets]
      BY <2>1
    <3>3. packets' \in [1..Len(packets) -> AnyPackets]
      BY <1>1, <3>1, <3>2
    <3> QED
      BY <1>1, <2>1, <3>1, <3>3
  <2> QED
    BY <2>2, <2>3
<1>4. Len(packets') \in Nat /\ Len(packets) <= Len(packets') /\ id \in 1..Len(packets')
  BY <1>1, <1>2 DEF Typed, FilesTyped, HookSound, Place, Fields, Changes, News, None
<1>5. FilesTyped'
  <2>1. /\ AnyIndexes(Len(packets)) \subseteq AnyIndexes(Len(packets'))
        /\ AnyStates(Len(packets)) \subseteq AnyStates(Len(packets'))
    BY <1>1, <1>4, Growing
  <2>2. retired' \subseteq 1..Len(packets')
    BY <1>1, <1>2, <1>4 DEF Typed, FilesTyped, Stored
  <2> HIDE DEF new, id, x
  <2> QED
    BY <1>2, <1>3, <2>1, <2>2 DEF Typed, FilesTyped, Stored
<1>6. HookSound(h[p], Len(packets'))
  BY <1>1, <1>4, Growing
<1>7. Whole(x) /\ Fields(x, Len(packets'))
  <2>1. Whole(x)
    BY <1>6 DEF HookSound, Whole
  <2>2. NoCopy \in AnyPackets /\ id \in 0..Len(packets')
    BY <1>4, Blanks
  <2>3. Fields(x, Len(packets'))
    BY <1>6, <2>2 DEF HookSound, Whole, Names, Fields
  <2> QED
    BY <2>1, <2>3
<1>8. Place(x)
  BY <1>1, <1>4 DEF HookSound, Place, Whole, Names, None
<1>9. HookSound(x, Len(packets')) /\ CachesTyped'
  BY <1>2, <1>4, <1>5, <1>7, <1>8, SameCaches DEF HookSound
<1> HIDE DEF x
<1> QED
  BY <1>2, <1>4, <1>5, <1>9, TypedMove

LEMMA ChangedIndex ==
  ASSUME NEW n \in Nat, NEW ix \in AnyIndexes(n), NEW id \in 1..n, NEW c \in AnyPackets
  PROVE  Entered(ix, id, c) \in AnyIndexes(n) /\ Marked(ix, id) \in AnyIndexes(n)
<1>1. /\ ix.exact \in [Keys -> 0..n] /\ ix.fresh \subseteq 1..n /\ ix.dead \subseteq 1..n
      /\ ix.rough \in BOOLEAN
      /\ ix = [exact |-> ix.exact, fresh |-> ix.fresh, dead |-> ix.dead, rough |-> ix.rough]
  BY DEF AnyIndexes
<1>2. [ix.exact EXCEPT ![c.key] = id] \in [Keys -> 0..n]
  <2>1. id \in 0..n
    OBVIOUS
  <2> QED
    BY <1>1, <2>1
<1>3. Entered(ix, id, c) \in AnyIndexes(n)
  BY <1>1, <1>2 DEF Entered, AnyIndexes
<1>4. Marked(ix, id) \in AnyIndexes(n)
  BY <1>1 DEF Marked, AnyIndexes
<1> QED
  BY <1>3, <1>4

LEMMA ChangeIndexTyped ==
  ASSUME Typed, NEW p \in Hooks, ChangeIndex(p)
  PROVE  Typed'
<1> DEFINE ix == IF h[p].task = "invalid" THEN Marked(Loaded(p), h[p].id)
                                          ELSE Entered(Loaded(p), h[p].id, h[p].copy)
           x == [[h[p] EXCEPT !.data = {}] EXCEPT !.pc = "tmp", !.ix = ix]
<1>1. /\ HookSound(h[p], Len(packets)) /\ h[p].copy \in AnyPackets /\ Len(packets) \in Nat
      /\ h[p].pc = "index" /\ h[p].id \in 1..Len(packets)
  BY HookTyped DEF HookSound, Fields, Place, ChangeIndex, None
<1>2. ix \in AnyIndexes(Len(packets))
  BY <1>1, LoadedTyped, ChangedIndex
<1>3. Whole(x) /\ Fields(x, Len(packets))
  <2>1. Whole(x)
    BY <1>1 DEF HookSound, Whole
  <2>2. Fields(x, Len(packets))
    BY <1>1, <1>2 DEF HookSound, Whole, Names, Fields
  <2> QED
    BY <2>1, <2>2
<1>4. Place(x)
  BY <1>1 DEF HookSound, Place, Whole, Names
<1>5. h' = [h EXCEPT ![p] = x] /\ Keep(p, ix)
  BY DEF ChangeIndex, Become, Using
<1>6. FilesTyped' /\ CachesTyped' /\ UNCHANGED packets
  BY <1>2, <1>5, SameFiles, KeptCache DEF ChangeIndex, files
<1>7. HookSound(x, Len(packets')) /\ Len(packets) <= Len(packets')
  BY <1>1, <1>3, <1>4, <1>6 DEF HookSound
<1> HIDE DEF x
<1> QED
  BY <1>5, <1>6, <1>7, TypedMove

LEMMA TidyTyped ==
  ASSUME Typed, NEW p \in Hooks, Tidy(p)
  PROVE  Typed'
<1> DEFINE ix == [index EXCEPT !.rough = FALSE]
           x == [h[p] EXCEPT !.pc = "tmp", !.back = h[p].pc, !.ix = ix]
<1>1. HookSound(h[p], Len(packets)) /\ h[p].pc \in Loads /\ Len(packets) \in Nat
  BY HookTyped DEF Tidy, Loads
<1>2. ix \in AnyIndexes(Len(packets))
  BY DEF Typed, FilesTyped, AnyIndexes
<1>3. Whole(x) /\ Fields(x, Len(packets))
  <2>1. Whole(x)
    BY <1>1 DEF HookSound, Whole
  <2>2. Fields(x, Len(packets))
    BY <1>1, <1>2 DEF HookSound, Whole, Names, Fields
  <2> QED
    BY <2>1, <2>2
<1>4. Place(x)
  BY <1>1 DEF HookSound, Place, Whole, Names, Loads
<1>5. h' = [h EXCEPT ![p] = x] /\ cache' = [cache EXCEPT ![p] = {ix}]
  BY DEF Tidy, Become
<1>6. FilesTyped' /\ CachesTyped' /\ UNCHANGED packets
  BY <1>2, <1>5, SameFiles DEF Tidy, files, history, Typed, CachesTyped
<1>7. HookSound(x, Len(packets')) /\ Len(packets) <= Len(packets')
  BY <1>1, <1>3, <1>4, <1>6 DEF HookSound
<1> HIDE DEF x
<1> QED
  BY <1>5, <1>6, <1>7, TypedMove

LEMMA WriteTmpTyped ==
  ASSUME Typed, NEW p \in Hooks, WriteTmp(p)
  PROVE  Typed'
<1> DEFINE x == [h[p] EXCEPT !.pc = "replace"]
<1>1. HookSound(h[p], Len(packets)) /\ h[p].pc = "tmp" /\ Len(packets) \in Nat
  BY HookTyped DEF WriteTmp
<1>2. Whole(x) /\ Fields(x, Len(packets))
  <2>1. Whole(x)
    BY <1>1 DEF HookSound, Whole
  <2>2. Fields(x, Len(packets))
    BY <1>1 DEF HookSound, Whole, Names, Fields
  <2> QED
    BY <2>1, <2>2
<1>3. Place(x)
  BY <1>1 DEF HookSound, Place, Whole, Names
<1>4. h' = [h EXCEPT ![p] = x] /\ FilesTyped' /\ UNCHANGED <<packets, cache>>
  BY <1>1 DEF WriteTmp, Goto, Become, HookSound, Fields, Typed, FilesTyped, Stored, history
<1>5. HookSound(x, Len(packets')) /\ Len(packets) <= Len(packets') /\ CachesTyped'
  BY <1>1, <1>2, <1>3, <1>4, SameCaches DEF HookSound
<1> HIDE DEF x
<1> QED
  BY <1>4, <1>5, TypedMove

LEMMA ResumedSound ==
  ASSUME NEW n \in Nat, NEW y, HookSound(y, n), y.pc \in {"read", "replace"},
         y.back # "none" \/ y.task \in {"alias", "usage", "outcome", "invalid"} \/
         (y.task = "new" /\ y.shown)
  PROVE  HookSound(Resumed(y), n)
<1> DEFINE loaded == [y EXCEPT !.pc = y.back, !.back = "none", !.data = {y.ix}, !.ix = NoIndex]
           clean == [y EXCEPT !.copy = NoCopy, !.ix = NoIndex, !.task = "none"]
<1>1. Whole(y) /\ Fields(y, n) /\ Place(y) /\ NoIndex \in AnyIndexes(n) /\ NoCopy \in AnyPackets
  BY Blanks DEF HookSound
<1>2. CASE y.back # "none"
  <2>1. Resumed(y) = loaded
    BY <1>2 DEF Resumed
  <2>2. Whole(loaded)
    BY <1>1 DEF Whole
  <2>3. Fields(loaded, n)
    BY <1>1 DEF Whole, Names, Fields
  <2>4. Place(loaded)
    BY <1>1, <1>2 DEF Whole, Names, Place, Loads
  <2> QED
    BY <2>1, <2>2, <2>3, <2>4 DEF HookSound
<1>3. CASE y.back = "none"
  <2>1. Whole(clean)
    BY <1>1 DEF Whole
  <2>2. Fields(clean, n)
    BY <1>1 DEF Whole, Names, Fields
  <2>3. CASE y.task = "new"
    <3> DEFINE x == [clean EXCEPT !.pc = "read", !.task = "usage", !.st.last = y.id,
                                  !.st.tool = y.t]
    <3>1. Resumed(y) = x
      BY <1>3, <2>3 DEF Resumed
    <3>2. Whole(x)
      BY <2>1 DEF Whole
    <3>3. Fields(x, n)
      <4>1. y.st \in AnyStates(n) /\ y.id \in 0..n /\ y.t \in Tools \cup {"*"} /\ clean.st = y.st
        BY <1>1, <2>1 DEF Fields, Whole, Names
      <4>2. [y.st EXCEPT !.last = y.id, !.tool = y.t] \in AnyStates(n)
        BY <4>1 DEF AnyStates
      <4>3. x.st = [y.st EXCEPT !.last = y.id, !.tool = y.t]
        BY <2>1, <4>1 DEF Whole, Names
      <4> QED
        BY <2>1, <2>2, <4>2, <4>3 DEF Whole, Names, Fields
    <3>4. Place(x)
      BY <1>1, <1>3, <2>1, <2>3 DEF Whole, Names, Place
    <3> QED
      BY <3>1, <3>2, <3>3, <3>4 DEF HookSound
  <2>4. CASE y.task \in {"alias", "usage"}
    <3> DEFINE x == [clean EXCEPT !.pc = IF y.task = "alias" THEN "gate" ELSE "save"]
    <3>1. Resumed(y) = x
      BY <1>3, <2>4 DEF Resumed
    <3>2. Whole(x)
      BY <2>1 DEF Whole
    <3>3. Fields(x, n)
      BY <2>1, <2>2 DEF Whole, Names, Fields
    <3>4. Place(x)
      BY <1>1, <1>3, <2>1, <2>4 DEF Whole, Names, Place
    <3> QED
      BY <3>1, <3>2, <3>3, <3>4 DEF HookSound
  <2>5. CASE y.task \in {"outcome", "invalid"}
    <3> DEFINE x == [clean EXCEPT !.pc = IF y.task = "outcome" THEN "edit" ELSE "next", !.id = None]
    <3>1. Resumed(y) = x
      BY <1>3, <2>5 DEF Resumed
    <3>2. Whole(x)
      BY <2>1 DEF Whole
    <3>3. Fields(x, n)
      BY <2>1, <2>2 DEF Whole, Names, Fields, None
    <3>4. Place(x)
      BY <1>1, <1>3, <2>1, <2>5 DEF Whole, Names, Place
    <3> QED
      BY <3>1, <3>2, <3>3, <3>4 DEF HookSound
  <2> QED
    BY <1>3, <2>3, <2>4, <2>5
<1> QED
  BY <1>2, <1>3 DEF HookSound, Place

\* Where the caller of a save goes on, and with what.
LEMMA ResumedFields ==
  ASSUME NEW y, Whole(y),
         y.back # "none" \/ y.task \in {"alias", "new", "usage", "outcome", "invalid"}
  PROVE  /\ Resumed(y).before = y.before /\ Resumed(y).shown = y.shown
         /\ Resumed(y).hits = y.hits /\ Resumed(y).todo = y.todo
         /\ y.back # "none" => /\ Resumed(y).pc = y.back /\ Resumed(y).id = y.id
                               /\ Resumed(y).back = "none" /\ Resumed(y).data = {y.ix}
                               /\ Resumed(y).task = y.task
         /\ y.back = "none" =>
              /\ Resumed(y).back = "none" /\ Resumed(y).data = y.data
              /\ y.task = "alias" => Resumed(y).pc = "gate" /\ Resumed(y).id = y.id
              /\ y.task = "new" => /\ Resumed(y).pc = "read" /\ Resumed(y).id = y.id
                                   /\ Resumed(y).task = "usage"
              /\ y.task = "usage" => Resumed(y).pc = "save"
              /\ y.task = "outcome" => Resumed(y).pc = "edit"
              /\ y.task = "invalid" => Resumed(y).pc = "next"
              /\ y.task \notin {"new"} => Resumed(y).task = "none"
<1> DEFINE loaded == [y EXCEPT !.pc = y.back, !.back = "none", !.data = {y.ix}, !.ix = NoIndex]
           clean == [y EXCEPT !.copy = NoCopy, !.ix = NoIndex, !.task = "none"]
<1>1. CASE y.back # "none"
  <2>1. Resumed(y) = loaded
    BY <1>1 DEF Resumed
  <2> QED
    BY <1>1, <2>1 DEF Whole, Names
<1>2. CASE y.back = "none"
  <2>1. /\ Whole(clean) /\ clean.before = y.before /\ clean.shown = y.shown /\ clean.hits = y.hits
        /\ clean.todo = y.todo /\ clean.id = y.id /\ clean.back = y.back /\ clean.data = y.data
        /\ clean.task = "none"
    BY DEF Whole, Names
  <2>2. CASE y.task = "new"
    <3>1. Resumed(y) = [clean EXCEPT !.pc = "read", !.task = "usage", !.st.last = y.id,
                                     !.st.tool = y.t]
      BY <1>2, <2>2 DEF Resumed
    <3> HIDE DEF clean
    <3> QED
      BY <1>2, <2>1, <2>2, <3>1 DEF Whole, Names
  <2>3. CASE y.task \in {"alias", "usage"}
    <3>1. Resumed(y) = [clean EXCEPT !.pc = IF y.task = "alias" THEN "gate" ELSE "save"]
      BY <1>2, <2>3 DEF Resumed
    <3> HIDE DEF clean
    <3> QED
      BY <1>2, <2>1, <2>3, <3>1 DEF Whole, Names
  <2>4. CASE y.task \in {"outcome", "invalid"}
    <3>1. Resumed(y) = [clean EXCEPT !.pc = IF y.task = "outcome" THEN "edit" ELSE "next", !.id = None]
      BY <1>2, <2>4 DEF Resumed
    <3> HIDE DEF clean
    <3> QED
      BY <1>2, <2>1, <2>4, <3>1 DEF Whole, Names
  <2> QED
    BY <1>2, <2>2, <2>3, <2>4
<1> QED
  BY <1>1, <1>2

LEMMA ReplaceIndexTyped ==
  ASSUME Typed, NEW p \in Hooks, ReplaceIndex(p)
  PROVE  Typed'
<1> DEFINE ends == /\ h[p].back = "none"
                   /\ h[p].task = "baseline" \/ (h[p].task = "new" /\ ~h[p].shown)
           x == IF ends THEN Idle ELSE Resumed(h[p])
<1>1. HookSound(h[p], Len(packets)) /\ h[p].pc = "replace" /\ Len(packets) \in Nat
  BY HookTyped DEF ReplaceIndex
<1>2. HookSound(x, Len(packets))
  <2>1. ~ends => \/ h[p].back # "none" \/ h[p].task \in {"alias", "usage", "outcome", "invalid"}
                 \/ (h[p].task = "new" /\ h[p].shown)
    BY <1>1 DEF HookSound, Place, Changes, News
  <2> QED
    BY <1>1, <2>1, ResumedSound, Blanks
<1>3. h' = [h EXCEPT ![p] = x] /\ UNCHANGED <<packets, shows, state, retired, told>>
  BY DEF ReplaceIndex, Become
<1>4. index' \in AnyIndexes(Len(packets)) /\ tmp' = {}
  BY DEF ReplaceIndex, Typed, FilesTyped
<1>5. FilesTyped'
  BY <1>3, <1>4 DEF Typed, FilesTyped, Stored
<1>6. CachesTyped'
  BY <1>1, <1>3 DEF ReplaceIndex, CachesTyped, HookSound, Fields
<1>7. HookSound(x, Len(packets')) /\ Len(packets) <= Len(packets')
  BY <1>1, <1>2, <1>3
<1> HIDE DEF x
<1> QED
  BY <1>3, <1>5, <1>6, <1>7, TypedMove

LEMMA ReplaceFailsTyped ==
  ASSUME Typed, NEW p \in Hooks, ReplaceFails(p)
  PROVE  Typed'
<1> DEFINE loads == h[p].back # "none"
           ends == ~loads /\ h[p].task \in {"baseline", "new"}
           y == Resumed(h[p])
           x == IF h[p].task = "invalid" /\ ~loads
                THEN [y EXCEPT !.pc = "save", !.todo = {}, !.hits = {}] ELSE y
<1>1. HookSound(h[p], Len(packets)) /\ h[p].pc = "replace" /\ Len(packets) \in Nat
  BY HookTyped DEF ReplaceFails
<1>2. FilesTyped' /\ UNCHANGED packets
  BY SameFiles DEF ReplaceFails, files
<1>3. CASE ends
  BY <1>2, <1>3, LeavingTyped DEF ReplaceFails
<1>4. CASE ~ends
  <2>1. HookSound(y, Len(packets))
    BY <1>1, <1>4, ResumedSound DEF HookSound, Place, Changes, News
  <2>2. HookSound(x, Len(packets))
    <3>1. CASE h[p].task = "invalid" /\ ~loads
      <4>1. y.back = "none" /\ y.pc = "next"
        <5>1. y = [[h[p] EXCEPT !.copy = NoCopy, !.ix = NoIndex, !.task = "none"]
                     EXCEPT !.pc = "next", !.id = None]
          BY <3>1 DEF Resumed
        <5> QED
          BY <1>1, <3>1, <5>1 DEF HookSound, Whole, Names
      <4>2. Whole(x)
        BY <2>1, <3>1 DEF HookSound, Whole
      <4>3. Fields(x, Len(packets))
        BY <2>1, <3>1 DEF HookSound, Whole, Names, Fields
      <4>4. Place(x)
        BY <2>1, <3>1, <4>1 DEF HookSound, Whole, Names, Place
      <4> QED
        BY <4>2, <4>3, <4>4 DEF HookSound
    <3> QED
      BY <2>1, <3>1
  <2>3. h' = [h EXCEPT ![p] = x] /\ UNCHANGED cache
    BY <1>4 DEF ReplaceFails, Become
  <2>4. HookSound(x, Len(packets')) /\ Len(packets) <= Len(packets') /\ CachesTyped'
    BY <1>1, <1>2, <2>2, <2>3, SameCaches
  <2> HIDE DEF x
  <2> QED
    BY <1>2, <2>3, <2>4, TypedMove
<1> QED
  BY <1>3, <1>4

\* What the steps below have in common.
LEMMA TypedStep ==
  ASSUME Typed, NEW p \in Hooks, NEW x, h' = [h EXCEPT ![p] = x], HookSound(x, Len(packets)),
         UNCHANGED <<packets, index, tmp, state, shows>>, retired' \subseteq Stored,
         DOMAIN told' = DOMAIN told, UNCHANGED cache \/ CachesTyped'
  PROVE  Typed'
<1>1. FilesTyped' /\ Len(packets) \in Nat
  BY DEF Typed, FilesTyped, Stored
<1>2. Len(packets) <= Len(packets') /\ HookSound(x, Len(packets'))
  BY <1>1
<1>3. CachesTyped'
  BY <1>1, <1>2, SameCaches
<1> QED
  BY <1>1, <1>2, <1>3, TypedMove

\* A hook that begins with a fresh memory but for its place, tool and task.
LEMMA BeginTyped ==
  ASSUME Typed, NEW p \in Hooks, NEW s \in Sessions, NEW hook,
         Whole(hook), Fields(hook, Len(packets)), hook.back = "none", ~hook.shown,
         hook.pc \in {"exact", "edit", "prompt"} \/
           (hook.pc = "read" /\ hook.task = "outcome" /\ hook.id # None),
         Begin(p, s, hook)
  PROVE  Typed'
<1> DEFINE x == [hook EXCEPT !.s = s, !.st = state[s], !.before = retired]
<1>1. Len(packets) \in Nat /\ state[s] \in AnyStates(Len(packets))
  BY HookTyped DEF Typed, FilesTyped
<1>2. Whole(x)
  BY DEF Whole
<1>3. Fields(x, Len(packets))
  BY <1>1 DEF Whole, Names, Fields
<1>4. /\ x.pc = hook.pc /\ x.id = hook.id /\ x.task = hook.task /\ ~x.shown /\ x.back = "none"
      /\ x.s = s
  BY DEF Whole, Names
<1>5. Place(x)
  BY <1>4 DEF Place
<1>6. h' = [h EXCEPT ![p] = x] /\ UNCHANGED <<files, cache, shows, retired, told>>
  BY DEF Begin, Become
<1> HIDE DEF x
<1> QED
  BY <1>2, <1>3, <1>5, <1>6, TypedStep DEF HookSound, files, Typed, FilesTyped

LEMMA LookupExactTyped ==
  ASSUME Typed, NEW p \in Hooks, LookupExact(p)
  PROVE  Typed'
<1> DEFINE id == Loaded(p).exact[Key(p)]
           y == [h[p] EXCEPT !.data = {}]
           x == IF id # None /\ id \notin torn /\ ~packets[id].invalid
                THEN [y EXCEPT !.pc = "gate", !.id = id, !.advice = packets[id].advice]
                ELSE [y EXCEPT !.pc = "relaxed"]
<1>1. HookSound(h[p], Len(packets)) /\ h[p].pc = "exact" /\ Len(packets) \in Nat
  BY HookTyped DEF LookupExact
<1>2. id \in 0..Len(packets)
  <2>1. Key(p) \in Keys
    BY <1>1 DEF HookSound, Fields, Place, Key, Keys
  <2> QED
    BY <2>1, LoadedTyped DEF AnyIndexes
<1>3. id # None => packets[id].advice \in Advices \cup {None}
  <2>1. id # None => packets[id] \in AnyPackets
    BY <1>2 DEF Typed, FilesTyped, None
  <2> HIDE DEF id
  <2> QED
    BY <2>1 DEF AnyPackets
<1>4. Whole(y) /\ Whole(x)
  BY <1>1 DEF HookSound, Whole
<1>5. Fields(y, Len(packets))
  BY <1>1 DEF HookSound, Whole, Names, Fields
<1>6. Fields(x, Len(packets))
  BY <1>2, <1>3, <1>4, <1>5 DEF Whole, Names, Fields
<1>7. Place(x)
  BY <1>1, <1>4 DEF HookSound, Whole, Names, Place
<1>8. h' = [h EXCEPT ![p] = x] /\ Keep(p, Loaded(p)) /\ UNCHANGED <<files, history>>
  BY DEF LookupExact, Become, Found, Using
<1>9. CachesTyped'
  BY <1>8, LoadedTyped, KeptCache DEF files
<1> HIDE DEF x
<1> QED
  BY <1>4, <1>6, <1>7, <1>8, <1>9, TypedStep DEF HookSound, files, history, Typed, FilesTyped

LEMMA LookupRelaxedTyped ==
  ASSUME Typed, NEW p \in Hooks, LookupRelaxed(p)
  PROVE  Typed'
<1> DEFINE y == [h[p] EXCEPT !.data = {}]
           found(id, pc) == [y EXCEPT !.pc = pc, !.id = id, !.advice = packets[id].advice]
           new(a) == [y EXCEPT !.pc = "gate", !.advice = a]
           none == [y EXCEPT !.pc = "save"]
<1>1. HookSound(h[p], Len(packets)) /\ h[p].pc = "relaxed" /\ Len(packets) \in Nat
  BY HookTyped DEF LookupRelaxed
<1>2. Loaded(p).fresh \subseteq 1..Len(packets)
  BY LoadedTyped DEF AnyIndexes
<1>3. Whole(y)
  BY <1>1 DEF HookSound, Whole
<1>4. Fields(y, Len(packets))
  BY <1>1 DEF HookSound, Whole, Names, Fields
<1>5. \A id \in 1..Len(packets) : \A pc \in {"gate", "alias"} : HookSound(found(id, pc), Len(packets))
  <2> SUFFICES ASSUME NEW id \in 1..Len(packets), NEW pc \in {"gate", "alias"}
               PROVE  HookSound(found(id, pc), Len(packets))
    OBVIOUS
  <2>1. packets[id].advice \in Advices \cup {None}
    <3>1. packets[id] \in AnyPackets
      BY DEF Typed, FilesTyped
    <3> QED
      BY <3>1 DEF AnyPackets
  <2>2. Whole(found(id, pc))
    BY <1>3 DEF Whole
  <2>3. Fields(found(id, pc), Len(packets))
    BY <1>3, <1>4, <2>1 DEF Whole, Names, Fields
  <2>4. Place(found(id, pc))
    BY <1>1, <1>3 DEF HookSound, Whole, Names, Place, None
  <2> QED
    BY <2>2, <2>3, <2>4 DEF HookSound
<1>6. \A a \in Advices : HookSound(new(a), Len(packets))
  <2> SUFFICES ASSUME NEW a \in Advices PROVE HookSound(new(a), Len(packets))
    OBVIOUS
  <2>1. Whole(new(a))
    BY <1>3 DEF Whole
  <2>2. Fields(new(a), Len(packets))
    BY <1>3, <1>4 DEF Whole, Names, Fields
  <2>3. Place(new(a))
    BY <1>1, <1>3 DEF HookSound, Whole, Names, Place
  <2> QED
    BY <2>1, <2>2, <2>3 DEF HookSound
<1>7. HookSound(none, Len(packets))
  <2>1. Whole(none)
    BY <1>3 DEF Whole
  <2>2. Fields(none, Len(packets))
    BY <1>3, <1>4 DEF Whole, Names, Fields
  <2>3. Place(none)
    BY <1>1, <1>3 DEF HookSound, Whole, Names, Place
  <2> QED
    BY <2>1, <2>2, <2>3 DEF HookSound
<1>8. PICK x : h' = [h EXCEPT ![p] = x] /\ HookSound(x, Len(packets))
  <2>1. \/ \E id \in Loaded(p).fresh : \E pc \in {"gate", "alias"} : h' = [h EXCEPT ![p] = found(id, pc)]
        \/ \E a \in Advices : h' = [h EXCEPT ![p] = new(a)]
        \/ h' = [h EXCEPT ![p] = none]
    BY DEF LookupRelaxed, Become, Found, Using
  <2> HIDE DEF found, new, none
  <2> QED
    BY <1>2, <1>5, <1>6, <1>7, <2>1
<1>9. Keep(p, Loaded(p)) /\ UNCHANGED <<files, history>>
  BY DEF LookupRelaxed
<1>10. CachesTyped'
  BY <1>9, LoadedTyped, KeptCache DEF files
<1> QED
  BY <1>8, <1>9, <1>10, TypedStep DEF files, history, Typed, FilesTyped

LEMMA AliasTyped ==
  ASSUME Typed, NEW p \in Hooks, Alias(p)
  PROVE  Typed'
<1> DEFINE ix == Loaded(p)
           new == [ix EXCEPT !.exact[Key(p)] = h[p].id]
           y == [h[p] EXCEPT !.data = {}]
           x == IF new = ix THEN [y EXCEPT !.pc = "gate"]
                            ELSE [y EXCEPT !.pc = "tmp", !.task = "alias", !.ix = new]
<1>1. HookSound(h[p], Len(packets)) /\ h[p].pc = "alias" /\ Len(packets) \in Nat
  BY HookTyped DEF Alias
<1>2. new \in AnyIndexes(Len(packets))
  <2>1. h[p].id \in 0..Len(packets) /\ ix \in AnyIndexes(Len(packets))
    BY <1>1, LoadedTyped DEF HookSound, Fields
  <2>2. /\ ix.exact \in [Keys -> 0..Len(packets)] /\ ix.rough \in BOOLEAN
        /\ ix.fresh \subseteq 1..Len(packets) /\ ix.dead \subseteq 1..Len(packets)
        /\ ix = [exact |-> ix.exact, fresh |-> ix.fresh, dead |-> ix.dead, rough |-> ix.rough]
    BY <2>1 DEF AnyIndexes
  <2>3. [ix.exact EXCEPT ![Key(p)] = h[p].id] \in [Keys -> 0..Len(packets)]
    BY <2>1, <2>2
  <2> HIDE DEF ix
  <2>4. new = [exact |-> [ix.exact EXCEPT ![Key(p)] = h[p].id], fresh |-> ix.fresh,
               dead |-> ix.dead, rough |-> ix.rough]
    BY <2>2
  <2> QED
    BY <2>2, <2>3, <2>4 DEF AnyIndexes
<1>3. Whole(y) /\ Whole(x)
  BY <1>1 DEF HookSound, Whole
<1>4. Fields(y, Len(packets))
  BY <1>1 DEF HookSound, Whole, Names, Fields
<1>5. Fields(x, Len(packets))
  BY <1>2, <1>3, <1>4 DEF HookSound, Whole, Names, Fields
<1>6. Place(x)
  BY <1>1, <1>3 DEF HookSound, Whole, Names, Place
<1>7. h' = [h EXCEPT ![p] = x] /\ Keep(p, new) /\ UNCHANGED <<files, history>>
  BY DEF Alias, Become, Using
<1>8. CachesTyped'
  BY <1>2, <1>7, KeptCache DEF files
<1> HIDE DEF x
<1> QED
  BY <1>3, <1>5, <1>6, <1>7, <1>8, TypedStep DEF HookSound, files, history, Typed, FilesTyped

LEMMA SuppressedSound ==
  ASSUME NEW n \in Nat, NEW y, HookSound(y, n), y.pc \in {"gate", "emit"}
  PROVE  HookSound(Suppressed(y), n)
<1> DEFINE x == IF y.id = None THEN [y EXCEPT !.pc = "save"]
                               ELSE [y EXCEPT !.pc = "read", !.task = "usage"]
<1>1. Whole(x)
  BY DEF HookSound, Whole
<1>2. Fields(x, n)
  BY DEF HookSound, Whole, Names, Fields
<1>3. Place(x)
  BY DEF HookSound, Whole, Names, Place
<1> QED
  BY <1>1, <1>2, <1>3 DEF HookSound, Suppressed

LEMMA NewPacketTyped ==
  ASSUME NEW n \in Nat, NEW y, Fields(y, n), NEW a \in Advices \cup {None}
  PROVE  /\ NewPacket(<<y.s, y.t>>, a) \in AnyPackets /\ NewPacket(<<y.s, y.t>>, a).emits = 0
  BY DEF NewPacket, AnyPackets, Fields

LEMMA BuiltSound ==
  ASSUME Typed, NEW p \in Hooks, h[p].pc \in {"emit", "log", "cap", "fill"}
  PROVE  HookSound(Built(p), Len(packets))
<1> DEFINE copy == NewPacket(Key(p), h[p].advice)
           x == [h[p] EXCEPT !.pc = "write", !.task = "new", !.copy = copy]
<1>1. HookSound(h[p], Len(packets)) /\ Len(packets) \in Nat
  BY HookTyped
<1>2. copy \in AnyPackets /\ copy.emits = 0
  BY <1>1, NewPacketTyped DEF Key, HookSound, Fields
<1> HIDE DEF copy
<1>3. Whole(x)
  BY <1>1 DEF HookSound, Whole
<1>4. Fields(x, Len(packets))
  BY <1>1, <1>2 DEF HookSound, Whole, Names, Fields
<1>5. Place(x)
  BY <1>1, <1>2 DEF HookSound, Whole, Names, Place, News
<1> QED
  BY <1>3, <1>4, <1>5 DEF HookSound, Built, copy

\* A hook that has shown what it found, in a packet or not.
Told(y) == [y EXCEPT !.pc = "read", !.task = "usage", !.st.last = y.id, !.st.tool = y.t]

LEMMA ToldSound ==
  ASSUME NEW n \in Nat, NEW y, HookSound(y, n), y.pc \in {"log", "cap", "fill"}, y.id # None
  PROVE  HookSound(Told(y), n)
<1>1. y.st \in AnyStates(n) /\ y.id \in 0..n /\ y.t \in Tools \cup {"*"}
  BY DEF HookSound, Fields
<1>2. [y.st EXCEPT !.last = y.id, !.tool = y.t] \in AnyStates(n)
  BY <1>1 DEF AnyStates
<1>3. Whole(Told(y))
  BY DEF HookSound, Whole, Told
<1>4. Told(y).st = [y.st EXCEPT !.last = y.id, !.tool = y.t]
  BY <1>1 DEF HookSound, Whole, Names, Told, AnyStates
<1>5. Fields(Told(y), n)
  BY <1>2, <1>4 DEF HookSound, Whole, Names, Fields, Told
<1>6. Place(Told(y))
  BY DEF HookSound, Whole, Names, Place, Told
<1> QED
  BY <1>3, <1>5, <1>6 DEF HookSound

\* Gate, log of recent advice, repeats.
LEMMA GateTyped ==
  ASSUME Typed, NEW p \in Hooks, GateBlocks(p) \/ RepeatBlocks(p) \/ Dedupe(p)
  PROVE  Typed'
<1>1. HookSound(h[p], Len(packets)) /\ h[p].pc \in {"gate", "emit"} /\ Len(packets) \in Nat
  BY HookTyped DEF GateBlocks, RepeatBlocks, Dedupe
<1>2. UNCHANGED <<files, cache, shows, retired, told>>
  BY DEF GateBlocks, RepeatBlocks, Dedupe, history
<1>3. CASE GateBlocks(p) \/ RepeatBlocks(p)
  <2>1. h' = [h EXCEPT ![p] = Suppressed(h[p])]
    BY <1>3 DEF GateBlocks, RepeatBlocks, Become
  <2> QED
    BY <1>1, <1>2, <2>1, SuppressedSound, TypedStep DEF files, Typed, FilesTyped
<1>4. CASE Dedupe(p)
  <2> DEFINE x == [h[p] EXCEPT !.pc = IF h[p].advice \in log THEN "save" ELSE "emit"]
  <2>1. h' = [h EXCEPT ![p] = x]
    BY <1>4 DEF Dedupe, Goto, Become
  <2>2. Whole(x)
    BY <1>1 DEF HookSound, Whole
  <2>3. Fields(x, Len(packets))
    BY <1>1 DEF HookSound, Whole, Names, Fields
  <2>4. Place(x)
    BY <1>1 DEF HookSound, Whole, Names, Place
  <2> HIDE DEF x
  <2> QED
    BY <1>2, <2>1, <2>2, <2>3, <2>4, TypedStep DEF HookSound, files, Typed, FilesTyped
<1> QED
  BY <1>3, <1>4

LEMMA EmitTyped ==
  ASSUME Typed, NEW p \in Hooks, Emit(p)
  PROVE  Typed'
<1> DEFINE a == h[p].advice
           x == [h[p] EXCEPT !.pc = "log", !.shown = TRUE, !.st.shown = @ \cup {a}]
<1>1. HookSound(h[p], Len(packets)) /\ h[p].pc = "emit" /\ Len(packets) \in Nat
  BY HookTyped DEF Emit
<1>2. Whole(x)
  BY <1>1 DEF HookSound, Whole
<1>3. Fields(x, Len(packets))
  <2>1. h[p].st \in AnyStates(Len(packets)) /\ a \in Advices \cup {None}
    BY <1>1 DEF HookSound, Fields
  <2>2. [h[p].st EXCEPT !.shown = @ \cup {a}] \in AnyStates(Len(packets))
    BY <2>1 DEF AnyStates
  <2>3. x.st = [h[p].st EXCEPT !.shown = @ \cup {a}]
    BY <1>1, <2>1 DEF HookSound, Whole, Names, AnyStates
  <2> QED
    BY <1>1, <2>2, <2>3 DEF HookSound, Whole, Names, Fields
<1>4. Place(x)
  BY <1>1 DEF HookSound, Whole, Names, Place
<1>5. /\ h' = [h EXCEPT ![p] = x] /\ UNCHANGED <<files, cache, retired>>
      /\ told' = [told EXCEPT ![h[p].s] = @ \cup {a}]
      /\ shows' = IF h[p].id = None THEN shows ELSE [shows EXCEPT ![h[p].id] = @ + 1]
  BY DEF Emit, Become
<1>6. shows' \in Seq(Nat) /\ Len(shows') = Len(packets)
  <2>1. shows \in [1..Len(packets) -> Nat] /\ shows \in Seq(Nat) /\ Len(shows) = Len(packets)
    BY DEF Typed, FilesTyped
  <2>2. h[p].id # None => h[p].id \in 1..Len(packets)
    BY <1>1 DEF HookSound, Fields, None
  <2>3. shows' \in [1..Len(packets) -> Nat]
    BY <1>5, <2>1, <2>2
  <2> QED
    BY <1>1, <1>5, <2>1, <2>3
<1>7. FilesTyped'
  BY <1>5, <1>6 DEF files, Typed, FilesTyped, Stored
<1>8. HookSound(x, Len(packets')) /\ Len(packets) <= Len(packets') /\ CachesTyped'
  BY <1>1, <1>2, <1>3, <1>4, <1>5, <1>7, SameCaches DEF HookSound, files
<1> HIDE DEF x
<1> QED
  BY <1>5, <1>7, <1>8, TypedMove

LEMMA EmitFailsTyped ==
  ASSUME Typed, NEW p \in Hooks, EmitFails(p)
  PROVE  Typed'
<1>1. FilesTyped' /\ UNCHANGED <<packets, index, tmp, state, shows, retired, told>>
  BY SameFiles DEF EmitFails, files, history, Typed, FilesTyped
<1>2. CASE h[p].id = None
  BY <1>1, <1>2, BuiltSound, TypedStep DEF EmitFails, Become, Typed, FilesTyped
<1>3. CASE h[p].id # None
  BY <1>1, <1>3, LeavingTyped DEF EmitFails
<1> QED
  BY <1>2, <1>3

LEMMA NotedIs ==
  ASSUME NEW p \in Hooks
  PROVE  Noted(p) = IF h[p].id = None THEN Built(p) ELSE Told(h[p])
BY DEF Noted, Told

\* What a hook writes back to the log is nobody else's business.
LEMMA LinesSound ==
  ASSUME NEW n \in Nat, NEW y, HookSound(y, n), NEW lines
  PROVE  HookSound([y EXCEPT !.lines = lines], n)
<1> DEFINE x == [y EXCEPT !.lines = lines]
<1>1. Whole(x)
  BY DEF HookSound, Whole
<1>2. Fields(x, n)
  BY DEF HookSound, Whole, Names, Fields
<1>3. Place(x)
  BY DEF HookSound, Whole, Names, Place
<1> QED
  BY <1>1, <1>2, <1>3 DEF HookSound

LEMMA LogAdviceTyped ==
  ASSUME Typed, NEW p \in Hooks, LogAdvice(p) \/ EmptyLog(p) \/ FillLog(p)
  PROVE  Typed'
<1>1. /\ HookSound(h[p], Len(packets)) /\ h[p].pc \in {"log", "cap", "fill"}
      /\ Len(packets) \in Nat
  BY HookTyped DEF LogAdvice, EmptyLog, FillLog
<1>2. HookSound(Noted(p), Len(packets))
  BY <1>1, NotedIs, BuiltSound, ToldSound
<1>3. HookSound([Noted(p) EXCEPT !.lines = {}], Len(packets))
  BY <1>1, <1>2, LinesSound
<1>4. HookSound([h[p] EXCEPT !.pc = "cap"], Len(packets))
  <2> DEFINE x == [h[p] EXCEPT !.pc = "cap"]
  <2>1. CASE h[p].pc = "log"
    <3>1. Whole(x)
      BY <1>1 DEF HookSound, Whole
    <3>2. Fields(x, Len(packets))
      BY <1>1 DEF HookSound, Whole, Names, Fields
    <3>3. Place(x)
      BY <1>1, <2>1 DEF HookSound, Whole, Names, Place
    <3> QED
      BY <3>1, <3>2, <3>3 DEF HookSound
  <2>2. CASE h[p].pc # "log"
    <3>1. Whole(x)
      BY <1>1 DEF HookSound, Whole
    <3>2. Fields(x, Len(packets))
      BY <1>1 DEF HookSound, Whole, Names, Fields
    <3>3. Place(x)
      BY <1>1, <2>2 DEF HookSound, Whole, Names, Place
    <3> QED
      BY <3>1, <3>2, <3>3 DEF HookSound
  <2> QED
    BY <2>1, <2>2
<1>5. HookSound([h[p] EXCEPT !.pc = "fill", !.lines = log], Len(packets))
  <2> DEFINE x == [h[p] EXCEPT !.pc = "fill", !.lines = log]
  <2>1. Whole(x)
    BY <1>1 DEF HookSound, Whole
  <2>2. Fields(x, Len(packets))
    BY <1>1 DEF HookSound, Whole, Names, Fields
  <2>3. Place(x)
    BY <1>1 DEF HookSound, Whole, Names, Place
  <2> QED
    BY <2>1, <2>2, <2>3 DEF HookSound
<1>6. \E x : h' = [h EXCEPT ![p] = x] /\ HookSound(x, Len(packets))
  BY <1>2, <1>3, <1>4, <1>5 DEF LogAdvice, EmptyLog, FillLog, Become, Goto
<1>7. UNCHANGED <<packets, index, tmp, state, cache, shows, retired, told>>
  BY DEF LogAdvice, EmptyLog, FillLog, history
<1> QED
  BY <1>6, <1>7, TypedStep DEF Typed, FilesTyped

LEMMA SaveTyped ==
  ASSUME Typed, NEW p \in Hooks, SaveState(p)
  PROVE  Typed'
<1>1. h[p].st \in AnyStates(Len(packets))
  BY HookTyped DEF HookSound, Fields
<1>2. FilesTyped' /\ UNCHANGED packets
  BY <1>1 DEF SaveState, history, Typed, FilesTyped, Stored
<1> QED
  BY <1>2, LeavingTyped DEF SaveState

LEMMA SavePromptTyped ==
  ASSUME Typed, NEW p \in Hooks, SavePrompt(p)
  PROVE  Typed'
<1> DEFINE copy == NewPacket(Key(p), Baseline)
           x == [h[p] EXCEPT !.pc = "write", !.task = "baseline", !.copy = copy]
<1>1. HookSound(h[p], Len(packets)) /\ Len(packets) \in Nat /\ h[p].pc = "prompt"
  BY HookTyped DEF SavePrompt
<1>2. copy \in AnyPackets /\ copy.emits = 0
  BY <1>1, NewPacketTyped, AdvisoryAssumption DEF AdvisoryAssumption, Key, HookSound, Fields
<1>3. h' = [h EXCEPT ![p] = x] /\ UNCHANGED <<packets, index, tmp, cache, shows, retired, told>>
  BY DEF SavePrompt, Become, history
<1>4. state' \in [Sessions -> AnyStates(Len(packets))]
  BY <1>1 DEF SavePrompt, Typed, FilesTyped, HookSound, Fields
<1> HIDE DEF copy
<1>5. Whole(x)
  BY <1>1 DEF HookSound, Whole
<1>6. Fields(x, Len(packets))
  BY <1>1, <1>2 DEF HookSound, Whole, Names, Fields
<1>7. Place(x)
  BY <1>1, <1>2 DEF HookSound, Whole, Names, Place, News
<1>8. FilesTyped'
  BY <1>3, <1>4 DEF Typed, FilesTyped, Stored
<1>9. HookSound(x, Len(packets')) /\ Len(packets) <= Len(packets') /\ CachesTyped'
  BY <1>1, <1>3, <1>5, <1>6, <1>7, <1>8, SameCaches DEF HookSound
<1> HIDE DEF x
<1> QED
  BY <1>3, <1>8, <1>9, TypedMove

LEMMA FindEditedTyped ==
  ASSUME Typed, NEW p \in Hooks, FindEdited(p)
  PROVE  Typed'
<1> DEFINE hits == {id \in Known(Loaded(p)) : packets[id].advice \in h[p].edited}
           y == [h[p] EXCEPT !.data = {}]
           passed == IF h[p].edited = Advices THEN {} ELSE hits \cap torn
           x == [y EXCEPT !.pc = "next", !.edited = {}, !.hits = hits, !.todo = hits \ passed]
           z == [y EXCEPT !.pc = "save"]
<1>1. HookSound(h[p], Len(packets)) /\ h[p].pc = "edit" /\ Len(packets) \in Nat
  BY HookTyped DEF FindEdited
<1>2. hits \subseteq 1..Len(packets)
  BY LoadedTyped DEF AnyIndexes, Known
<1> HIDE DEF hits, passed
<1>3. Whole(y) /\ Whole(x) /\ Whole(z)
  BY <1>1 DEF HookSound, Whole
<1>4. Fields(y, Len(packets))
  BY <1>1 DEF HookSound, Whole, Names, Fields
<1>5. Fields(x, Len(packets)) /\ Fields(z, Len(packets))
  BY <1>2, <1>3, <1>4 DEF Whole, Names, Fields
<1>6. Place(x) /\ Place(z)
  BY <1>1, <1>3 DEF HookSound, Whole, Names, Place
<1>7. UNCHANGED <<files, shows, retired, told>> /\ FilesTyped'
  BY SameFiles DEF FindEdited, files, Typed, FilesTyped
<1>8. CASE h[p].t \in Editors
  <2>1. h' = [h EXCEPT ![p] = x] /\ Keep(p, Loaded(p))
    BY <1>8 DEF FindEdited, Become, Using, hits, passed
  <2>2. CachesTyped' /\ HookSound(x, Len(packets')) /\ Len(packets) <= Len(packets')
    BY <1>1, <1>3, <1>5, <1>6, <1>7, <2>1, LoadedTyped, KeptCache DEF files, HookSound
  <2> HIDE DEF x
  <2> QED
    BY <1>7, <2>1, <2>2, TypedMove
<1>9. CASE h[p].t \notin Editors
  <2>1. h' = [h EXCEPT ![p] = z] /\ UNCHANGED cache
    BY <1>9 DEF FindEdited, Become, Using
  <2>2. HookSound(z, Len(packets))
    BY <1>3, <1>5, <1>6 DEF HookSound
  <2> HIDE DEF z
  <2> QED
    BY <1>7, <2>1, <2>2, TypedStep DEF files, Typed, FilesTyped
<1> QED
  BY <1>8, <1>9

LEMMA InvalidateNextTyped ==
  ASSUME Typed, NEW p \in Hooks, InvalidateNext(p)
  PROVE  Typed'
<1>1. HookSound(h[p], Len(packets)) /\ h[p].pc = "next" /\ Len(packets) \in Nat
  BY HookTyped DEF InvalidateNext
<1>2. PICK id \in h[p].todo \ torn :
        h' = [h EXCEPT ![p] = [h[p] EXCEPT !.pc = "write", !.task = "invalid", !.id = id,
                                 !.todo = @ \ {id}, !.seen = packets[id],
                                 !.copy = [packets[id] EXCEPT !.invalid = TRUE]]]
  BY DEF InvalidateNext, Become
<1> DEFINE copy == [packets[id] EXCEPT !.invalid = TRUE]
           x == [h[p] EXCEPT !.pc = "write", !.task = "invalid", !.id = id, !.todo = @ \ {id},
                             !.seen = packets[id], !.copy = copy]
<1>3. id \in 1..Len(packets)
  BY <1>1 DEF HookSound, Fields
<1>4. packets[id] \in AnyPackets
  BY <1>3 DEF Typed, FilesTyped
<1>5. copy \in AnyPackets
  BY <1>4 DEF AnyPackets
<1>6. Whole(x)
  BY <1>1 DEF HookSound, Whole
<1>7. Fields(x, Len(packets))
  BY <1>1, <1>3, <1>4, <1>5 DEF HookSound, Whole, Names, Fields
<1>8. Place(x)
  BY <1>1, <1>3 DEF HookSound, Whole, Names, Place, Changes, None
<1>9. h' = [h EXCEPT ![p] = x] /\ UNCHANGED <<files, cache, history>>
  BY <1>2 DEF InvalidateNext
<1> HIDE DEF x
<1> QED
  BY <1>6, <1>7, <1>8, <1>9, TypedStep DEF HookSound, files, history, Typed, FilesTyped

\* Steps over a packet that cannot be read.
LEMMA UnreadTyped ==
  ASSUME Typed, NEW p \in Hooks, PacketUnread(p) \/ PassOver(p)
  PROVE  Typed'
<1>1. HookSound(h[p], Len(packets)) /\ Len(packets) \in Nat
  BY HookTyped
<1>2. UNCHANGED <<files, cache, shows, retired, told>>
  BY DEF PacketUnread, PassOver, history
<1>3. CASE PacketUnread(p)
  <2>1. h' = [h EXCEPT ![p] = Resumed(h[p])] /\ h[p].pc = "read"
    BY <1>3 DEF PacketUnread, Become
  <2>2. HookSound(Resumed(h[p]), Len(packets))
    BY <1>1, <2>1, ResumedSound DEF HookSound, Place
  <2> QED
    BY <1>2, <2>1, <2>2, TypedStep DEF files, Typed, FilesTyped
<1>4. CASE PassOver(p)
  <2>1. PICK id : h' = [h EXCEPT ![p] = [h[p] EXCEPT !.todo = @ \ {id}]]
    BY <1>4 DEF PassOver, Become
  <2> DEFINE x == [h[p] EXCEPT !.todo = @ \ {id}]
  <2>2. Whole(x)
    BY <1>1 DEF HookSound, Whole
  <2>3. Fields(x, Len(packets))
    BY <1>1 DEF HookSound, Whole, Names, Fields
  <2>4. Place(x)
    BY <1>1 DEF HookSound, Whole, Names, Place
  <2> HIDE DEF x
  <2>5. h' = [h EXCEPT ![p] = x]
    BY <2>1 DEF x
  <2> QED
    BY <1>2, <2>2, <2>3, <2>4, <2>5, TypedStep DEF HookSound, files, Typed, FilesTyped
<1> QED
  BY <1>3, <1>4

LEMMA AllInvalidatedTyped ==
  ASSUME Typed, NEW p \in Hooks, AllInvalidated(p)
  PROVE  Typed'
<1> DEFINE x == [h[p] EXCEPT !.pc = "save", !.hits = {}]
<1>1. HookSound(h[p], Len(packets)) /\ h[p].pc = "next" /\ Len(packets) \in Nat
  BY HookTyped DEF AllInvalidated
<1>2. Whole(x)
  BY <1>1 DEF HookSound, Whole
<1>3. Fields(x, Len(packets))
  BY <1>1 DEF HookSound, Whole, Names, Fields
<1>4. Place(x)
  BY <1>1 DEF HookSound, Whole, Names, Place
<1>5. /\ h' = [h EXCEPT ![p] = x] /\ UNCHANGED <<files, cache, shows, told>>
      /\ retired' = retired \cup h[p].hits
  BY DEF AllInvalidated, Become
<1>6. FilesTyped'
  BY <1>1, <1>5 DEF Typed, FilesTyped, Stored, files, HookSound, Fields
<1>7. HookSound(x, Len(packets')) /\ Len(packets) <= Len(packets') /\ CachesTyped'
  BY <1>1, <1>2, <1>3, <1>4, <1>5, <1>6, SameCaches DEF HookSound, files
<1> HIDE DEF x
<1> QED
  BY <1>5, <1>6, <1>7, TypedMove

LEMMA KillTyped ==
  ASSUME Typed, NEW p \in Hooks, Kill(p)
  PROVE  Typed'
<1>1. FilesTyped' /\ UNCHANGED packets
  BY SameFiles DEF Kill, files, Typed, FilesTyped
<1> QED
  BY <1>1, LeavingTyped DEF Kill

LEMMA StartTyped ==
  ASSUME Typed, NEW p \in Hooks, NEW s \in Sessions, NEW t \in Tools,
         PreTool(p, s, t) \/ \E edited \in Edits(t) : PostTool(p, s, t, edited)
  PROVE  Typed'
<1>1. HookSound(Idle, Len(packets)) /\ Idle.back = "none" /\ ~Idle.shown
  BY HookTyped, Blanks DEF Idle
<1>2. CASE PreTool(p, s, t)
  <2> DEFINE x == [Idle EXCEPT !.pc = "exact", !.t = t]
  <2>1. Whole(x)
    BY <1>1 DEF HookSound, Whole
  <2>2. Fields(x, Len(packets)) /\ x.pc = "exact" /\ x.back = "none" /\ ~x.shown
    BY <1>1 DEF HookSound, Whole, Names, Fields
  <2>3. Begin(p, s, x)
    BY <1>2 DEF PreTool
  <2> HIDE DEF x
  <2> QED
    BY <2>1, <2>2, <2>3, BeginTyped
<1>3. ASSUME NEW edited \in Edits(t), PostTool(p, s, t, edited) PROVE Typed'
  <2> DEFINE last == state[s].last
             on == last # None /\ state[s].tool = t
             pc == IF on THEN "read" ELSE "edit"
             id == IF on THEN last ELSE None
             task == IF on THEN "outcome" ELSE "none"
             x == [Idle EXCEPT !.t = t, !.edited = edited, !.pc = pc, !.id = id, !.task = task]
  <2>1. last \in 0..Len(packets)
    BY DEF Typed, FilesTyped, AnyStates
  <2>2. id \in 0..Len(packets) /\ (pc = "edit" \/ (pc = "read" /\ task = "outcome" /\ id # None))
    BY <2>1, HookTyped DEF None
  <2>3. Begin(p, s, x)
    BY <1>3 DEF PostTool
  <2> HIDE DEF pc, id, task
  <2>4. Whole(x)
    BY <1>1 DEF HookSound, Whole
  <2>5. /\ Fields(x, Len(packets)) /\ x.pc = pc /\ x.id = id /\ x.task = task
        /\ x.back = "none" /\ ~x.shown
    BY <1>1, <2>2 DEF HookSound, Whole, Names, Fields
  <2> HIDE DEF x
  <2> QED
    BY <2>2, <2>3, <2>4, <2>5, BeginTyped
<1> QED
  BY <1>2, <1>3

LEMMA PromptTyped ==
  ASSUME Typed, NEW p \in Hooks, NEW s \in Sessions, Prompt(p, s)
  PROVE  Typed'
<1> DEFINE x == [Idle EXCEPT !.pc = "prompt", !.t = "*"]
<1>1. HookSound(Idle, Len(packets)) /\ Idle.back = "none" /\ ~Idle.shown
  BY HookTyped, Blanks DEF Idle
<1>2. Whole(x)
  BY <1>1 DEF HookSound, Whole
<1>3. Fields(x, Len(packets)) /\ x.pc = "prompt" /\ x.back = "none" /\ ~x.shown
  BY <1>1 DEF HookSound, Whole, Names, Fields
<1>4. Begin(p, s, x)
  BY DEF Prompt
<1> HIDE DEF x
<1> QED
  BY <1>2, <1>3, <1>4, BeginTyped

LEMMA TypedInit == Init => Typed
<1> SUFFICES ASSUME Init PROVE Typed
  OBVIOUS
<1>1. packets = <<>> /\ shows = <<>> /\ Len(packets) = 0
  BY DEF Init
<1>2. 0 \in Nat /\ 0..0 = {0}
  OBVIOUS
<1>3. FilesTyped
  BY <1>1, <1>2, Blanks DEF Init, FilesTyped, Stored
<1>4. HooksTyped /\ CachesTyped
  BY <1>1, <1>2, Blanks DEF Init, HooksTyped, CachesTyped
<1> QED
  BY <1>3, <1>4 DEF Typed

LEMMA TypedNext == Typed /\ [Next]_vars => Typed'
<1> SUFFICES ASSUME Typed, [Next]_vars PROVE Typed'
  OBVIOUS
<1>1. CASE Still
  BY <1>1 DEF Still, history, Typed, FilesTyped, HooksTyped, CachesTyped, Stored
<1>2. ASSUME NEW p \in Hooks, NEW s \in Sessions, NEW t \in Tools,
             PreTool(p, s, t) \/ \E edited \in Edits(t) : PostTool(p, s, t, edited)
      PROVE  Typed'
  BY <1>2, StartTyped
<1>3. ASSUME NEW p \in Hooks, NEW s \in Sessions, Prompt(p, s) PROVE Typed'
  BY <1>3, PromptTyped
<1>4. ASSUME NEW p \in Hooks, Work(p) PROVE Typed'
  BY <1>1, <1>4, StillSteps, TidyTyped, ReadPacketTyped, WritePacketTyped, ChangeIndexTyped, WriteTmpTyped,
     ReplaceIndexTyped, ReplaceFailsTyped, LookupExactTyped, LookupRelaxedTyped, AliasTyped,
     GateTyped, EmitTyped, EmitFailsTyped, LogAdviceTyped, SaveTyped, FindEditedTyped,
     InvalidateNextTyped, UnreadTyped, AllInvalidatedTyped, SavePromptTyped DEF Work
<1>5. ASSUME NEW p \in Hooks, Kill(p) PROVE Typed'
  BY <1>5, KillTyped
<1> QED
  BY <1>1, <1>2, <1>3, <1>4, <1>5, StillSteps DEF Next

-----------------------------------------------------------------------------
(* Most steps show nothing and count nothing.                              *)

\* A hook shows nothing, is not about to change a packet, and owes a packet no
\* count it did not owe.
Passive(y, x) ==
  x.pc \notin {"emit", "log", "write"} /\ \A id : Owes(x, id) => Owes(y, id)
PassiveStep(p) ==
  /\ \E x : h' = [h EXCEPT ![p] = x] /\ Passive(h[p], x)
  /\ UNCHANGED <<packets, shows, told, repeated, logged, raced>> /\ h[p].pc # "log"

LEMMA PassiveIdle == \A y : Passive(y, Idle)
  BY DEF Passive, Owes, Idle

LEMMA PassiveIndex ==
  ASSUME Typed, NEW p \in Hooks, Tidy(p) \/ ChangeIndex(p) \/ WriteTmp(p)
  PROVE  PassiveStep(p)
<1>1. Whole(h[p]) /\ Place(h[p])
  BY DEF Typed, HooksTyped, HookSound
<1>2. UNCHANGED <<packets, shows, told, repeated, logged, raced>> /\ h[p].pc # "log"
  BY DEF Tidy, ChangeIndex, WriteTmp, files, history
<1>3. CASE Tidy(p)
  <2>1. PICK ix : h' = [h EXCEPT ![p] = [h[p] EXCEPT !.pc = "tmp", !.back = h[p].pc, !.ix = ix]]
    BY <1>3 DEF Tidy, Become
  <2> DEFINE x == [h[p] EXCEPT !.pc = "tmp", !.back = h[p].pc, !.ix = ix]
  <2>2. x.pc = "tmp" /\ x.shown = h[p].shown /\ x.id = h[p].id /\ x.task = h[p].task
    BY <1>1 DEF Whole, Names
  <2>3. h[p].pc = "index" \/ ~h[p].shown
    BY <1>1, <1>3 DEF Tidy, Place
  <2> QED
    BY <1>2, <2>1, <2>2, <2>3 DEF PassiveStep, Passive, Owes
<1>4. CASE ChangeIndex(p)
  <2> DEFINE y == [h[p] EXCEPT !.data = {}]
  <2>1. PICK ix : h' = [h EXCEPT ![p] = [y EXCEPT !.pc = "tmp", !.ix = ix]]
    BY <1>4 DEF ChangeIndex, Become, Using
  <2> DEFINE x == [y EXCEPT !.pc = "tmp", !.ix = ix]
  <2>2. x.pc = "tmp" /\ x.shown = h[p].shown /\ x.id = h[p].id /\ x.task = h[p].task
    BY <1>1 DEF Whole, Names
  <2>3. h[p].pc = "index"
    BY <1>4 DEF ChangeIndex
  <2> QED
    BY <1>2, <2>1, <2>2, <2>3 DEF PassiveStep, Passive, Owes
<1>5. CASE WriteTmp(p)
  <2> DEFINE x == [h[p] EXCEPT !.pc = "replace"]
  <2>1. h' = [h EXCEPT ![p] = x] /\ h[p].pc = "tmp"
    BY <1>5 DEF WriteTmp, Goto, Become
  <2>2. x.pc = "replace" /\ x.shown = h[p].shown /\ x.id = h[p].id /\ x.task = h[p].task
    BY <1>1 DEF Whole, Names
  <2> HIDE DEF x
  <2>3. Passive(h[p], x)
    BY <2>1, <2>2 DEF Passive, Owes
  <2> QED
    BY <1>2, <2>1, <2>3 DEF PassiveStep
<1> QED
  BY <1>3, <1>4, <1>5

LEMMA PassiveLookup ==
  ASSUME Typed, NEW p \in Hooks, LookupExact(p) \/ LookupRelaxed(p) \/ Alias(p)
  PROVE  PassiveStep(p)
<1>1. Whole(h[p]) /\ ~h[p].shown
  BY DEF Typed, HooksTyped, HookSound, Place, LookupExact, LookupRelaxed, Alias
<1> DEFINE y == [h[p] EXCEPT !.data = {}]
<1>2. Whole(y) /\ ~y.shown
  BY <1>1 DEF Whole, Names
<1>3. UNCHANGED <<packets, shows, told, repeated, logged, raced>> /\ h[p].pc # "log"
  BY DEF LookupExact, LookupRelaxed, Alias, files, history
<1>4. \A pc, id, a : LET x == [y EXCEPT !.pc = pc, !.id = id, !.advice = a] IN x.pc = pc /\ ~x.shown
  BY <1>2 DEF Whole, Names
<1>5. \A pc : LET x == [y EXCEPT !.pc = pc] IN x.pc = pc /\ ~x.shown
  BY <1>2 DEF Whole, Names
<1>6. \A a : LET x == [y EXCEPT !.pc = "gate", !.advice = a] IN x.pc = "gate" /\ ~x.shown
  BY <1>2 DEF Whole, Names
<1>7. \A ix : LET x == [y EXCEPT !.pc = "tmp", !.task = "alias", !.ix = ix] IN x.pc = "tmp" /\ ~x.shown
  BY <1>2 DEF Whole, Names
<1>8. \/ \E pc \in {"gate", "alias"} : \E id, a :
           h' = [h EXCEPT ![p] = [y EXCEPT !.pc = pc, !.id = id, !.advice = a]]
      \/ \E pc \in {"gate", "relaxed", "save"} : h' = [h EXCEPT ![p] = [y EXCEPT !.pc = pc]]
      \/ \E a : h' = [h EXCEPT ![p] = [y EXCEPT !.pc = "gate", !.advice = a]]
      \/ \E ix : h' = [h EXCEPT ![p] = [y EXCEPT !.pc = "tmp", !.task = "alias", !.ix = ix]]
  <2>1. CASE LookupExact(p)
    BY <2>1 DEF LookupExact, Become, Found, Using
  <2>2. CASE LookupRelaxed(p)
    BY <2>2 DEF LookupRelaxed, Become, Found, Using
  <2>3. CASE Alias(p)
    BY <2>3 DEF Alias, Become, Using
  <2> QED
    BY <2>1, <2>2, <2>3
<1> HIDE DEF y
<1>9. PICK x : h' = [h EXCEPT ![p] = x] /\ x.pc \notin {"emit", "log", "write"} /\ ~x.shown
  <2>1. CASE \E pc \in {"gate", "alias"} : \E id, a :
               h' = [h EXCEPT ![p] = [y EXCEPT !.pc = pc, !.id = id, !.advice = a]]
    <3>0. PICK pc \in {"gate", "alias"} :
            \E id, a : h' = [h EXCEPT ![p] = [y EXCEPT !.pc = pc, !.id = id, !.advice = a]]
      BY <2>1
    <3>1. PICK id, a : h' = [h EXCEPT ![p] = [y EXCEPT !.pc = pc, !.id = id, !.advice = a]]
      BY <3>0
    <3> DEFINE x == [y EXCEPT !.pc = pc, !.id = id, !.advice = a]
    <3>2. x.pc = pc /\ ~x.shown
      BY <1>4
    <3>3. h' = [h EXCEPT ![p] = x]
      BY <3>1
    <3> HIDE DEF x
    <3> QED
      BY <3>2, <3>3
  <2>2. CASE \E pc \in {"gate", "relaxed", "save"} : h' = [h EXCEPT ![p] = [y EXCEPT !.pc = pc]]
    BY <1>5, <2>2
  <2>3. CASE \E a : h' = [h EXCEPT ![p] = [y EXCEPT !.pc = "gate", !.advice = a]]
    BY <1>6, <2>3
  <2>4. CASE \E ix : h' = [h EXCEPT ![p] = [y EXCEPT !.pc = "tmp", !.task = "alias", !.ix = ix]]
    BY <1>7, <2>4
  <2> QED
    BY <1>8, <2>1, <2>2, <2>3, <2>4
<1> QED
  BY <1>3, <1>9 DEF PassiveStep, Passive, Owes

LEMMA PassiveSave ==
  ASSUME Typed, NEW p \in Hooks,
         \/ ReplaceIndex(p) \/ ReplaceFails(p) \/ SaveState(p) \/ FindEdited(p)
         \/ AllInvalidated(p) \/ PacketUnread(p) \/ PassOver(p) \/ EmptyLog(p)
  PROVE  PassiveStep(p)
<1>1. Whole(h[p]) /\ Place(h[p])
  BY DEF Typed, HooksTyped, HookSound
<1>2. UNCHANGED <<packets, shows, told, repeated, logged, raced>> /\ h[p].pc # "log"
  BY DEF ReplaceIndex, ReplaceFails, SaveState, FindEdited, AllInvalidated, PacketUnread,
         PassOver, EmptyLog, files, history
<1> DEFINE z == Resumed(h[p])
           w == [z EXCEPT !.pc = "save", !.todo = {}, !.hits = {}]
           y == [h[p] EXCEPT !.data = {}]
<1>3. h[p].pc = "replace" /\ ~(h[p].back = "none" /\ h[p].task = "baseline") => Passive(h[p], z)
  <2> SUFFICES ASSUME h[p].pc = "replace", ~(h[p].back = "none" /\ h[p].task = "baseline")
               PROVE  Passive(h[p], z)
    OBVIOUS
  <2>1. CASE h[p].back # "none"
    <3>1. /\ z.pc = h[p].back /\ z.id = h[p].id /\ z.shown = h[p].shown /\ z.task = h[p].task
      BY <1>1, <2>1, ResumedFields
    <3> QED
      BY <1>1, <2>1, <3>1 DEF Place, Loads, Passive, Owes
  <2>2. CASE h[p].back = "none" /\ h[p].task = "new"
    <3>1. z.pc = "read" /\ z.id = h[p].id /\ z.shown = h[p].shown
      BY <1>1, <2>2, ResumedFields
    <3> QED
      BY <2>2, <3>1 DEF Passive, Owes
  <2>3. CASE h[p].back = "none" /\ h[p].task # "new"
    <3>1. z.pc \in {"gate", "save", "edit", "next"}
      BY <1>1, <2>3, ResumedFields DEF Place, Changes, News
    <3> QED
      BY <3>1 DEF Passive, Owes
  <2> QED
    BY <2>1, <2>2, <2>3
<1>4. CASE ReplaceIndex(p)
  <2>1. \/ h' = [h EXCEPT ![p] = Idle]
        \/ h' = [h EXCEPT ![p] = z] /\ Passive(h[p], z)
    BY <1>3, <1>4 DEF ReplaceIndex, Become
  <2> QED
    BY <1>2, <2>1, PassiveIdle DEF PassiveStep
<1>5. CASE ReplaceFails(p)
  <2>1. \/ h' = [h EXCEPT ![p] = Idle]
        \/ h' = [h EXCEPT ![p] = z] /\ Passive(h[p], z)
        \/ h' = [h EXCEPT ![p] = w] /\ h[p].task = "invalid" /\ h[p].pc = "replace"
    BY <1>3, <1>5 DEF ReplaceFails, Become, Leave
  <2>2. h[p].task = "invalid" /\ h[p].pc = "replace" => Passive(h[p], w)
    <3>1. HookSound(h[p], Len(packets)) /\ Len(packets) \in Nat
      BY HookTyped
    <3>2. h[p].task = "invalid" /\ h[p].pc = "replace" => Whole(z)
      BY <3>1, ResumedSound DEF HookSound
    <3>3. h[p].task = "invalid" /\ h[p].pc = "replace" => w.pc = "save"
      BY <3>2 DEF Whole, Names
    <3> QED
      BY <3>3 DEF Passive, Owes
  <2> HIDE DEF z, w
  <2> QED
    BY <1>2, <2>1, <2>2, PassiveIdle DEF PassiveStep
<1>6. CASE SaveState(p)
  BY <1>2, <1>6, PassiveIdle DEF PassiveStep, SaveState, Leave
<1>7. CASE FindEdited(p)
  <2>1. \/ \E hits, todo : h' = [h EXCEPT ![p] = [y EXCEPT !.pc = "next", !.edited = {},
                                                           !.hits = hits, !.todo = todo]]
        \/ h' = [h EXCEPT ![p] = [y EXCEPT !.pc = "save"]]
    BY <1>7 DEF FindEdited, Become, Using
  <2>2. Whole(y)
    BY <1>1 DEF Whole
  <2>3. \A hits, todo :
          [y EXCEPT !.pc = "next", !.edited = {}, !.hits = hits, !.todo = todo].pc = "next"
    BY <2>2 DEF Whole, Names
  <2>4. [y EXCEPT !.pc = "save"].pc = "save"
    BY <2>2 DEF Whole, Names
  <2> HIDE DEF y
  <2>5. ASSUME NEW hits, NEW todo, h' = [h EXCEPT ![p] = [y EXCEPT !.pc = "next", !.edited = {},
                                                        !.hits = hits, !.todo = todo]]
        PROVE  \E x : h' = [h EXCEPT ![p] = x] /\ x.pc \in {"next", "save"}
    BY <2>3, <2>5
  <2>6. PICK x : h' = [h EXCEPT ![p] = x] /\ x.pc \in {"next", "save"}
    BY <2>1, <2>4, <2>5
  <2> QED
    BY <1>2, <2>6 DEF PassiveStep, Passive, Owes
<1>8. CASE AllInvalidated(p)
  <2> DEFINE x == [h[p] EXCEPT !.pc = "save", !.hits = {}]
  <2>1. h' = [h EXCEPT ![p] = x]
    BY <1>8 DEF AllInvalidated, Become
  <2>2. x.pc = "save"
    BY <1>1 DEF Whole, Names
  <2> HIDE DEF x
  <2> QED
    BY <1>2, <2>1, <2>2 DEF PassiveStep, Passive, Owes
<1>9. CASE PacketUnread(p)
  <2>1. h' = [h EXCEPT ![p] = z] /\ h[p].pc = "read"
    BY <1>9 DEF PacketUnread, Become
  <2>2. z.pc \in {"save", "edit"}
    BY <1>1, <2>1, ResumedFields DEF Place
  <2> HIDE DEF z
  <2> QED
    BY <1>2, <2>1, <2>2 DEF PassiveStep, Passive, Owes
<1>10. CASE PassOver(p)
  <2>1. PICK id : h' = [h EXCEPT ![p] = [h[p] EXCEPT !.todo = @ \ {id}]] /\ h[p].pc = "next"
    BY <1>10 DEF PassOver, Become
  <2> DEFINE x == [h[p] EXCEPT !.todo = @ \ {id}]
  <2>2. x.pc = "next"
    BY <1>1, <2>1 DEF Whole, Names
  <2> HIDE DEF x
  <2>3. h' = [h EXCEPT ![p] = x]
    BY <2>1 DEF x
  <2> QED
    BY <1>2, <2>2, <2>3 DEF PassiveStep, Passive, Owes
<1>11. CASE EmptyLog(p)
  <2> DEFINE x == [h[p] EXCEPT !.pc = "fill", !.lines = log]
  <2>1. h' = [h EXCEPT ![p] = x] /\ h[p].pc = "cap"
    BY <1>11 DEF EmptyLog, Become
  <2>2. x.pc = "fill" /\ x.shown = h[p].shown /\ x.id = h[p].id
    BY <1>1 DEF Whole, Names
  <2> HIDE DEF x
  <2> QED
    BY <1>2, <2>1, <2>2 DEF PassiveStep, Passive, Owes
<1> QED
  BY <1>4, <1>5, <1>6, <1>7, <1>8, <1>9, <1>10, <1>11

LEMMA PassiveGate ==
  ASSUME Typed, NEW p \in Hooks, GateBlocks(p) \/ RepeatBlocks(p)
  PROVE  PassiveStep(p)
<1>1. Whole(h[p]) /\ ~h[p].shown /\ h[p].pc \in {"gate", "emit"}
  BY DEF Typed, HooksTyped, HookSound, Place, GateBlocks, RepeatBlocks
<1>2. h' = [h EXCEPT ![p] = Suppressed(h[p])]
  BY DEF GateBlocks, RepeatBlocks, Become
<1>3. Suppressed(h[p]).pc \in {"save", "read"} /\ ~Suppressed(h[p]).shown
  BY <1>1 DEF Suppressed, Whole, Names
<1>4. UNCHANGED <<packets, shows, told, repeated, logged, raced>>
  BY DEF GateBlocks, RepeatBlocks, files, history
<1> QED
  BY <1>1, <1>2, <1>3, <1>4 DEF PassiveStep, Passive, Owes

\* A hook that begins.
Starts(p) ==
  \/ \E s \in Sessions, t \in Tools :
       PreTool(p, s, t) \/ \E edited \in Edits(t) : PostTool(p, s, t, edited)
  \/ \E s \in Sessions : Prompt(p, s)

LEMMA PassiveStart ==
  ASSUME Typed, NEW p \in Hooks, Starts(p)
  PROVE  PassiveStep(p)
<1>1. Whole(Idle) /\ ~Idle.shown
  BY Blanks DEF Idle, HookSound
<1>2. ASSUME NEW s \in Sessions, NEW hook, Whole(hook), hook.pc \in {"exact", "edit", "read", "prompt"},
             ~hook.shown, Begin(p, s, hook)
      PROVE  PassiveStep(p)
  <2> DEFINE x == [hook EXCEPT !.s = s, !.st = state[s], !.before = retired]
  <2>1. /\ h' = [h EXCEPT ![p] = x] /\ h[p].pc # "log"
        /\ UNCHANGED <<packets, shows, told, repeated, logged, raced>>
    BY <1>2 DEF Begin, Become, files
  <2>2. x.pc \in {"exact", "edit", "read", "prompt"} /\ ~x.shown
    BY <1>2 DEF Whole, Names
  <2> HIDE DEF x
  <2>3. Passive(h[p], x)
    BY <2>2 DEF Passive, Owes
  <2> QED
    BY <2>1, <2>3 DEF PassiveStep
<1>3. ASSUME NEW s \in Sessions, NEW t \in Tools, PreTool(p, s, t) PROVE PassiveStep(p)
  <2> DEFINE x == [Idle EXCEPT !.pc = "exact", !.t = t]
  <2>1. Whole(x) /\ x.pc = "exact" /\ ~x.shown
    BY <1>1 DEF Whole, Names
  <2>2. Begin(p, s, x)
    BY <1>3 DEF PreTool
  <2> HIDE DEF x
  <2> QED
    BY <1>2, <2>1, <2>2
<1>4. ASSUME NEW s \in Sessions, NEW t \in Tools, NEW edited \in Edits(t), PostTool(p, s, t, edited)
      PROVE  PassiveStep(p)
  <2> DEFINE on == state[s].last # None /\ state[s].tool = t
             pc == IF on THEN "read" ELSE "edit"
             id == IF on THEN state[s].last ELSE None
             task == IF on THEN "outcome" ELSE "none"
             x == [Idle EXCEPT !.t = t, !.edited = edited, !.pc = pc, !.id = id, !.task = task]
  <2>1. Begin(p, s, x) /\ pc \in {"read", "edit"}
    BY <1>4 DEF PostTool
  <2> HIDE DEF pc, id, task
  <2>2. Whole(x) /\ x.pc = pc /\ ~x.shown
    BY <1>1 DEF Whole, Names
  <2> HIDE DEF x
  <2> QED
    BY <1>2, <2>1, <2>2
<1>5. ASSUME NEW s \in Sessions, Prompt(p, s) PROVE PassiveStep(p)
  <2> DEFINE x == [Idle EXCEPT !.pc = "prompt", !.t = "*"]
  <2>1. Whole(x) /\ x.pc = "prompt" /\ ~x.shown
    BY <1>1 DEF Whole, Names
  <2>2. Begin(p, s, x)
    BY <1>5 DEF Prompt
  <2> HIDE DEF x
  <2> QED
    BY <1>2, <2>1, <2>2
<1> QED
  BY <1>3, <1>4, <1>5 DEF Starts

\* Where a call goes on from the log, whatever lines it has written back.
LEMMA NotedStep ==
  ASSUME Typed, NEW p \in Hooks
  PROVE  LET x == [Noted(p) EXCEPT !.lines = {}] IN
         /\ Whole(Noted(p)) /\ Whole(x) /\ x.lines = {} /\ Noted(p).lines = h[p].lines
         /\ Noted(p).pc = (IF h[p].id = None THEN "write" ELSE "read")
         /\ Noted(p).task = (IF h[p].id = None THEN "new" ELSE "usage")
         /\ x.pc = Noted(p).pc /\ x.task = Noted(p).task /\ x.st = Noted(p).st
         /\ x.copy = Noted(p).copy
         /\ \A z \in {Noted(p), x} :
              /\ z.s = h[p].s /\ z.t = h[p].t /\ z.id = h[p].id /\ z.advice = h[p].advice
              /\ z.shown = h[p].shown /\ z.seen = h[p].seen /\ z.ix = h[p].ix /\ z.back = h[p].back
              /\ z.data = h[p].data /\ z.edited = h[p].edited /\ z.hits = h[p].hits
              /\ z.todo = h[p].todo /\ z.before = h[p].before
<1> DEFINE y == Noted(p)
           x == [y EXCEPT !.lines = {}]
           kept(z) ==
             /\ z.s = h[p].s /\ z.t = h[p].t /\ z.id = h[p].id /\ z.advice = h[p].advice
             /\ z.shown = h[p].shown /\ z.seen = h[p].seen /\ z.ix = h[p].ix /\ z.back = h[p].back
             /\ z.data = h[p].data /\ z.edited = h[p].edited /\ z.hits = h[p].hits
             /\ z.todo = h[p].todo /\ z.before = h[p].before
<1>1. Whole(h[p])
  BY HookTyped DEF HookSound
<1>2. /\ Whole(y) /\ kept(y) /\ y.lines = h[p].lines
      /\ y.pc = (IF h[p].id = None THEN "write" ELSE "read")
      /\ y.task = (IF h[p].id = None THEN "new" ELSE "usage")
  <2>1. CASE h[p].id = None
    <3> DEFINE copy == NewPacket(Key(p), h[p].advice)
    <3>1. y = [h[p] EXCEPT !.pc = "write", !.task = "new", !.copy = copy]
      BY <2>1 DEF Noted, Built
    <3> HIDE DEF y, copy
    <3>2. Whole(y)
      BY <1>1, <3>1 DEF Whole
    <3> QED
      BY <1>1, <2>1, <3>1, <3>2 DEF Whole, Names
  <2>2. CASE h[p].id # None
    <3>1. y = [h[p] EXCEPT !.pc = "read", !.task = "usage", !.st.last = h[p].id, !.st.tool = h[p].t]
      BY <2>2 DEF Noted
    <3> HIDE DEF y
    <3>2. Whole(y)
      BY <1>1, <3>1 DEF Whole
    <3> QED
      BY <1>1, <2>2, <3>1, <3>2 DEF Whole, Names
  <2> QED
    BY <2>1, <2>2
<1> HIDE DEF y
<1>3. /\ Whole(x) /\ x.lines = {} /\ x.pc = y.pc /\ x.task = y.task /\ x.st = y.st
      /\ x.copy = y.copy
  BY <1>2 DEF Whole, Names
<1>4. kept(x)
  BY <1>2 DEF Whole, Names
<1> HIDE DEF x
<1> QED
  BY <1>2, <1>3, <1>4 DEF x, y

\* The rest write a packet, show, log or look into the log, or die.
Active(p) ==
  \/ ReadPacket(p) \/ WritePacket(p) \/ InvalidateNext(p) \/ SavePrompt(p)
  \/ Dedupe(p) \/ Emit(p) \/ EmitFails(p) \/ LogAdvice(p) \/ FillLog(p) \/ Kill(p)

LEMMA PassiveOrActive ==
  ASSUME Typed, Next
  PROVE  Still \/ \E p \in Hooks : PassiveStep(p) \/ Active(p)
<1>1. PICK p \in Hooks : Starts(p) \/ Work(p) \/ Kill(p)
  BY DEF Next, Starts
<1> QED
  BY <1>1, StillSteps, PassiveStart, PassiveIndex, PassiveLookup, PassiveSave, PassiveGate DEF Work, Active

-----------------------------------------------------------------------------
(* Advice is shown once.                                                   *)

\* A step after which its hook is not showing anything.
LEMMA OnceQuiet ==
  ASSUME OnceInv, HooksTyped, NEW p \in Hooks, NEW x, h' = [h EXCEPT ![p] = x],
         UNCHANGED <<told, repeated>>, logged \subseteq logged', raced \subseteq raced',
         ~Showing(x), h[p].pc = "log" => h[p].advice \in raced' \cup logged'
  PROVE  OnceInv'
<1>1. h'[p] = x /\ \A q \in Hooks : q # p => h'[q] = h[q]
  BY DEF HooksTyped
<1>2. repeated' \subseteq raced'
  BY DEF OnceInv
<1>3. ASSUME NEW s \in Sessions, NEW a \in told[s] \ (raced' \cup logged')
      PROVE  \E q \in Hooks : h'[q].pc = "log" /\ h'[q].advice = a
  <2>1. PICK q \in Hooks : h[q].pc = "log" /\ h[q].advice = a
    BY <1>3 DEF OnceInv
  <2>2. q # p
    BY <1>3, <2>1
  <2> QED
    BY <1>1, <2>1, <2>2
<1>4. ASSUME NEW q \in Hooks, NEW r \in Hooks, q # r, Showing(h'[q]), Showing(h'[r]),
             h'[q].advice = h'[r].advice
      PROVE  h'[q].advice \in raced'
  BY <1>1, <1>4 DEF OnceInv
<1>5. ASSUME NEW q \in Hooks, h'[q].pc = "emit"
      PROVE  h'[q].advice \in raced' \/ \A s \in Sessions : h'[q].advice \notin told'[s]
  BY <1>1, <1>5 DEF OnceInv, Showing
<1> QED
  BY <1>2, <1>3, <1>4, <1>5 DEF OnceInv

LEMMA OnceDedupe ==
  ASSUME OnceInv, Typed, NEW p \in Hooks, Dedupe(p)
  PROVE  OnceInv'
<1> DEFINE a == h[p].advice
           x == [h[p] EXCEPT !.pc = IF a \in log THEN "save" ELSE "emit"]
<1>1. h' = [h EXCEPT ![p] = x] /\ UNCHANGED <<told, repeated, logged>> /\ raced \subseteq raced'
  BY DEF Dedupe, Goto, Become
<1>2. Whole(h[p]) /\ HooksTyped /\ h[p].pc = "gate"
  BY DEF Typed, HooksTyped, HookSound, Dedupe
<1>3. x.pc = (IF a \in log THEN "save" ELSE "emit") /\ x.advice = a
  BY <1>2 DEF Whole, Names
<1> HIDE DEF x
<1>4. CASE a \in log
  BY <1>1, <1>2, <1>3, <1>4, OnceQuiet DEF Showing
<1>5. CASE a \notin log
  <2>1. h'[p] = x /\ \A q \in Hooks : q # p => h'[q] = h[q]
    BY <1>1, <1>2 DEF HooksTyped
  <2>2. \A q \in Hooks : q # p /\ Showing(h[q]) /\ h[q].advice = a => a \in raced'
    BY DEF Dedupe, Others, Showing
  <2>3. repeated' \subseteq raced'
    BY <1>1 DEF OnceInv
  <2>4. ASSUME NEW s \in Sessions, NEW b \in told[s] \ (raced' \cup logged)
        PROVE  \E q \in Hooks : h'[q].pc = "log" /\ h'[q].advice = b
    <3>1. PICK q \in Hooks : h[q].pc = "log" /\ h[q].advice = b
      BY <1>1, <2>4 DEF OnceInv
    <3> QED
      BY <1>2, <2>1, <3>1
  <2>5. ASSUME NEW q \in Hooks, NEW r \in Hooks, q # r, Showing(h'[q]), Showing(h'[r]),
               h'[q].advice = h'[r].advice
        PROVE  h'[q].advice \in raced'
    BY <1>1, <1>3, <2>1, <2>2, <2>5 DEF OnceInv
  <2>6. a \in raced' \/ \A s \in Sessions : a \notin told[s]
    <3>1. CASE a \in logged
      BY <1>5, <3>1 DEF Dedupe
    <3>2. CASE \E s \in Sessions : a \in told[s] \ (raced \cup logged)
      <4>1. PICK q \in Hooks : h[q].pc = "log" /\ h[q].advice = a
        BY <3>2 DEF OnceInv
      <4> QED
        BY <1>2, <2>2, <4>1 DEF Showing
    <3> QED
      BY <1>1, <3>1, <3>2
  <2>7. ASSUME NEW q \in Hooks, h'[q].pc = "emit"
        PROVE  h'[q].advice \in raced' \/ \A s \in Sessions : h'[q].advice \notin told'[s]
    BY <1>1, <1>3, <2>1, <2>6, <2>7 DEF OnceInv
  <2> QED
    BY <1>1, <2>3, <2>4, <2>5, <2>7 DEF OnceInv
<1> QED
  BY <1>4, <1>5

LEMMA OnceEmit ==
  ASSUME OnceInv, Typed, NEW p \in Hooks, Emit(p)
  PROVE  OnceInv'
<1> DEFINE a == h[p].advice
           x == [h[p] EXCEPT !.pc = "log", !.shown = TRUE, !.st.shown = @ \cup {a}]
<1>1. /\ h' = [h EXCEPT ![p] = x] /\ UNCHANGED <<logged, raced>>
      /\ told' = [told EXCEPT ![h[p].s] = @ \cup {a}]
      /\ repeated' = IF \E s \in Sessions : a \in told[s] THEN repeated \cup {a} ELSE repeated
  BY DEF Emit, Become, files
<1>2. Whole(h[p]) /\ HooksTyped /\ h[p].pc = "emit"
  BY DEF Typed, HooksTyped, HookSound, Emit
<1>3. x.pc = "log" /\ x.advice = a
  BY <1>2 DEF Whole, Names
<1> HIDE DEF x
<1>4. h'[p] = x /\ \A q \in Hooks : q # p => h'[q] = h[q]
  BY <1>1, <1>2 DEF HooksTyped
<1>5. \A s \in Sessions : told'[s] \subseteq told[s] \cup {a}
  BY <1>1 DEF Typed, FilesTyped
<1>6. a \in raced \/ \A s \in Sessions : a \notin told[s]
  BY <1>2 DEF OnceInv
<1>7. repeated' \subseteq raced'
  BY <1>1, <1>6 DEF OnceInv
<1>8. ASSUME NEW s \in Sessions, NEW b \in told'[s] \ (raced \cup logged)
      PROVE  \E q \in Hooks : h'[q].pc = "log" /\ h'[q].advice = b
  <2>1. CASE b = a
    BY <1>3, <1>4, <2>1
  <2>2. CASE b # a
    <3>1. PICK q \in Hooks : h[q].pc = "log" /\ h[q].advice = b
      BY <1>5, <1>8, <2>2 DEF OnceInv
    <3> QED
      BY <1>2, <1>4, <3>1
  <2> QED
    BY <2>1, <2>2
<1>9. ASSUME NEW q \in Hooks, NEW r \in Hooks, q # r, Showing(h'[q]), Showing(h'[r]),
             h'[q].advice = h'[r].advice
      PROVE  h'[q].advice \in raced
  <2>1. Showing(h[q]) /\ Showing(h[r]) /\ h'[q].advice = h[q].advice /\ h'[r].advice = h[r].advice
    BY <1>2, <1>3, <1>4, <1>9 DEF Showing
  <2> QED
    BY <1>9, <2>1 DEF OnceInv
<1>10. ASSUME NEW q \in Hooks, h'[q].pc = "emit"
       PROVE  h'[q].advice \in raced \/ \A s \in Sessions : h'[q].advice \notin told'[s]
  <2>1. q # p /\ h'[q] = h[q]
    BY <1>3, <1>4, <1>10
  <2>2. CASE h[q].advice = a
    BY <1>2, <1>10, <2>1, <2>2 DEF OnceInv, Showing
  <2>3. CASE h[q].advice # a
    BY <1>5, <1>10, <2>1, <2>3 DEF OnceInv
  <2> QED
    BY <2>2, <2>3
<1> QED
  BY <1>1, <1>7, <1>8, <1>9, <1>10 DEF OnceInv


LEMMA OnceActive ==
  ASSUME OnceInv, Typed, NEW p \in Hooks, Active(p)
  PROVE  OnceInv'
<1>1. Whole(h[p]) /\ HooksTyped
  BY DEF Typed, HooksTyped, HookSound
<1>2. CASE Dedupe(p) \/ Emit(p)
  BY <1>2, OnceDedupe, OnceEmit
<1>3. CASE \/ ReadPacket(p) \/ WritePacket(p) \/ InvalidateNext(p) \/ SavePrompt(p) \/ EmitFails(p)
           \/ FillLog(p)
  <2>1. UNCHANGED <<told, repeated, logged, raced>> /\ h[p].pc # "log"
    BY <1>3 DEF ReadPacket, WritePacket, InvalidateNext, SavePrompt, EmitFails, FillLog, files, history
  <2>2. PICK x : h' = [h EXCEPT ![p] = x] /\ x.pc \in {"read", "write", "index", "idle"}
    <3>1. CASE ReadPacket(p)
      <4>1. PICK a, b : h' = [h EXCEPT ![p] = [h[p] EXCEPT !.pc = "write", !.seen = a, !.copy = b]]
        BY <3>1 DEF ReadPacket, Become
      <4>2. [h[p] EXCEPT !.pc = "write", !.seen = a, !.copy = b].pc = "write"
        BY <1>1 DEF Whole, Names
      <4> QED
        BY <4>1, <4>2
    <3>2. CASE WritePacket(p)
      <4>1. PICK id : h' = [h EXCEPT ![p] = [h[p] EXCEPT !.pc = "index", !.id = id, !.seen = NoCopy]]
        BY <3>2 DEF WritePacket, Become
      <4>2. [h[p] EXCEPT !.pc = "index", !.id = id, !.seen = NoCopy].pc = "index"
        BY <1>1 DEF Whole, Names
      <4> QED
        BY <4>1, <4>2
    <3>3. CASE InvalidateNext(p)
      <4>1. PICK id \in h[p].todo :
              h' = [h EXCEPT ![p] = [h[p] EXCEPT !.pc = "write", !.task = "invalid", !.id = id,
                                       !.todo = @ \ {id}, !.seen = packets[id],
                                       !.copy = [packets[id] EXCEPT !.invalid = TRUE]]]
        BY <3>3 DEF InvalidateNext, Become
      <4>2. [h[p] EXCEPT !.pc = "write", !.task = "invalid", !.id = id,
                         !.todo = @ \ {id}, !.seen = packets[id],
                         !.copy = [packets[id] EXCEPT !.invalid = TRUE]].pc = "write"
        BY <1>1 DEF Whole, Names
      <4> QED
        BY <4>1, <4>2
    <3>4. CASE SavePrompt(p)
      <4>1. PICK c : h' = [h EXCEPT ![p] = [h[p] EXCEPT !.pc = "write", !.task = "baseline", !.copy = c]]
        BY <3>4 DEF SavePrompt, Become
      <4>2. [h[p] EXCEPT !.pc = "write", !.task = "baseline", !.copy = c].pc = "write"
        BY <1>1 DEF Whole, Names
      <4> QED
        BY <4>1, <4>2
    <3>5. CASE EmitFails(p)
      <4>1. h' = [h EXCEPT ![p] = Built(p)] \/ h' = [h EXCEPT ![p] = Idle]
        BY <3>5 DEF EmitFails, Become, Leave
      <4>2. Built(p).pc = "write" /\ Idle.pc = "idle"
        BY <1>1 DEF Built, Idle, Whole, Names
      <4> QED
        BY <4>1, <4>2
    <3>6. CASE FillLog(p)
      <4>1. h' = [h EXCEPT ![p] = [Noted(p) EXCEPT !.lines = {}]]
        BY <3>6 DEF FillLog, Become
      <4>2. [Noted(p) EXCEPT !.lines = {}].pc \in {"read", "write"}
        BY NotedStep
      <4> QED
        BY <4>1, <4>2
    <3> QED
      BY <1>3, <3>1, <3>2, <3>3, <3>4, <3>5, <3>6
  <2> QED
    BY <1>1, <2>1, <2>2, OnceQuiet DEF Showing
<1>4. CASE LogAdvice(p)
  <2>1. h' = [h EXCEPT ![p] = Noted(p)] \/ h' = [h EXCEPT ![p] = [h[p] EXCEPT !.pc = "cap"]]
    BY <1>4 DEF LogAdvice, Become, Goto
  <2>2. Noted(p).pc \in {"read", "write"} /\ [h[p] EXCEPT !.pc = "cap"].pc = "cap"
    BY <1>1, NotedStep DEF Whole, Names
  <2>3. UNCHANGED <<told, repeated, raced>> /\ logged' = logged \cup {h[p].advice}
    BY <1>4 DEF LogAdvice
  <2>4. PICK x : h' = [h EXCEPT ![p] = x] /\ ~Showing(x)
    BY <2>1, <2>2 DEF Showing
  <2> QED
    BY <1>1, <2>3, <2>4, OnceQuiet
<1>5. CASE Kill(p)
  <2>1. h' = [h EXCEPT ![p] = Idle] /\ UNCHANGED <<told, repeated, logged>> /\ raced \subseteq raced'
    BY <1>5 DEF Kill, Leave
  <2>2. h[p].pc = "log" => h[p].advice \in raced'
    BY <1>5 DEF Kill
  <2>3. ~Showing(Idle)
    BY DEF Showing, Idle
  <2> QED
    BY <1>1, <2>1, <2>2, <2>3, OnceQuiet
<1> QED
  BY <1>2, <1>3, <1>4, <1>5 DEF Active

LEMMA OnceNext == OnceInv /\ Typed /\ [Next]_vars => OnceInv'
<1> SUFFICES ASSUME OnceInv, Typed, [Next]_vars PROVE OnceInv'
  OBVIOUS
<1>1. CASE Still
  BY <1>1 DEF Still, history, OnceInv
<1>2. ASSUME NEW p \in Hooks, PassiveStep(p) PROVE OnceInv'
  <2>1. PICK x : h' = [h EXCEPT ![p] = x] /\ Passive(h[p], x)
    BY <1>2 DEF PassiveStep
  <2> QED
    BY <1>2, <2>1, OnceQuiet DEF PassiveStep, Passive, Showing, Typed
<1>3. ASSUME NEW p \in Hooks, Active(p) PROVE OnceInv'
  BY <1>3, OnceActive
<1> QED
  BY <1>1, <1>2, <1>3, StillSteps, PassiveOrActive

-----------------------------------------------------------------------------
(* A packet's count of emissions is real.                                  *)

LEMMA Counting ==
  ASSUME NEW S, NEW T, S \subseteq T, T \subseteq Hooks
  PROVE  Cardinality(S) \in Nat /\ Cardinality(T) \in Nat /\ Cardinality(S) <= Cardinality(T)
<1>1. IsFiniteSet(T)
  BY FS_Subset, AdvisoryAssumption DEF AdvisoryAssumption
<1>2. IsFiniteSet(S) /\ Cardinality(S) <= Cardinality(T)
  BY <1>1, FS_Subset
<1> QED
  BY <1>1, <1>2, FS_CardinalityType

\* What the others owe a packet does not change.
LEMMA OthersDebts ==
  ASSUME HooksTyped, NEW p \in Hooks, NEW x, h' = [h EXCEPT ![p] = x], NEW id
  PROVE  /\ Debts(h', id) \ {p} = Debts(h, id) \ {p}
         /\ Debts(h', id) = (Debts(h, id) \ {p}) \cup (IF Owes(x, id) THEN {p} ELSE {})
         /\ Debts(h, id) \subseteq Hooks /\ Debts(h', id) \subseteq Hooks
<1>1. h'[p] = x /\ \A q \in Hooks : q # p => h'[q] = h[q]
  BY DEF HooksTyped
<1>2. Debts(h', id) = {q \in Hooks : Owes(h'[q], id)}
  BY DEF Debts, Owes
<1> QED
  BY <1>1, <1>2 DEF Debts

\* A step that owes a packet nothing new, and whose copy leaves the others room.
LEMMA CountedStep ==
  ASSUME Counted, Typed, NEW p \in Hooks, NEW x, h' = [h EXCEPT ![p] = x], UNCHANGED <<packets, shows>>,
         \A id : Owes(x, id) => Owes(h[p], id),
         x.pc = "write" /\ x.task \in Changes =>
           x.copy.emits + Cardinality(Debts(h, x.id) \ {p}) <= shows[x.id]
  PROVE  Counted'
<1>1. HooksTyped
  BY DEF Typed
<1>2. \A id : Debts(h', id) \subseteq Debts(h, id) /\ Debts(h, id) \subseteq Hooks
  BY <1>1, OthersDebts DEF Debts
<1>3. ASSUME NEW id \in Stored
      PROVE  packets[id].emits + Cardinality(Debts(h', id)) <= shows[id]
  <2>1. packets[id].emits \in Nat /\ shows[id] \in Nat
    <3>1. packets[id] \in AnyPackets
      BY DEF Typed, FilesTyped, Stored
    <3> QED
      BY <3>1 DEF AnyPackets, Typed, FilesTyped, Stored
  <2>2. Cardinality(Debts(h', id)) <= Cardinality(Debts(h, id)) /\ Cardinality(Debts(h', id)) \in Nat
        /\ Cardinality(Debts(h, id)) \in Nat
    BY <1>2, Counting
  <2>3. packets[id].emits + Cardinality(Debts(h, id)) <= shows[id]
    BY DEF Counted
  <2> QED
    BY <2>1, <2>2, <2>3
<1>4. ASSUME NEW q \in Hooks, h'[q].pc = "write", h'[q].task \in Changes
      PROVE  h'[q].copy.emits + Cardinality(Debts(h', h'[q].id) \ {q}) <= shows[h'[q].id]
  <2>1. CASE q = p
    <3>1. h'[p] = x /\ Debts(h', x.id) \ {p} = Debts(h, x.id) \ {p}
      BY <1>1, OthersDebts DEF HooksTyped
    <3> QED
      BY <1>4, <2>1, <3>1
  <2>2. CASE q # p
    <3>1. h'[q] = h[q]
      BY <1>1, <2>2 DEF HooksTyped
    <3>2. HookSound(h[q], Len(packets)) /\ Len(packets) \in Nat
      BY HookTyped
    <3>3. h[q].id \in 1..Len(packets)
      BY <1>4, <3>1, <3>2 DEF HookSound, Fields, Place, Changes, News, None
    <3>4. h[q].copy.emits \in Nat /\ shows[h[q].id] \in Nat
      <4>1. h[q].copy \in AnyPackets
        BY <3>2 DEF HookSound, Fields
      <4>2. shows[h[q].id] \in Nat
        BY <3>3 DEF Typed, FilesTyped
      <4> QED
        BY <4>1, <4>2 DEF AnyPackets
    <3>5. h[q].copy.emits + Cardinality(Debts(h, h[q].id) \ {q}) <= shows[h[q].id]
      BY <1>4, <3>1 DEF Counted
    <3>6. /\ Cardinality(Debts(h', h[q].id) \ {q}) <= Cardinality(Debts(h, h[q].id) \ {q})
          /\ Cardinality(Debts(h', h[q].id) \ {q}) \in Nat
          /\ Cardinality(Debts(h, h[q].id) \ {q}) \in Nat
      BY <1>2, Counting
    <3>7. h[q].copy.emits + Cardinality(Debts(h', h[q].id) \ {q}) <= shows[h[q].id]
      BY <3>4, <3>5, <3>6
    <3> QED
      BY <3>1, <3>7
  <2> QED
    BY <2>1, <2>2
<1> QED
  BY <1>3, <1>4 DEF Counted, Stored

LEMMA CountedRead ==
  ASSUME Counted, Typed, NEW p \in Hooks, ReadPacket(p)
  PROVE  Counted'
<1> DEFINE id == h[p].id
           packet == packets[id]
           copy == Changed(h[p], packet)
           x == [h[p] EXCEPT !.pc = "write", !.seen = packet, !.copy = copy]
<1>1. h' = [h EXCEPT ![p] = x] /\ UNCHANGED <<packets, shows>> /\ h[p].pc = "read"
  BY DEF ReadPacket, Become, files, history
<1>2. HookSound(h[p], Len(packets)) /\ Len(packets) \in Nat
  BY HookTyped
<1>3. /\ h[p].task \in {"usage", "outcome"} /\ id \in 1..Len(packets)
      /\ h[p].shown => h[p].task = "usage"
      /\ h[p].shown \in BOOLEAN
  BY <1>1, <1>2 DEF HookSound, Fields, Place, None
<1>4. packet \in AnyPackets
  BY <1>3 DEF Typed, FilesTyped
<1>5. packet.emits \in Nat /\ shows[id] \in Nat
  BY <1>3, <1>4 DEF AnyPackets, Typed, FilesTyped
<1>6. copy.emits = packet.emits + (IF h[p].shown THEN 1 ELSE 0)
  BY <1>3, <1>4, <1>5 DEF Changed, AnyPackets
<1> HIDE DEF copy, packet
<1>7. x.pc = "write" /\ x.id = id /\ x.task = h[p].task /\ x.copy = copy /\ x.shown = h[p].shown
  BY <1>2 DEF HookSound, Whole, Names
<1> HIDE DEF x
<1>8. packet.emits + Cardinality(Debts(h, id)) <= shows[id]
  BY <1>3 DEF Counted, Stored, packet
<1>9. copy.emits + Cardinality(Debts(h, id) \ {p}) <= shows[id]
  <2>1. IsFiniteSet(Debts(h, id)) /\ Debts(h, id) \subseteq Hooks
    BY FS_Subset, AdvisoryAssumption DEF AdvisoryAssumption, Debts
  <2>2. CASE h[p].shown
    <3>1. p \in Debts(h, id)
      BY <1>1, <2>2 DEF Debts, Owes
    <3>2. Cardinality(Debts(h, id) \ {p}) = Cardinality(Debts(h, id)) - 1 /\ Cardinality(Debts(h, id)) \in Nat
      BY <2>1, <3>1, FS_RemoveElement, FS_CardinalityType
    <3> QED
      BY <1>5, <1>6, <1>8, <2>2, <3>2
  <2>3. CASE ~h[p].shown
    <3>1. /\ Cardinality(Debts(h, id) \ {p}) <= Cardinality(Debts(h, id))
          /\ Cardinality(Debts(h, id) \ {p}) \in Nat /\ Cardinality(Debts(h, id)) \in Nat
      BY <2>1, Counting
    <3> QED
      BY <1>5, <1>6, <1>8, <2>3, <3>1
  <2> QED
    BY <2>2, <2>3
<1>10. \A j : Owes(x, j) => Owes(h[p], j)
  BY <1>1, <1>7 DEF Owes
<1>11. x.pc = "write" /\ x.task \in Changes =>
         x.copy.emits + Cardinality(Debts(h, x.id) \ {p}) <= shows[x.id]
  BY <1>7, <1>9
<1> QED
  BY <1>1, <1>10, <1>11, CountedStep

LEMMA CountedInvalidate ==
  ASSUME Counted, Typed, NEW p \in Hooks, InvalidateNext(p)
  PROVE  Counted'
<1>1. PICK id \in h[p].todo :
        h' = [h EXCEPT ![p] = [h[p] EXCEPT !.pc = "write", !.task = "invalid", !.id = id,
                                 !.todo = @ \ {id}, !.seen = packets[id],
                                 !.copy = [packets[id] EXCEPT !.invalid = TRUE]]]
  BY DEF InvalidateNext, Become
<1> DEFINE copy == [packets[id] EXCEPT !.invalid = TRUE]
           x == [h[p] EXCEPT !.pc = "write", !.task = "invalid", !.id = id, !.todo = @ \ {id},
                             !.seen = packets[id], !.copy = copy]
<1>2. HookSound(h[p], Len(packets)) /\ Len(packets) \in Nat
  BY HookTyped
<1>3. id \in Stored
  BY <1>2 DEF HookSound, Fields, Stored
<1>4. packets[id] \in AnyPackets
  BY <1>3 DEF Typed, FilesTyped, Stored
<1>5. copy.emits = packets[id].emits /\ packets[id].emits \in Nat /\ shows[id] \in Nat
  BY <1>3, <1>4 DEF AnyPackets, Typed, FilesTyped, Stored
<1> HIDE DEF copy
<1>6. x.pc = "write" /\ x.id = id /\ x.task = "invalid" /\ x.copy = copy
  BY <1>2 DEF HookSound, Whole, Names
<1>7. h' = [h EXCEPT ![p] = x] /\ UNCHANGED <<packets, shows>>
  BY <1>1 DEF InvalidateNext, files, history, copy
<1> HIDE DEF x
<1>8. /\ Cardinality(Debts(h, id) \ {p}) <= Cardinality(Debts(h, id))
      /\ Cardinality(Debts(h, id) \ {p}) \in Nat /\ Cardinality(Debts(h, id)) \in Nat
  BY Counting DEF Debts
<1>9. packets[id].emits + Cardinality(Debts(h, id)) <= shows[id]
  BY <1>3 DEF Counted
<1>10. x.copy.emits + Cardinality(Debts(h, x.id) \ {p}) <= shows[x.id]
  BY <1>5, <1>6, <1>8, <1>9
<1>11. \A j : ~Owes(x, j)
  BY <1>6 DEF Owes
<1> QED
  BY <1>7, <1>10, <1>11, CountedStep

LEMMA CountedWrite ==
  ASSUME Counted, Typed, NEW p \in Hooks, WritePacket(p)
  PROVE  Counted'
<1> DEFINE new == h[p].task \in {"new", "baseline"}
           id == IF new THEN Len(packets) + 1 ELSE h[p].id
           x == [h[p] EXCEPT !.pc = "index", !.id = id, !.seen = NoCopy]
<1>1. /\ packets' = IF new THEN Append(packets, h[p].copy) ELSE [packets EXCEPT ![id] = h[p].copy]
      /\ shows' = IF new THEN Append(shows, IF h[p].shown THEN 1 ELSE 0) ELSE shows
      /\ h' = [h EXCEPT ![p] = x] /\ h[p].pc = "write"
  BY DEF WritePacket, Become, News
<1>2. HookSound(h[p], Len(packets)) /\ Len(packets) \in Nat
  BY HookTyped
<1>3. /\ packets \in Seq(AnyPackets) /\ shows \in Seq(Nat) /\ Len(shows) = Len(packets)
      /\ HooksTyped
  BY DEF Typed, FilesTyped
<1>4. x.pc = "index" /\ x.id = id /\ x.task = h[p].task /\ x.shown = h[p].shown
  BY <1>2 DEF HookSound, Whole, Names
<1> HIDE DEF x
<1>5. h[p].copy \in AnyPackets /\ h[p].copy.emits \in Nat /\ h[p].shown \in BOOLEAN
  BY <1>2 DEF HookSound, Fields, AnyPackets
<1>6. \A j \in Stored : packets[j] \in AnyPackets /\ packets[j].emits \in Nat /\ shows[j] \in Nat
  <2>1. \A j \in Stored : packets[j] \in AnyPackets /\ shows[j] \in Nat
    BY <1>3 DEF Stored
  <2> QED
    BY <2>1 DEF AnyPackets
<1>7. \A j : /\ Debts(h', j) \ {p} = Debts(h, j) \ {p} /\ Debts(h, j) \subseteq Hooks /\ Debts(h', j) \subseteq Hooks
             /\ Debts(h', j) = (Debts(h, j) \ {p}) \cup (IF Owes(x, j) THEN {p} ELSE {})
  BY <1>1, <1>3, OthersDebts
<1>8. ASSUME NEW q \in Hooks, q # p, h[q].pc = "write", h[q].task \in Changes
      PROVE  /\ h[q].id \in Stored /\ h[q].copy.emits \in Nat
             /\ h[q].copy.emits + Cardinality(Debts(h, h[q].id) \ {q}) <= shows[h[q].id]
  <2>1. HookSound(h[q], Len(packets))
    BY HookTyped
  <2>2. h[q].id \in Stored /\ h[q].copy \in AnyPackets
    BY <1>2, <1>8, <2>1 DEF HookSound, Fields, Place, Changes, News, None, Stored
  <2> QED
    BY <1>8, <2>2 DEF Counted, AnyPackets
<1>9. CASE new
  <2>1. /\ packets' = Append(packets, h[p].copy) /\ id = Len(packets) + 1 /\ h[p].copy.emits = 0
        /\ shows' = Append(shows, IF h[p].shown THEN 1 ELSE 0)
    BY <1>1, <1>2, <1>9 DEF HookSound, Place, Changes
  <2>2. /\ \A j \in Stored : packets'[j] = packets[j] /\ shows'[j] = shows[j] /\ j # id
        /\ packets'[id] = h[p].copy /\ shows'[id] = (IF h[p].shown THEN 1 ELSE 0)
        /\ Stored' = Stored \cup {id}
    BY <1>2, <1>3, <1>5, <2>1 DEF Stored
  <2>3. \A j : j # id => Debts(h', j) \subseteq Debts(h, j)
    BY <1>4, <1>7 DEF Owes
  <2>4. ASSUME NEW j \in Stored'
        PROVE  packets'[j].emits + Cardinality(Debts(h', j)) <= shows'[j]
    <3>1. CASE j = id
      <4>1. Debts(h, id) \ {p} = {}
        <5> SUFFICES ASSUME NEW q \in Hooks, h[q].id = id PROVE FALSE
          BY DEF Debts, Owes
        <5>1. h[q].id \in 0..Len(packets)
          BY HookTyped DEF HookSound, Fields
        <5> QED
          BY <1>2, <2>1, <5>1
      <4> packets'[id].emits = 0
        BY <2>1, <2>2
      <4>2. CASE h[p].shown
        <5>1. Debts(h', id) \subseteq {p}
          BY <1>7, <4>1
        <5>2. Cardinality({p}) = 1
          BY FS_Singleton
        <5>3. Cardinality(Debts(h', id)) <= 1 /\ Cardinality(Debts(h', id)) \in Nat
          BY <5>1, <5>2, Counting
        <5>4. shows'[id] = 1
          BY <2>2, <4>2
        <5> HIDE DEF id
        <5> QED
          BY <3>1, <5>3, <5>4
      <4>3. CASE ~h[p].shown
        <5>1. Debts(h', id) = {}
          BY <1>4, <1>7, <4>1, <4>3 DEF Owes
        <5>2. shows'[id] = 0
          BY <2>2, <4>3
        <5> HIDE DEF id
        <5> QED
          BY <3>1, <5>1, <5>2, FS_EmptySet
      <4> QED
        BY <4>2, <4>3
    <3>2. CASE j # id
      <4>1. j \in Stored
        BY <2>2, <3>2
      <4>2. /\ Cardinality(Debts(h', j)) <= Cardinality(Debts(h, j))
            /\ Cardinality(Debts(h', j)) \in Nat /\ Cardinality(Debts(h, j)) \in Nat
        BY <1>7, <2>3, <3>2, Counting
      <4>3. packets[j].emits + Cardinality(Debts(h, j)) <= shows[j]
        BY <4>1 DEF Counted
      <4> QED
        BY <1>6, <2>2, <4>1, <4>2, <4>3
    <3> QED
      BY <3>1, <3>2
  <2>5. ASSUME NEW q \in Hooks, h'[q].pc = "write", h'[q].task \in Changes
        PROVE  h'[q].copy.emits + Cardinality(Debts(h', h'[q].id) \ {q}) <= shows'[h'[q].id]
    <3>1. q # p /\ h'[q] = h[q]
      BY <1>1, <1>3, <1>4, <2>5 DEF HooksTyped
    <3>2. /\ h[q].id \in Stored /\ h[q].copy.emits \in Nat
          /\ h[q].copy.emits + Cardinality(Debts(h, h[q].id) \ {q}) <= shows[h[q].id]
      BY <1>8, <2>5, <3>1
    <3>3. /\ Cardinality(Debts(h', h[q].id) \ {q}) <= Cardinality(Debts(h, h[q].id) \ {q})
          /\ Cardinality(Debts(h', h[q].id) \ {q}) \in Nat /\ Cardinality(Debts(h, h[q].id) \ {q}) \in Nat
      BY <1>7, <2>2, <2>3, <3>2, Counting
    <3> QED
      BY <1>6, <2>2, <3>1, <3>2, <3>3
  <2> QED
    BY <2>4, <2>5 DEF Counted
<1>10. CASE ~new
  <2>1. packets' = [packets EXCEPT ![id] = h[p].copy] /\ shows' = shows /\ id = h[p].id
    BY <1>1, <1>10
  <2>2. h[p].task \in Changes /\ id \in Stored
    BY <1>1, <1>2, <1>10 DEF HookSound, Fields, Place, News, None, Stored
  <2>3. /\ packets'[id] = h[p].copy /\ \A j \in Stored : j # id => packets'[j] = packets[j]
        /\ Stored' = Stored
    BY <1>3, <2>1, <2>2 DEF Stored
  <2>4. \A j : Debts(h', j) = Debts(h, j) \ {p}
    BY <1>4, <1>7, <1>10 DEF Owes
  <2>5. ASSUME NEW j \in Stored
        PROVE  packets'[j].emits + Cardinality(Debts(h', j)) <= shows[j]
    <3>1. CASE j = id
      BY <1>1, <2>1, <2>2, <2>3, <2>4, <3>1 DEF Counted
    <3>2. CASE j # id
      <4>1. /\ Cardinality(Debts(h', j)) <= Cardinality(Debts(h, j))
            /\ Cardinality(Debts(h', j)) \in Nat /\ Cardinality(Debts(h, j)) \in Nat
        BY <1>7, <2>4, Counting
      <4>2. packets[j].emits + Cardinality(Debts(h, j)) <= shows[j]
        BY DEF Counted
      <4> QED
        BY <1>6, <2>3, <3>2, <4>1, <4>2
    <3> QED
      BY <3>1, <3>2
  <2>6. ASSUME NEW q \in Hooks, h'[q].pc = "write", h'[q].task \in Changes
        PROVE  h'[q].copy.emits + Cardinality(Debts(h', h'[q].id) \ {q}) <= shows[h'[q].id]
    <3>1. q # p /\ h'[q] = h[q]
      BY <1>1, <1>3, <1>4, <2>6 DEF HooksTyped
    <3>2. /\ h[q].id \in Stored /\ h[q].copy.emits \in Nat
          /\ h[q].copy.emits + Cardinality(Debts(h, h[q].id) \ {q}) <= shows[h[q].id]
      BY <1>8, <2>6, <3>1
    <3>3. /\ Cardinality(Debts(h', h[q].id) \ {q}) <= Cardinality(Debts(h, h[q].id) \ {q})
          /\ Cardinality(Debts(h', h[q].id) \ {q}) \in Nat /\ Cardinality(Debts(h, h[q].id) \ {q}) \in Nat
      BY <1>7, <2>4, Counting
    <3> QED
      BY <1>6, <3>1, <3>2, <3>3
  <2> QED
    BY <2>1, <2>3, <2>5, <2>6 DEF Counted
<1> QED
  BY <1>9, <1>10

LEMMA CountedEmit ==
  ASSUME Counted, Typed, NEW p \in Hooks, Emit(p)
  PROVE  Counted'
<1> DEFINE id == h[p].id
           x == [h[p] EXCEPT !.pc = "log", !.shown = TRUE, !.st.shown = @ \cup {h[p].advice}]
<1>1. /\ h' = [h EXCEPT ![p] = x] /\ packets' = packets /\ h[p].pc = "emit"
      /\ shows' = IF id = None THEN shows ELSE [shows EXCEPT ![id] = @ + 1]
  BY DEF Emit, Become, files
<1>2. HookSound(h[p], Len(packets)) /\ Len(packets) \in Nat
  BY HookTyped
<1>3. x.pc = "log" /\ x.id = id
  BY <1>2 DEF HookSound, Whole, Names
<1> HIDE DEF x
<1>4. /\ packets \in Seq(AnyPackets) /\ shows \in Seq(Nat) /\ Len(shows) = Len(packets)
      /\ HooksTyped
  BY DEF Typed, FilesTyped
<1>5. \A j \in Stored : packets[j].emits \in Nat /\ shows[j] \in Nat
  <2>1. \A j \in Stored : packets[j] \in AnyPackets /\ shows[j] \in Nat
    BY <1>4 DEF Stored
  <2> QED
    BY <2>1 DEF AnyPackets
<1>6. \A j \in Stored : shows'[j] = IF j = id THEN shows[j] + 1 ELSE shows[j]
  BY <1>1, <1>2, <1>4 DEF Stored, None, HookSound, Fields
<1>7. \A j : /\ Debts(h, j) \subseteq Hooks /\ Debts(h', j) \subseteq Debts(h, j) \cup {p}
             /\ j # id => Debts(h', j) \subseteq Debts(h, j)
  <2>1. \A j : /\ Debts(h, j) \subseteq Hooks
               /\ Debts(h', j) = (Debts(h, j) \ {p}) \cup (IF Owes(x, j) THEN {p} ELSE {})
    BY <1>1, <1>4, OthersDebts
  <2>2. \A j : j # id => ~Owes(x, j)
    BY <1>3 DEF Owes
  <2> HIDE DEF id
  <2> QED
    BY <2>1, <2>2
\* A packet is owed one count more if it is this one, which was shown.
<1>8. ASSUME NEW j \in Stored, NEW S, S \subseteq Hooks, NEW T, T \subseteq S \cup {p}, j # id => T \subseteq S,
             NEW n \in Nat, n + Cardinality(S) <= shows[j]
      PROVE  n + Cardinality(T) <= shows'[j]
  <2>1. IsFiniteSet(S)
    BY <1>8, FS_Subset, AdvisoryAssumption DEF AdvisoryAssumption
  <2>2. Cardinality(S) \in Nat /\ shows[j] \in Nat
    BY <1>5, <2>1, FS_CardinalityType
  <2>3. CASE j = id
    <3>1. Cardinality(S \cup {p}) <= Cardinality(S) + 1
      BY <2>1, <2>2, FS_AddElement
    <3>2. /\ Cardinality(T) <= Cardinality(S \cup {p}) /\ Cardinality(T) \in Nat
          /\ Cardinality(S \cup {p}) \in Nat
      BY <1>8, Counting
    <3> HIDE DEF id
    <3> QED
      BY <1>6, <1>8, <2>2, <2>3, <3>1, <3>2
  <2>4. CASE j # id
    <3>1. Cardinality(T) <= Cardinality(S) /\ Cardinality(T) \in Nat
      BY <1>8, <2>4, Counting
    <3> HIDE DEF id
    <3> QED
      BY <1>6, <1>8, <2>2, <2>4, <3>1
  <2> QED
    BY <2>3, <2>4
<1>9. ASSUME NEW j \in Stored PROVE packets[j].emits + Cardinality(Debts(h', j)) <= shows'[j]
  <2>1. packets[j].emits + Cardinality(Debts(h, j)) <= shows[j]
    BY DEF Counted
  <2> QED
    BY <1>5, <1>7, <1>8, <2>1
<1>10. ASSUME NEW q \in Hooks, h'[q].pc = "write", h'[q].task \in Changes
       PROVE  h'[q].copy.emits + Cardinality(Debts(h', h'[q].id) \ {q}) <= shows'[h'[q].id]
  <2>1. q # p /\ h'[q] = h[q]
    BY <1>1, <1>3, <1>4, <1>10 DEF HooksTyped
  <2>2. HookSound(h[q], Len(packets))
    BY HookTyped
  <2>3. h[q].id \in Stored /\ h[q].copy \in AnyPackets
    BY <1>2, <1>10, <2>1, <2>2 DEF HookSound, Fields, Place, Changes, News, None, Stored
  <2>4. h[q].copy.emits \in Nat
    BY <2>3 DEF AnyPackets
  <2>5. h[q].copy.emits + Cardinality(Debts(h, h[q].id) \ {q}) <= shows[h[q].id]
    BY <1>10, <2>1 DEF Counted
  <2>6. h[q].copy.emits + Cardinality(Debts(h', h[q].id) \ {q}) <= shows'[h[q].id]
    <3>1. /\ Debts(h, h[q].id) \ {q} \subseteq Hooks
          /\ Debts(h', h[q].id) \ {q} \subseteq (Debts(h, h[q].id) \ {q}) \cup {p}
          /\ h[q].id # id => Debts(h', h[q].id) \ {q} \subseteq Debts(h, h[q].id) \ {q}
      BY <1>7
    <3> HIDE DEF id
    <3> QED
      BY <1>8, <2>3, <2>4, <2>5, <3>1
  <2> QED
    BY <2>1, <2>6
<1> QED
  BY <1>1, <1>9, <1>10 DEF Counted, Stored

LEMMA CountedNext == Counted /\ Typed /\ [Next]_vars => Counted'
<1> SUFFICES ASSUME Counted, Typed, [Next]_vars PROVE Counted'
  OBVIOUS
<1>1. CASE Still
  BY <1>1 DEF Still, history, Counted, Stored
\* A step after which its hook owes no packet, or what it owed, and is not to change one.
<1>2. ASSUME NEW p \in Hooks, NEW x, h' = [h EXCEPT ![p] = x], UNCHANGED <<packets, shows>>,
             \A id : Owes(x, id) => Owes(h[p], id), x.pc # "write" \/ x.task \notin Changes
      PROVE  Counted'
  BY <1>2, CountedStep
<1>3. ASSUME NEW p \in Hooks, PassiveStep(p) PROVE Counted'
  <2>1. PICK x : h' = [h EXCEPT ![p] = x] /\ Passive(h[p], x)
    BY <1>3 DEF PassiveStep
  <2> QED
    BY <1>2, <1>3, <2>1 DEF PassiveStep, Passive
<1>4. ASSUME NEW p \in Hooks,
             \/ SavePrompt(p) \/ Dedupe(p) \/ EmitFails(p) \/ LogAdvice(p) \/ FillLog(p) \/ Kill(p)
      PROVE  Counted'
  <2>1. Whole(h[p])
    BY DEF Typed, HooksTyped, HookSound
  <2>2. UNCHANGED <<packets, shows>>
    BY <1>4 DEF SavePrompt, Dedupe, EmitFails, LogAdvice, FillLog, Kill, files, history
  <2>3. PICK x : h' = [h EXCEPT ![p] = x] /\ (x.pc # "write" \/ x.task \notin Changes)
                 /\ \A id : Owes(x, id) => Owes(h[p], id)
    <3>1. CASE SavePrompt(p)
      <4> DEFINE x == [h[p] EXCEPT !.pc = "write", !.task = "baseline",
                                   !.copy = NewPacket(Key(p), Baseline)]
      <4>1. h' = [h EXCEPT ![p] = x]
        BY <3>1 DEF SavePrompt, Become
      <4>2. x.pc = "write" /\ x.task = "baseline"
        BY <2>1 DEF Whole, Names
      <4> HIDE DEF x
      <4> QED
        BY <4>1, <4>2 DEF Owes, Changes
    <3>2. CASE Dedupe(p)
      <4> DEFINE x == [h[p] EXCEPT !.pc = IF h[p].advice \in log THEN "save" ELSE "emit"]
      <4>1. h' = [h EXCEPT ![p] = x]
        BY <3>2 DEF Dedupe, Goto, Become
      <4>2. x.pc \in {"save", "emit"}
        BY <2>1 DEF Whole, Names
      <4> HIDE DEF x
      <4> QED
        BY <4>1, <4>2 DEF Owes
    <3>3. Built(p).pc = "write" /\ Built(p).task = "new"
      BY <2>1 DEF Built, Whole, Names
    <3>4. CASE EmitFails(p) \/ Kill(p)
      <4>1. h' = [h EXCEPT ![p] = Built(p)] \/ h' = [h EXCEPT ![p] = Idle]
        BY <3>4 DEF EmitFails, Kill, Become, Leave
      <4>2. Idle.pc = "idle"
        BY DEF Idle
      <4> QED
        BY <3>3, <4>1, <4>2 DEF Owes, Changes
    <3>5. CASE LogAdvice(p) \/ FillLog(p)
      <4> DEFINE x == [Noted(p) EXCEPT !.lines = {}]
                 y == [h[p] EXCEPT !.pc = "cap"]
      <4>1. h' = [h EXCEPT ![p] = Noted(p)] \/ h' = [h EXCEPT ![p] = x] \/ h' = [h EXCEPT ![p] = y]
        BY <3>5 DEF LogAdvice, FillLog, Become, Goto
      <4>2. /\ Noted(p).shown = h[p].shown /\ Noted(p).id = h[p].id
            /\ x.shown = h[p].shown /\ x.id = h[p].id /\ x.pc = Noted(p).pc /\ x.task = Noted(p).task
            /\ \/ Noted(p).pc = "write" /\ Noted(p).task = "new"
               \/ Noted(p).pc = "read"
        BY NotedStep
      <4>3. y.pc = "cap" /\ y.shown = h[p].shown /\ y.id = h[p].id
        BY <2>1 DEF Whole, Names
      <4>4. h[p].pc \in {"log", "fill"}
        BY <3>5 DEF LogAdvice, FillLog
      <4> HIDE DEF x, y
      <4>5. ASSUME NEW z, z \in {Noted(p), x, y}
            PROVE  /\ z.pc # "write" \/ z.task \notin Changes
                   /\ \A id : Owes(z, id) => Owes(h[p], id)
        BY <4>2, <4>3, <4>4, <4>5 DEF Owes, Changes
      <4> QED
        BY <4>1, <4>5
    <3> QED
      BY <1>4, <3>1, <3>2, <3>4, <3>5
  <2> QED
    BY <1>2, <2>2, <2>3
<1>5. ASSUME NEW p \in Hooks, Active(p) PROVE Counted'
  BY <1>4, <1>5, CountedRead, CountedWrite, CountedInvalidate, CountedEmit DEF Active
<1> QED
  BY <1>1, <1>3, <1>5, StillSteps, PassiveOrActive

-----------------------------------------------------------------------------
(* An invalidated packet is not shown.                                     *)

LEMMA GoneAreStored ==
  ASSUME Typed
  PROVE  Gone(h, retired) \subseteq Stored /\ retired \subseteq Gone(h, retired) /\ None \notin retired
<1>1. \A p \in Hooks : Done(h[p]) \subseteq Stored
  BY HookTyped DEF Done, HookSound, Fields, Stored
<1>2. retired \subseteq Stored /\ None \notin Stored
  BY DEF Typed, FilesTyped, Stored, None
<1> QED
  BY <1>1, <1>2 DEF Gone

LEMMA GoneAfter ==
  ASSUME HooksTyped, NEW p \in Hooks, NEW x, h' = [h EXCEPT ![p] = x], NEW old
  PROVE  Gone(h', old) \subseteq Gone(h, old) \cup Done(x)
<1>1. \A q \in Hooks : h'[q] = IF q = p THEN x ELSE h[q]
  BY DEF HooksTyped
<1> QED
  BY <1>1 DEF Gone

\* A step of one hook while the index stays as it is.
LEMMA StaleMove ==
  ASSUME StaleInv, Typed, NEW p \in Hooks, NEW x, h' = [h EXCEPT ![p] = x],
         UNCHANGED index, ~stale', retired \subseteq retired', retired' \subseteq Gone(h, retired),
         Done(x) \subseteq Gone(h, retired),
         \A id \in Stored : packets[id].invalid => packets'[id].invalid,
         \A q \in Hooks : q # p => cache'[q] = cache[q],
         Careful(x, cache'[p], index, packets', Gone(h, retired), retired')
  PROVE  StaleInv'
<1> DEFINE gone == Gone(h, retired)
           after == Gone(h', retired')
<1>1. h'[p] = x /\ \A q \in Hooks : q # p => h'[q] = h[q]
  BY DEF Typed, HooksTyped
<1>2. after \subseteq gone
  BY <1>1 DEF Gone
<1>3. gone \subseteq Stored
  BY GoneAreStored
<1>4. \A id \in after : packets'[id].invalid /\ id \notin index'.fresh
  BY <1>2, <1>3 DEF StaleInv
<1>5. ASSUME NEW q \in Hooks, q # p
      PROVE  Careful(h[q], cache[q], index, packets', after, retired')
  <2>1. Careful(h[q], cache[q], index, packets, gone, retired)
    BY DEF StaleInv
  <2>2. h[q].pc # "write" => \A id \in Current(h[q]) : packets'[id].invalid
    <3>1. HookSound(h[q], Len(packets)) /\ Len(packets) \in Nat
      BY HookTyped
    <3>2. h[q].pc # "write" => Current(h[q]) \subseteq Stored
      <4>1. CASE h[q].pc \in Saves /\ h[q].back # "none" /\ h[q].back # "index"
        <5>1. h[q].task = "none"
          BY <2>1, <3>1, <4>1 DEF Careful, HookSound, Place, Loads, Seeks
        <5> QED
          BY <5>1 DEF Current
      <4>2. CASE ~(h[q].pc \in Saves /\ h[q].back # "none" /\ h[q].back # "index")
        <5>1. h[q].pc \in {"index", "tmp", "replace"} => h[q].id # None
          BY <3>1, <4>2 DEF HookSound, Place, Saves
        <5>2. h[q].id \in 0..Len(packets)
          BY <3>1 DEF HookSound, Fields
        <5> QED
          BY <3>1, <5>1, <5>2 DEF Current, Stored, None
      <4> QED
        BY <4>1, <4>2
    <3> QED
      BY <2>1, <3>2 DEF Careful
  <2> HIDE DEF gone, after
  <2> QED
    BY <1>2, <2>1, <2>2 DEF Careful
<1>6. Careful(x, cache'[p], index, packets', after, retired')
  <2> HIDE DEF gone, after
  <2> QED
    BY <1>2 DEF Careful, gone
<1>7. \A q \in Hooks : Careful(h'[q], cache'[q], index', packets', after, retired')
  BY <1>1, <1>5, <1>6
<1> QED
  BY <1>4, <1>7 DEF StaleInv

\* What a hook loads offers nothing that was retired when it began, and is the
\* index if it keeps it.
LEMMA LoadedFresh ==
  ASSUME StaleInv, Typed, NEW p \in Hooks, h[p].pc \in Loads
  PROVE  /\ Loaded(p).fresh \cap h[p].before = {}
         /\ h[p].data = {} \/ cache[p] # {} => Loaded(p) = index
         /\ index.fresh \cap Gone(h, retired) = {} /\ h[p].before \subseteq Gone(h, retired)
<1>1. Careful(h[p], cache[p], index, packets, Gone(h, retired), retired)
  BY DEF StaleInv
<1>2. index.fresh \cap Gone(h, retired) = {} /\ h[p].before \subseteq Gone(h, retired)
  BY <1>1, GoneAreStored DEF StaleInv, Careful
<1>3. cache[p] \in {{}, {index}} /\ h[p].data # {} => cache[p] \in {{}, h[p].data}
  BY <1>1 DEF Careful, Loads, Saves
<1>4. Loaded(p) \in (IF h[p].data # {} THEN h[p].data ELSE IF cache[p] # {} THEN cache[p] ELSE {index})
  BY LoadedTyped
<1>5. h[p].data = {} \/ cache[p] # {} => Loaded(p) = index
  BY <1>1, <1>3, <1>4 DEF Careful, Loads, Saves
<1>6. Loaded(p).fresh \cap h[p].before = {}
  BY <1>1, <1>2, <1>4, <1>5 DEF Careful
<1> QED
  BY <1>2, <1>5, <1>6

\* The index it keeps is the file's, or the one it is about to save.
LEMMA KeptIndex ==
  ASSUME StaleInv, Typed, NEW p \in Hooks, h[p].pc \in Loads, NEW ix, Keep(p, ix)
  PROVE  /\ cache'[p] = {} \/ (cache'[p] = {ix} /\ Loaded(p) = index)
         /\ \A q \in Hooks : q # p => cache'[q] = cache[q]
  BY LoadedFresh DEF Keep, Typed, CachesTyped

\* A hook that saves nothing, has nothing at hand and does not change a packet.
LEMMA CarefulAtRest ==
  ASSUME NEW y, NEW c, NEW i, NEW pk, NEW gone, NEW old, NEW x,
         Careful(y, c, i, pk, gone, old), y.pc \notin Saves,
         x.before = y.before, x.hits = y.hits, x.todo \subseteq x.hits, x.data = {},
         x.back = "none", x.pc \notin Saves \cup Seeks \cup {"gate", "emit", "edit"},
         x.pc = "write" /\ x.task \in Changes => x.copy.invalid \/ (~x.seen.invalid /\ x.task # "invalid"),
         x.pc # "write" => Current(x) = {}
  PROVE  Careful(x, c, i, pk, gone, old)
  BY DEF Careful, Seeks

LEMMA CarefulIdle ==
  ASSUME NEW c, NEW i, NEW pk, NEW gone, NEW old, c \in {{}, {i}}
  PROVE  Careful(Idle, c, i, pk, gone, old) /\ Done(Idle) = {}
  BY DEF Careful, Done, Current, Idle, Loads, Saves, Seeks, None

LEMMA StaleHook ==
  ASSUME StaleInv, Typed, NEW p \in Hooks
  PROVE  /\ HookSound(h[p], Len(packets)) /\ Len(packets) \in Nat
         /\ Careful(h[p], cache[p], index, packets, Gone(h, retired), retired)
         /\ Done(h[p]) \subseteq Gone(h, retired)
         /\ h[p].pc \notin Saves => cache[p] \in {{}, {index}}
         /\ h[p].pc \notin Loads => h[p].data = {}
  BY HookTyped DEF StaleInv, Gone, Careful

LEMMA StaleStep ==
  ASSUME StaleInv, Typed, NEW p \in Hooks, NEW x, h' = [h EXCEPT ![p] = x],
         UNCHANGED <<packets, index, retired, stale>>, Done(x) \subseteq Gone(h, retired),
         \A q \in Hooks : q # p => cache'[q] = cache[q],
         Careful(x, cache'[p], index, packets, Gone(h, retired), retired)
  PROVE  StaleInv'
  BY StaleMove, GoneAreStored DEF StaleInv

\* A hook that ends, or comes to rest, with the edit it was on.
LEMMA StaleLeave ==
  ASSUME StaleInv, Typed, NEW p \in Hooks, Leave(p), UNCHANGED <<packets, index, retired, stale>>
  PROVE  StaleInv'
<1>1. Careful(Idle, {}, index, packets, Gone(h, retired), retired) /\ Done(Idle) = {}
  BY CarefulIdle
<1>2. cache'[p] = {} /\ \A q \in Hooks : q # p => cache'[q] = cache[q]
  BY DEF Leave, Typed, CachesTyped
<1> QED
  BY <1>1, <1>2, StaleStep DEF Leave

LEMMA StaleRest ==
  ASSUME StaleInv, Typed, NEW p \in Hooks, NEW x, h' = [h EXCEPT ![p] = x],
         UNCHANGED <<packets, index, retired, stale, cache>>,
         h[p].pc \notin Saves \cup Loads, Current(h[p]) = {}, Current(x) = {},
         x.before = h[p].before, x.hits = h[p].hits, x.todo = h[p].todo, x.data = h[p].data,
         x.back = "none", x.pc \notin Saves \cup Seeks \cup {"gate", "emit", "edit"},
         x.pc = "write" /\ x.task \in Changes => x.copy.invalid \/ (~x.seen.invalid /\ x.task # "invalid")
  PROVE  StaleInv'
<1>1. /\ Careful(h[p], cache[p], index, packets, Gone(h, retired), retired)
      /\ Done(h[p]) \subseteq Gone(h, retired) /\ x.data = {}
  BY StaleHook
<1>2. Done(x) \subseteq Gone(h, retired)
  BY <1>1 DEF Done
<1>3. x.todo \subseteq x.hits
  BY <1>1 DEF Careful
<1>4. Careful(x, cache[p], index, packets, Gone(h, retired), retired)
  BY <1>1, <1>3, CarefulAtRest
<1> QED
  BY <1>2, <1>4, StaleStep

LEMMA StaleRead ==
  ASSUME StaleInv, Typed, NEW p \in Hooks, ReadPacket(p)
  PROVE  StaleInv'
<1> DEFINE packet == packets[h[p].id]
           copy == Changed(h[p], packet)
           x == [h[p] EXCEPT !.pc = "write", !.seen = packet, !.copy = copy]
<1>1. /\ h' = [h EXCEPT ![p] = x] /\ UNCHANGED <<packets, index, retired, stale, cache>>
      /\ h[p].pc = "read"
  BY DEF ReadPacket, Become, files, history
<1>2. HookSound(h[p], Len(packets)) /\ h[p].id # None
  BY <1>1, HookTyped DEF HookSound, Place
<1>3. h[p].task \in {"usage", "outcome"} /\ packet \in AnyPackets /\ h[p].back = "none"
  BY <1>1, <1>2, HookTyped DEF HookSound, Place, Loads
<1>4. copy.invalid = packet.invalid /\ packet.invalid \in BOOLEAN
  BY <1>3 DEF Changed, AnyPackets
<1> HIDE DEF copy, packet
<1>5. /\ x.pc = "write" /\ x.task = h[p].task /\ x.copy = copy /\ x.seen = packet /\ x.back = "none"
      /\ x.before = h[p].before /\ x.hits = h[p].hits /\ x.todo = h[p].todo /\ x.data = h[p].data
  BY <1>2, <1>3 DEF HookSound, Whole, Names
<1> HIDE DEF x
<1>6. Current(h[p]) = {} /\ Current(x) = {}
  BY <1>3, <1>5 DEF Current
<1> QED
  BY <1>1, <1>3, <1>4, <1>5, <1>6, StaleRest DEF Loads, Saves, Seeks

LEMMA StaleGate ==
  ASSUME StaleInv, Typed, NEW p \in Hooks,
         \/ GateBlocks(p) \/ RepeatBlocks(p) \/ EmitFails(p) \/ SavePrompt(p)
  PROVE  StaleInv'
<1>1. /\ Whole(h[p]) /\ h[p].pc \in {"gate", "emit", "prompt"} /\ h[p].back = "none"
      /\ UNCHANGED <<packets, index, retired, stale>>
  BY HookTyped DEF HookSound, Place, Loads, GateBlocks, RepeatBlocks, EmitFails, SavePrompt,
                   files, history
<1>2. CASE EmitFails(p) /\ h[p].id # None
  BY <1>1, <1>2, StaleLeave DEF EmitFails
<1>3. CASE ~(EmitFails(p) /\ h[p].id # None)
  <2> DEFINE a(pc) == [h[p] EXCEPT !.pc = pc]
             b == [h[p] EXCEPT !.pc = "read", !.task = "usage"]
             c == [h[p] EXCEPT !.pc = "write", !.task = "baseline", !.copy = NewPacket(Key(p), Baseline)]
  <2>1. UNCHANGED cache /\ \E x \in {a("save"), b, Built(p), c} : h' = [h EXCEPT ![p] = x]
    BY <1>3 DEF GateBlocks, RepeatBlocks, EmitFails, SavePrompt, files, Become, Suppressed
  <2>2. \A x \in {a("save"), b, Built(p), c} :
          /\ x.pc \in {"save", "read", "write"} /\ (x.pc = "write" => x.task \in News)
          /\ x.before = h[p].before /\ x.hits = h[p].hits /\ x.todo = h[p].todo /\ x.data = h[p].data
          /\ x.back = "none"
    <3>1. LET x == a("save") IN
          /\ x.pc = "save"
          /\ x.before = h[p].before /\ x.hits = h[p].hits /\ x.todo = h[p].todo /\ x.data = h[p].data
          /\ x.back = "none"
      BY <1>1 DEF Whole, Names
    <3>2. /\ b.pc = "read"
          /\ b.before = h[p].before /\ b.hits = h[p].hits /\ b.todo = h[p].todo /\ b.data = h[p].data
          /\ b.back = "none"
      BY <1>1 DEF Whole, Names
    <3>3. LET x == Built(p) IN
          /\ x.pc = "write" /\ x.task = "new"
          /\ x.before = h[p].before /\ x.hits = h[p].hits /\ x.todo = h[p].todo /\ x.data = h[p].data
          /\ x.back = "none"
      BY <1>1 DEF Whole, Names, Built
    <3>4. /\ c.pc = "write" /\ c.task = "baseline"
          /\ c.before = h[p].before /\ c.hits = h[p].hits /\ c.todo = h[p].todo /\ c.data = h[p].data
          /\ c.back = "none"
      BY <1>1 DEF Whole, Names
    <3> HIDE DEF a, b, c
    <3> QED
      BY <3>1, <3>2, <3>3, <3>4 DEF News
  <2> HIDE DEF a, b, c
  <2>3. PICK x : /\ h' = [h EXCEPT ![p] = x]
                 /\ x.pc \in {"save", "read", "write"} /\ (x.pc = "write" => x.task \in News)
                 /\ x.before = h[p].before /\ x.hits = h[p].hits /\ x.todo = h[p].todo
                 /\ x.data = h[p].data /\ x.back = "none"
    BY <2>1, <2>2
  <2>4. Current(h[p]) = {} /\ Current(x) = {}
    BY <1>1, <2>3 DEF Current, News
  <2> QED
    BY <1>1, <2>1, <2>3, <2>4, StaleRest DEF Loads, Saves, Seeks, News, Changes
<1> QED
  BY <1>2, <1>3

LEMMA StaleLog ==
  ASSUME StaleInv, Typed, NEW p \in Hooks, LogAdvice(p) \/ EmptyLog(p) \/ FillLog(p)
  PROVE  StaleInv'
<1> DEFINE a == [h[p] EXCEPT !.pc = "cap"]
           b == [h[p] EXCEPT !.pc = "fill", !.lines = log]
           c == [Noted(p) EXCEPT !.lines = {}]
           good(x) == /\ x.pc \in {"cap", "fill", "read", "write"} /\ (x.pc = "write" => x.task \in News)
                      /\ x.before = h[p].before /\ x.hits = h[p].hits /\ x.todo = h[p].todo
                      /\ x.data = h[p].data /\ x.back = "none"
<1>1. /\ Whole(h[p]) /\ h[p].pc \in {"log", "cap", "fill"} /\ h[p].back = "none"
      /\ UNCHANGED <<packets, index, retired, stale, cache>>
  BY HookTyped DEF HookSound, Place, Loads, LogAdvice, EmptyLog, FillLog, history
<1>2. good(a) /\ good(b)
  BY <1>1 DEF Whole, Names
<1>3. good(Noted(p)) /\ good(c)
  BY <1>1, NotedStep DEF News
<1>4. h' = [h EXCEPT ![p] = a] \/ h' = [h EXCEPT ![p] = b] \/ h' = [h EXCEPT ![p] = c]
      \/ h' = [h EXCEPT ![p] = Noted(p)]
  BY DEF LogAdvice, EmptyLog, FillLog, Become, Goto
<1> HIDE DEF a, b, c
<1>5. PICK x : h' = [h EXCEPT ![p] = x] /\ good(x)
  BY <1>2, <1>3, <1>4
<1>6. Current(h[p]) = {} /\ Current(x) = {}
  BY <1>1, <1>5 DEF Current, News
<1> QED
  BY <1>1, <1>5, <1>6, StaleRest DEF Loads, Saves, Seeks, News, Changes

\* A packet that cannot be read leaves what was gone as it was.
LEMMA StaleUnread ==
  ASSUME StaleInv, Typed, NEW p \in Hooks, PacketUnread(p)
  PROVE  StaleInv'
<1> DEFINE x == Resumed(h[p])
           gone == Gone(h, retired)
<1>1. /\ h' = [h EXCEPT ![p] = x] /\ UNCHANGED <<packets, index, retired, stale, cache>>
      /\ h[p].pc = "read"
  BY DEF PacketUnread, Become, files, history
<1>2. /\ HookSound(h[p], Len(packets)) /\ Careful(h[p], cache[p], index, packets, gone, retired)
      /\ Done(h[p]) \subseteq gone /\ h[p].data = {} /\ cache[p] \in {{}, {index}}
  BY <1>1, StaleHook DEF Loads, Saves
<1>3. h[p].task \in {"usage", "outcome"} /\ h[p].back = "none" /\ Whole(h[p])
  BY <1>1, <1>2 DEF HookSound, Place
<1>4. /\ x.pc \in {"save", "edit"} /\ x.task = "none" /\ x.back = "none" /\ x.data = {}
      /\ x.before = h[p].before /\ x.hits = h[p].hits /\ x.todo = h[p].todo
  BY <1>2, <1>3, ResumedFields
<1> HIDE DEF x, gone
<1>5. Done(x) \subseteq gone
  BY <1>1, <1>2, <1>4 DEF Done, Current
<1>6. Careful(x, cache[p], index, packets, gone, retired)
  BY <1>2, <1>4 DEF Careful, Current, Saves, Seeks
<1> QED
  BY <1>1, <1>5, <1>6, StaleStep DEF gone

LEMMA StaleWrite ==
  ASSUME StaleInv, Typed, NEW p \in Hooks, WritePacket(p), ~clash'
  PROVE  StaleInv'
<1> DEFINE new == h[p].task \in {"new", "baseline"}
           id == IF new THEN Len(packets) + 1 ELSE h[p].id
           x == [h[p] EXCEPT !.pc = "index", !.id = id, !.seen = NoCopy]
           gone == Gone(h, retired)
<1>1. /\ packets' = IF new THEN Append(packets, h[p].copy) ELSE [packets EXCEPT ![id] = h[p].copy]
      /\ h' = [h EXCEPT ![p] = x] /\ h[p].pc = "write" /\ UNCHANGED <<index, retired, stale, cache>>
      /\ ~new => packets[id] = h[p].seen
  BY DEF WritePacket, Become, News
<1>2. /\ HookSound(h[p], Len(packets)) /\ Len(packets) \in Nat
      /\ Careful(h[p], cache[p], index, packets, gone, retired) /\ Done(h[p]) \subseteq gone
      /\ h[p].data = {} /\ packets \in Seq(AnyPackets)
  BY <1>1, StaleHook DEF Loads, Typed, FilesTyped
<1>3. /\ x.pc = "index" /\ x.id = id /\ x.task = h[p].task /\ x.back = h[p].back /\ x.data = h[p].data
      /\ x.before = h[p].before /\ x.hits = h[p].hits /\ x.todo = h[p].todo
  BY <1>2 DEF HookSound, Whole, Names
<1> HIDE DEF x
<1>4. h[p].back = "none" /\ (~new => id \in Stored /\ h[p].task \in Changes)
  BY <1>1, <1>2 DEF HookSound, Fields, Place, Loads, News, None, Stored
<1>5. \A j \in Stored : packets[j].invalid => packets'[j].invalid
  <2>1. CASE new
    BY <1>1, <1>2, <2>1 DEF Stored
  <2>2. CASE ~new
    <3>1. packets[id].invalid => h[p].copy.invalid
      BY <1>1, <1>2, <1>4, <2>2 DEF Careful
    <3>2. \A j \in Stored : packets'[j] = IF j = id THEN h[p].copy ELSE packets[j]
      BY <1>1, <1>2, <2>2 DEF Stored
    <3> HIDE DEF id
    <3> QED
      BY <3>1, <3>2
  <2> QED
    BY <2>1, <2>2
<1>6. \A j \in Current(x) : packets'[j].invalid
  <2> SUFFICES ASSUME h[p].task = "invalid" PROVE packets'[id].invalid
    BY <1>3 DEF Current
  <2>1. h[p].copy.invalid /\ ~new
    BY <1>1, <1>2 DEF Careful, Changes
  <2>2. packets'[id] = h[p].copy
    BY <1>1, <1>2, <1>4, <2>1 DEF Stored
  <2> QED
    BY <2>1, <2>2
<1>7. Done(x) \subseteq gone
  BY <1>1, <1>2, <1>3 DEF Done, Current
<1>8. Careful(x, cache[p], index, packets', gone, retired)
  BY <1>1, <1>2, <1>3, <1>4, <1>6 DEF Careful, Saves, Seeks, Loads
<1> HIDE DEF gone
<1> QED
  BY <1>1, <1>5, <1>7, <1>8, StaleMove, GoneAreStored DEF gone, StaleInv

LEMMA StaleTidy ==
  ASSUME StaleInv, Typed, NEW p \in Hooks, Tidy(p)
  PROVE  StaleInv'
<1> DEFINE ix == [index EXCEPT !.rough = FALSE]
           x == [h[p] EXCEPT !.pc = "tmp", !.back = h[p].pc, !.ix = ix]
           gone == Gone(h, retired)
<1>1. /\ h' = [h EXCEPT ![p] = x] /\ UNCHANGED <<packets, index, retired, stale>>
      /\ h[p].pc \in Loads /\ h[p].data = {} /\ cache' = [cache EXCEPT ![p] = {ix}]
  BY DEF Tidy, Ready, Become, files, history, Loads
<1>2. /\ HookSound(h[p], Len(packets)) /\ Careful(h[p], cache[p], index, packets, gone, retired)
      /\ Done(h[p]) \subseteq gone
  BY StaleHook
<1>3. index.fresh \cap gone = {} /\ h[p].before \subseteq gone
  BY <1>1, LoadedFresh
<1>4. ix.fresh = index.fresh
  BY DEF Typed, FilesTyped, AnyIndexes
<1> HIDE DEF ix, gone
<1>5. /\ x.pc = "tmp" /\ x.back = h[p].pc /\ x.ix = ix /\ x.task = h[p].task /\ x.id = h[p].id
      /\ x.data = {} /\ x.before = h[p].before /\ x.hits = h[p].hits /\ x.todo = h[p].todo
  BY <1>1, <1>2 DEF HookSound, Whole, Names
<1> HIDE DEF x
<1>6. cache'[p] = {ix} /\ \A q \in Hooks : q # p => cache'[q] = cache[q]
  BY <1>1 DEF Typed, CachesTyped
<1>7. Current(x) = Current(h[p])
  <2>1. CASE h[p].pc = "index"
    BY <1>5, <2>1 DEF Current
  <2>2. CASE h[p].pc # "index"
    BY <1>1, <1>2, <1>5, <2>2 DEF Current, Careful, Loads, Seeks
  <2> QED
    BY <2>1, <2>2
<1>8. Done(x) \subseteq gone
  BY <1>2, <1>5, <1>7 DEF Done
<1>9. Careful(x, {ix}, index, packets, gone, retired)
  <2>1. (x.back \in Seeks \/ x.task = "alias") => x.id \notin x.before
    <3>1. h[p].pc = "index" => h[p].task # "alias"
      BY <1>2 DEF HookSound, Place, Changes, News
    <3>2. h[p].pc \in Seeks => h[p].id \notin h[p].before
      BY <1>2 DEF Careful
    <3>3. h[p].pc = "edit" => h[p].task = "none"
      BY <1>2 DEF Careful
    <3> QED
      BY <1>1, <1>5, <3>1, <3>2, <3>3 DEF Loads, Seeks
  <2>2. x.back \in Seeks \cup {"edit"} => x.task = "none"
    BY <1>2, <1>5 DEF Careful
  <2>3. \A id \in Current(x) : packets[id].invalid
    BY <1>1, <1>2, <1>7 DEF Careful, Loads
  <2> QED
    BY <1>1, <1>2, <1>3, <1>4, <1>5, <2>1, <2>2, <2>3 DEF Careful, Saves, Seeks, Loads
<1> QED
  BY <1>1, <1>6, <1>8, <1>9, StaleStep DEF gone

LEMMA StaleChange ==
  ASSUME StaleInv, Typed, NEW p \in Hooks, ChangeIndex(p), ~clash'
  PROVE  StaleInv'
<1> DEFINE id == h[p].id
           old == Loaded(p)
           ix == IF h[p].task = "invalid" THEN Marked(old, id) ELSE Entered(old, id, h[p].copy)
           y == [h[p] EXCEPT !.data = {}]
           x == [y EXCEPT !.pc = "tmp", !.ix = ix]
           gone == Gone(h, retired)
<1>1. /\ h' = [h EXCEPT ![p] = x] /\ UNCHANGED <<packets, index, retired, stale>>
      /\ h[p].pc = "index" /\ Keep(p, ix) /\ packets[id] = h[p].copy
  BY DEF ChangeIndex, Become, Using, files
<1>2. /\ HookSound(h[p], Len(packets)) /\ Careful(h[p], cache[p], index, packets, gone, retired)
      /\ Done(h[p]) \subseteq gone
  BY StaleHook
<1>3. old.fresh \cap h[p].before = {} /\ index.fresh \cap gone = {} /\ h[p].before \subseteq gone
  BY <1>1, LoadedFresh DEF Loads
<1>4. cache'[p] = {} \/ (cache'[p] = {ix} /\ old = index)
  BY <1>1, KeptIndex DEF Loads
<1>5. \A q \in Hooks : q # p => cache'[q] = cache[q]
  BY <1>1, KeptIndex DEF Loads
<1>6. old \in AnyIndexes(Len(packets)) /\ \A j \in gone : packets[j].invalid
  BY LoadedTyped DEF StaleInv
<1>7. ix.fresh \subseteq old.fresh \cup {id} /\ (id \in ix.fresh => h[p].task # "invalid" /\ id \notin gone)
  <2>1. CASE h[p].task = "invalid"
    <3>1. Marked(old, id).fresh = old.fresh \ {id}
      BY <1>6 DEF Marked, Known, AnyIndexes
    <3> QED
      BY <2>1, <3>1
  <2>2. CASE h[p].task # "invalid"
    <3>1. ix.fresh = IF h[p].copy.invalid THEN old.fresh \ {id} ELSE old.fresh \cup {id}
      BY <2>2 DEF Entered
    <3> HIDE DEF ix, old, gone
    <3> QED
      BY <1>1, <1>6, <2>2, <3>1
  <2> QED
    BY <2>1, <2>2
<1> HIDE DEF ix, gone, old, id
<1>8. /\ x.pc = "tmp" /\ x.back = h[p].back /\ x.ix = ix /\ x.task = h[p].task /\ x.id = h[p].id
      /\ x.data = {} /\ x.before = h[p].before /\ x.hits = h[p].hits /\ x.todo = h[p].todo
  BY <1>1, <1>2 DEF HookSound, Whole, Names
<1> HIDE DEF x
<1>9. Current(x) = Current(h[p]) /\ h[p].back = "none" /\ h[p].task \in Changes \cup News
  BY <1>1, <1>2, <1>8 DEF Current, HookSound, Place, Loads
<1>10. Done(x) \subseteq gone
  BY <1>2, <1>8, <1>9 DEF Done
<1>11. ix.fresh \cap h[p].before = {} /\ (cache'[p] # {} => ix.fresh \cap gone = {})
  BY <1>3, <1>4, <1>7
<1>12. Careful(x, cache'[p], index, packets, gone, retired)
  <2>1. \A j \in Current(x) : packets[j].invalid
    BY <1>1, <1>2, <1>9 DEF Careful
  <2> QED
    BY <1>2, <1>4, <1>7, <1>8, <1>9, <1>11, <2>1 DEF Careful, Saves, Seeks, Changes, News, id
<1> QED
  BY <1>1, <1>5, <1>10, <1>12, StaleStep DEF gone

LEMMA StaleTmp ==
  ASSUME StaleInv, Typed, NEW p \in Hooks, WriteTmp(p)
  PROVE  StaleInv'
<1> DEFINE x == [h[p] EXCEPT !.pc = "replace"]
           gone == Gone(h, retired)
<1>1. /\ h' = [h EXCEPT ![p] = x] /\ UNCHANGED <<packets, index, retired, stale, cache>>
      /\ h[p].pc = "tmp"
  BY DEF WriteTmp, Goto, Become, history
<1>2. /\ HookSound(h[p], Len(packets)) /\ Careful(h[p], cache[p], index, packets, gone, retired)
      /\ Done(h[p]) \subseteq gone
  BY StaleHook
<1>3. /\ x.pc = "replace" /\ x.back = h[p].back /\ x.ix = h[p].ix /\ x.task = h[p].task
      /\ x.id = h[p].id /\ x.data = h[p].data /\ x.before = h[p].before /\ x.hits = h[p].hits
      /\ x.todo = h[p].todo
  BY <1>2 DEF HookSound, Whole, Names
<1> HIDE DEF x
<1>4. Current(x) = Current(h[p])
  BY <1>1, <1>3 DEF Current
<1>5. Done(x) \subseteq gone /\ Careful(x, cache[p], index, packets, gone, retired)
  <2>1. Done(x) \subseteq gone
    BY <1>2, <1>3, <1>4 DEF Done
  <2>2. \A j \in Current(x) : packets[j].invalid
    BY <1>1, <1>2, <1>4 DEF Careful
  <2>3. x.data = {}
    BY <1>1, <1>2, <1>3 DEF Careful, Loads
  <2> HIDE DEF gone
  <2>4. Careful(x, cache[p], index, packets, gone, retired)
    BY <1>1, <1>2, <1>3, <2>2, <2>3 DEF Careful, Saves, Seeks
  <2> QED
    BY <2>1, <2>4
<1> QED
  BY <1>1, <1>5, StaleStep

\* A hook that goes on from a save it has made.
LEMMA CarefulResumed ==
  ASSUME NEW y, NEW c, NEW i, NEW pk, NEW gone, NEW old, NEW d, NEW j, NEW more,
         Careful(y, c, i, pk, gone, old), Whole(y), Place(y), y.pc = "replace",
         y.back # "none" \/ y.task \in {"alias", "new", "usage", "outcome", "invalid"},
         d = {j}, y.ix = j
  PROVE  Careful(Resumed(y), d, j, pk, more, old)
<1> DEFINE x == Resumed(y)
<1>1. CASE y.back # "none"
  <2>1. /\ x.before = y.before /\ x.hits = y.hits /\ x.todo = y.todo /\ x.pc = y.back /\ x.id = y.id
        /\ x.back = "none" /\ x.data = {y.ix} /\ x.task = y.task /\ y.back \in Loads
    BY <1>1, ResumedFields DEF Place
  <2> HIDE DEF x
  <2>2. \A id \in Current(x) : pk[id].invalid
    BY <2>1 DEF Current, Careful, Loads
  <2>3. /\ y.before \subseteq old /\ y.todo \subseteq y.hits /\ y.ix.fresh \cap y.before = {}
        /\ y.back \in Seeks => y.id \notin y.before
        /\ y.back \in Seeks \cup {"edit"} => y.task = "none"
    BY DEF Careful, Saves
  <2>4. x.pc \notin Saves /\ x.pc \notin {"write", "gate", "emit"}
    BY <2>1 DEF Loads, Saves
  <2>5. x.data = d
    BY <2>1
  <2>6. \A k \in x.data : k.fresh \cap x.before = {}
    BY <2>1, <2>3
  <2>7. "none" \notin Seeks \cup {"edit"}
    BY DEF Seeks
  <2>8. Careful(x, d, j, pk, more, old)
    BY <1>1, <2>1, <2>2, <2>3, <2>4, <2>5, <2>6, <2>7 DEF Careful
  <2> QED
    BY <2>8 DEF x
<1>2. CASE y.back = "none"
  <2>1. /\ x.before = y.before /\ x.hits = y.hits /\ x.todo = y.todo /\ x.back = "none"
        /\ x.data = y.data /\ x.pc \in {"gate", "read", "save", "edit", "next"}
        /\ x.pc = "gate" => x.id = y.id /\ y.task = "alias"
        /\ x.pc = "edit" => x.task = "none"
    BY <1>2, ResumedFields
  <2> HIDE DEF x
  <2>2. Current(x) = {} /\ x.data = {}
    BY <2>1 DEF Current, Careful, Loads
  <2>3. /\ y.before \subseteq old /\ y.todo \subseteq y.hits
        /\ y.task = "alias" => y.id \notin y.before
    BY DEF Careful, Saves
  <2>4. Careful(x, d, j, pk, more, old)
    BY <1>2, <2>1, <2>2, <2>3 DEF Careful, Saves, Seeks
  <2> QED
    BY <2>4 DEF x
<1> QED
  BY <1>1, <1>2

LEMMA StaleReplace ==
  ASSUME StaleInv, Typed, NEW p \in Hooks, ReplaceIndex(p), ~clash'
  PROVE  StaleInv'
<1> DEFINE ends == /\ h[p].back = "none"
                   /\ h[p].task = "baseline" \/ (h[p].task = "new" /\ ~h[p].shown)
           x == IF ends THEN Idle ELSE Resumed(h[p])
           gone == Gone(h, retired)
           after == Gone(h', retired')
<1>1. /\ h' = [h EXCEPT ![p] = x] /\ UNCHANGED <<packets, retired, stale>> /\ h[p].pc = "replace"
      /\ index' = h[p].ix /\ cache[p] # {}
      /\ cache' = [q \in Hooks |-> IF q = p /\ ~ends THEN {h[p].ix} ELSE {}]
  BY DEF ReplaceIndex, Become
<1>2. /\ HookSound(h[p], Len(packets)) /\ Careful(h[p], cache[p], index, packets, gone, retired)
      /\ Done(h[p]) \subseteq gone
  BY StaleHook
<1>3. ~ends => h[p].back # "none" \/ h[p].task \in {"alias", "new", "usage", "outcome", "invalid"}
  BY <1>1, <1>2 DEF HookSound, Place, Changes, News
<1>4. index'.fresh \cap gone = {} /\ \A id \in Current(h[p]) : packets[id].invalid
  BY <1>1, <1>2 DEF Careful, Saves
\* The packet of an edit is gone now.
<1>5. Done(x) \subseteq gone \cup (IF h[p].back = "none" THEN Current(h[p]) ELSE {})
  <2>1. CASE ends
    BY <2>1, CarefulIdle
  <2>2. CASE ~ends
    <3>1. /\ x.hits = h[p].hits /\ x.todo = h[p].todo
          /\ h[p].back # "none" => x.task = h[p].task /\ x.id = h[p].id /\ x.pc = h[p].back
      BY <1>2, <1>3, <2>2, ResumedFields DEF HookSound
    <3>2. h[p].back # "none" => Current(x) = Current(h[p])
      <4> SUFFICES ASSUME h[p].back # "none" PROVE Current(x) = Current(h[p])
        OBVIOUS
      <4>1. h[p].back = "index" \/ h[p].task = "none"
        BY <1>2 DEF HookSound, Place, Careful, Loads, Seeks
      <4> HIDE DEF x
      <4> QED
        BY <1>1, <3>1, <4>1 DEF Current
    <3> HIDE DEF x
    <3> QED
      BY <1>2, <3>1, <3>2 DEF Done
  <2> QED
    BY <2>1, <2>2
<1>6. h[p].back = "none" => \A id \in Current(h[p]) : id \notin index'.fresh
  BY <1>1, <1>2 DEF Current, Careful, Saves
<1>7. after \subseteq gone \cup Done(x)
  BY <1>1, GoneAfter DEF Typed
<1>8. \A id \in after : packets[id].invalid /\ id \notin index'.fresh
  <2>1. \A id \in gone : packets[id].invalid
    BY DEF StaleInv
  <2> HIDE DEF gone, after, x
  <2> QED
    BY <1>4, <1>5, <1>6, <1>7, <2>1
<1>9. h'[p] = x /\ \A q \in Hooks : q # p => h'[q] = h[q]
  BY <1>1 DEF Typed, HooksTyped
<1>10. ASSUME NEW q \in Hooks, q # p
       PROVE  Careful(h[q], {}, index', packets, after, retired)
  <2>1. Careful(h[q], cache[q], index, packets, gone, retired)
    BY DEF StaleInv
  <2> HIDE DEF gone, after
  <2> QED
    BY <2>1 DEF Careful
<1>11. Careful(x, cache'[p], index', packets, after, retired)
  <2>1. CASE ends
    BY <1>1, <2>1, CarefulIdle
  <2>2. CASE ~ends
    <3>1. cache'[p] = {h[p].ix}
      BY <1>1, <2>2
    <3> HIDE DEF gone, after
    <3>2. x = Resumed(h[p])
      BY <2>2
    <3> QED
      BY <1>1, <1>2, <1>3, <2>2, <3>1, <3>2, CarefulResumed DEF HookSound
  <2> QED
    BY <2>1, <2>2
<1>12. \A q \in Hooks : Careful(h'[q], cache'[q], index', packets', after, retired')
  BY <1>1, <1>9, <1>10, <1>11
<1> QED
  BY <1>1, <1>8, <1>12 DEF StaleInv

LEMMA StaleExact ==
  ASSUME StaleInv, Typed, NEW p \in Hooks, LookupExact(p)
  PROVE  StaleInv'
<1> DEFINE id == Loaded(p).exact[Key(p)]
           y == [h[p] EXCEPT !.data = {}]
           f == [y EXCEPT !.pc = "gate", !.id = id, !.advice = packets[id].advice]
           r == [y EXCEPT !.pc = "relaxed"]
           x == IF id # None /\ id \notin torn /\ ~packets[id].invalid THEN f ELSE r
           gone == Gone(h, retired)
<1>1. /\ h' = [h EXCEPT ![p] = x] /\ UNCHANGED <<packets, index, retired, stale>>
      /\ h[p].pc = "exact" /\ Keep(p, Loaded(p))
  BY DEF LookupExact, Become, Found, Using, files, history
<1>2. /\ HookSound(h[p], Len(packets)) /\ Careful(h[p], cache[p], index, packets, gone, retired)
      /\ Done(h[p]) \subseteq gone
  BY StaleHook
<1>3. cache'[p] \in {{}, {index}} /\ \A q \in Hooks : q # p => cache'[q] = cache[q]
  BY <1>1, KeptIndex DEF Loads
<1>4. ~packets[id].invalid => id \notin h[p].before
  BY <1>1, LoadedFresh DEF StaleInv, Loads
<1> HIDE DEF id
<1>5. /\ f.pc = "gate" /\ f.id = id /\ f.data = {} /\ f.before = h[p].before /\ f.hits = h[p].hits
      /\ f.todo = h[p].todo /\ f.task = h[p].task /\ f.back = h[p].back
  BY <1>2 DEF HookSound, Whole, Names
<1>6. /\ r.pc = "relaxed" /\ r.id = h[p].id /\ r.data = {} /\ r.before = h[p].before
      /\ r.hits = h[p].hits /\ r.todo = h[p].todo /\ r.task = h[p].task /\ r.back = h[p].back
  BY <1>2 DEF HookSound, Whole, Names
<1>7. h[p].back = "none" /\ h[p].task = "none" /\ h[p].id \notin h[p].before
  BY <1>1, <1>2 DEF HookSound, Place, Loads, Careful, Seeks
<1> HIDE DEF f, r
<1>8. /\ x.pc \in {"gate", "relaxed"} /\ x.id \notin x.before /\ x.data = {}
      /\ x.before = h[p].before /\ x.hits = h[p].hits /\ x.todo = h[p].todo /\ x.task = "none"
      /\ x.back = "none"
  BY <1>4, <1>5, <1>6, <1>7
<1> HIDE DEF x, gone
<1>9. Done(x) \subseteq gone
  BY <1>1, <1>2, <1>8 DEF Done, Current
<1>10. Careful(x, cache'[p], index, packets, gone, retired)
  BY <1>2, <1>3, <1>8 DEF Careful, Current, Saves, Seeks
<1> QED
  BY <1>1, <1>3, <1>9, <1>10, StaleStep DEF gone

LEMMA StaleRelaxed ==
  ASSUME StaleInv, Typed, NEW p \in Hooks, LookupRelaxed(p)
  PROVE  StaleInv'
<1> DEFINE y == [h[p] EXCEPT !.data = {}]
           found(id, pc) == [y EXCEPT !.pc = pc, !.id = id, !.advice = packets[id].advice]
           new(a) == [y EXCEPT !.pc = "gate", !.advice = a]
           none == [y EXCEPT !.pc = "save"]
           gone == Gone(h, retired)
           good(x) == /\ x.pc \in {"gate", "alias", "save"} /\ (x.pc # "save" => x.id \notin x.before)
                      /\ x.data = {} /\ x.before = h[p].before /\ x.hits = h[p].hits
                      /\ x.todo = h[p].todo /\ x.task = "none" /\ x.back = "none"
<1>1. /\ UNCHANGED <<packets, index, retired, stale>> /\ h[p].pc = "relaxed" /\ Keep(p, Loaded(p))
      /\ \/ \E id \in Loaded(p).fresh : \E pc \in {"gate", "alias"} : h' = [h EXCEPT ![p] = found(id, pc)]
         \/ \E a \in Advices : h' = [h EXCEPT ![p] = new(a)]
         \/ h' = [h EXCEPT ![p] = none]
  BY DEF LookupRelaxed, Become, Found, Using, files, history
<1>2. /\ HookSound(h[p], Len(packets)) /\ Careful(h[p], cache[p], index, packets, gone, retired)
      /\ Done(h[p]) \subseteq gone
  BY StaleHook
<1>3. cache'[p] \in {{}, {index}} /\ \A q \in Hooks : q # p => cache'[q] = cache[q]
  BY <1>1, KeptIndex DEF Loads
<1>4. \A id \in Loaded(p).fresh : id \notin h[p].before
  BY <1>1, LoadedFresh DEF Loads
<1>5. h[p].back = "none" /\ h[p].task = "none" /\ h[p].id \notin h[p].before
  BY <1>1, <1>2 DEF HookSound, Place, Loads, Careful, Seeks
<1>6. /\ Whole(y) /\ y.id = h[p].id /\ y.data = {} /\ y.before = h[p].before /\ y.hits = h[p].hits
      /\ y.todo = h[p].todo /\ y.task = h[p].task /\ y.back = h[p].back
  BY <1>2 DEF HookSound, Whole, Names
<1> HIDE DEF y
<1>7. ASSUME NEW id \in Loaded(p).fresh, NEW pc \in {"gate", "alias"} PROVE good(found(id, pc))
  BY <1>4, <1>5, <1>6 DEF Whole, Names
<1>8. ASSUME NEW a \in Advices PROVE good(new(a))
  BY <1>5, <1>6 DEF Whole, Names
<1>9. good(none)
  BY <1>5, <1>6 DEF Whole, Names
<1> HIDE DEF found, new, none, good
<1>10. PICK x : h' = [h EXCEPT ![p] = x] /\ good(x)
  BY <1>1, <1>7, <1>8, <1>9
<1> USE DEF good
<1> HIDE DEF gone
<1>11. Done(x) \subseteq gone
  BY <1>1, <1>2, <1>10 DEF Done, Current
<1>12. Careful(x, cache'[p], index, packets, gone, retired)
  BY <1>2, <1>3, <1>10 DEF Careful, Current, Saves, Seeks
<1> QED
  BY <1>1, <1>3, <1>10, <1>11, <1>12, StaleStep DEF gone

LEMMA StaleAlias ==
  ASSUME StaleInv, Typed, NEW p \in Hooks, Alias(p)
  PROVE  StaleInv'
<1> DEFINE old == Loaded(p)
           new == [old EXCEPT !.exact[Key(p)] = h[p].id]
           y == [h[p] EXCEPT !.data = {}]
           g == [y EXCEPT !.pc = "gate"]
           t == [y EXCEPT !.pc = "tmp", !.task = "alias", !.ix = new]
           x == IF new = old THEN g ELSE t
           gone == Gone(h, retired)
<1>1. /\ h' = [h EXCEPT ![p] = x] /\ UNCHANGED <<packets, index, retired, stale>>
      /\ h[p].pc = "alias" /\ Keep(p, new)
  BY DEF Alias, Become, Using, files, history
<1>2. /\ HookSound(h[p], Len(packets)) /\ Careful(h[p], cache[p], index, packets, gone, retired)
      /\ Done(h[p]) \subseteq gone
  BY StaleHook
<1>3. /\ cache'[p] = {} \/ (cache'[p] = {new} /\ old = index)
      /\ \A q \in Hooks : q # p => cache'[q] = cache[q]
  BY <1>1, KeptIndex DEF Loads
<1>4. old.fresh \cap h[p].before = {} /\ index.fresh \cap gone = {}
  BY <1>1, LoadedFresh DEF Loads
<1>5. new.fresh = old.fresh
  BY LoadedTyped DEF AnyIndexes
<1> HIDE DEF new, old, gone
<1>6. /\ g.pc = "gate" /\ g.id = h[p].id /\ g.data = {} /\ g.before = h[p].before
      /\ g.hits = h[p].hits /\ g.todo = h[p].todo /\ g.task = h[p].task /\ g.back = h[p].back
  BY <1>2 DEF HookSound, Whole, Names
<1>7. /\ t.pc = "tmp" /\ t.id = h[p].id /\ t.data = {} /\ t.before = h[p].before /\ t.ix = new
      /\ t.hits = h[p].hits /\ t.todo = h[p].todo /\ t.task = "alias" /\ t.back = h[p].back
  BY <1>2 DEF HookSound, Whole, Names
<1>8. h[p].back = "none" /\ h[p].task = "none" /\ h[p].id \notin h[p].before
  BY <1>1, <1>2 DEF HookSound, Place, Loads, Careful, Seeks
<1> HIDE DEF g, t
<1>9. /\ x.id \notin x.before /\ x.data = {} /\ x.back = "none" /\ x.task \in {"none", "alias"}
      /\ x.before = h[p].before /\ x.hits = h[p].hits /\ x.todo = h[p].todo
      /\ (x.pc = "gate" /\ new = old) \/ (x.pc = "tmp" /\ x.ix = new)
  BY <1>6, <1>7, <1>8
<1> HIDE DEF x
<1>10. Done(x) \subseteq gone
  BY <1>1, <1>2, <1>9 DEF Done, Current
<1>11. Careful(x, cache'[p], index, packets, gone, retired)
  BY <1>2, <1>3, <1>4, <1>5, <1>9 DEF Careful, Current, Saves, Seeks
<1> QED
  BY <1>1, <1>3, <1>10, <1>11, StaleStep DEF gone

LEMMA StaleShow ==
  ASSUME StaleInv, Typed, NEW p \in Hooks, Dedupe(p) \/ Emit(p)
  PROVE  StaleInv'
<1> DEFINE gone == Gone(h, retired)
<1>1. /\ HookSound(h[p], Len(packets)) /\ Careful(h[p], cache[p], index, packets, gone, retired)
      /\ Done(h[p]) \subseteq gone /\ h[p].pc \in {"gate", "emit"}
  BY StaleHook DEF Dedupe, Emit
<1>2. /\ h[p].back = "none" /\ h[p].id \notin h[p].before /\ h[p].data = {}
  BY <1>1 DEF HookSound, Place, Loads, Careful
<1>3. UNCHANGED <<packets, index, retired, cache>> /\ ~stale'
  <2>1. ~stale
    BY DEF StaleInv
  <2>2. CASE Dedupe(p)
    BY <2>1, <2>2 DEF Dedupe, files
  <2>3. CASE Emit(p)
    BY <1>2, <2>1, <2>3 DEF Emit, files
  <2> QED
    BY <2>2, <2>3
<1> DEFINE d == [h[p] EXCEPT !.pc = IF h[p].advice \in log THEN "save" ELSE "emit"]
           e == [h[p] EXCEPT !.pc = "log", !.shown = TRUE, !.st.shown = @ \cup {h[p].advice}]
<1>4. h' = [h EXCEPT ![p] = d] \/ h' = [h EXCEPT ![p] = e]
  BY DEF Dedupe, Emit, Goto, Become
<1>5. /\ d.pc \in {"save", "emit"} /\ d.id = h[p].id /\ d.data = {} /\ d.before = h[p].before
      /\ d.hits = h[p].hits /\ d.todo = h[p].todo /\ d.back = "none"
  BY <1>1, <1>2 DEF HookSound, Whole, Names
<1>6. /\ e.pc = "log" /\ e.id = h[p].id /\ e.data = {} /\ e.before = h[p].before
      /\ e.hits = h[p].hits /\ e.todo = h[p].todo /\ e.back = "none"
  BY <1>1, <1>2 DEF HookSound, Whole, Names
<1> HIDE DEF d, e
<1>7. PICK x : /\ h' = [h EXCEPT ![p] = x]
               /\ x.pc \in {"save", "emit", "log"} /\ x.id = h[p].id /\ x.data = {}
               /\ x.before = h[p].before /\ x.hits = h[p].hits /\ x.todo = h[p].todo /\ x.back = "none"
  BY <1>4, <1>5, <1>6
<1> HIDE DEF gone
<1>8. Done(x) \subseteq gone
  BY <1>1, <1>7 DEF Done, Current
<1>9. Careful(x, cache[p], index, packets, gone, retired)
  BY <1>1, <1>2, <1>7 DEF Careful, Current, Saves, Seeks
<1> QED
  BY <1>3, <1>7, <1>8, <1>9, StaleMove, GoneAreStored DEF gone

LEMMA StaleFind ==
  ASSUME StaleInv, Typed, NEW p \in Hooks, FindEdited(p), ~clash'
  PROVE  StaleInv'
<1> DEFINE hits == {id \in Known(Loaded(p)) : packets[id].advice \in h[p].edited}
           y == [h[p] EXCEPT !.data = {}]
           x == [y EXCEPT !.pc = "next", !.edited = {}, !.hits = hits, !.todo = hits]
           z == [y EXCEPT !.pc = "save"]
           gone == Gone(h, retired)
<1>1. /\ HookSound(h[p], Len(packets)) /\ Careful(h[p], cache[p], index, packets, gone, retired)
      /\ Done(h[p]) \subseteq gone /\ h[p].pc = "edit"
      /\ UNCHANGED <<packets, index, retired, stale>>
  BY StaleHook DEF FindEdited, files
<1>2. h[p].back = "none" /\ h[p].task = "none" /\ cache[p] \in {{}, {index}}
  BY <1>1, StaleHook DEF HookSound, Place, Loads, Careful, Saves
<1> HIDE DEF hits, gone
<1>3. /\ x.pc = "next" /\ x.data = {} /\ x.before = h[p].before /\ x.hits = hits /\ x.todo = hits
      /\ x.task = "none" /\ x.back = "none"
  BY <1>1, <1>2 DEF HookSound, Whole, Names
<1>4. /\ z.pc = "save" /\ z.data = {} /\ z.before = h[p].before /\ z.hits = h[p].hits
      /\ z.todo = h[p].todo /\ z.task = "none" /\ z.back = "none"
  BY <1>1, <1>2 DEF HookSound, Whole, Names
<1>5. CASE h[p].t \in Editors
  <2>1. h' = [h EXCEPT ![p] = x] /\ Keep(p, Loaded(p))
    <3> DEFINE passed == IF h[p].edited = Advices THEN {} ELSE hits \cap torn
    <3>1. /\ h' = [h EXCEPT ![p] = [y EXCEPT !.pc = "next", !.edited = {}, !.hits = hits,
                                             !.todo = hits \ passed]]
          /\ Keep(p, Loaded(p)) /\ passed = {}
      BY <1>5 DEF FindEdited, Become, Using, hits
    <3>2. hits \ passed = hits
      BY <3>1
    <3> QED
      BY <3>1, <3>2
  <2>2. cache'[p] \in {{}, {index}} /\ \A q \in Hooks : q # p => cache'[q] = cache[q]
    BY <1>1, <2>1, KeptIndex DEF Loads
  <2> HIDE DEF x
  <2>3. Done(x) = {}
    BY <1>3 DEF Done
  <2>4. Careful(x, cache'[p], index, packets, gone, retired)
    BY <1>1, <1>3, <2>2 DEF Careful, Current, Saves, Seeks
  <2> QED
    BY <1>1, <2>1, <2>2, <2>3, <2>4, StaleStep DEF gone
<1>6. CASE h[p].t \notin Editors
  <2>1. h' = [h EXCEPT ![p] = z] /\ UNCHANGED cache
    BY <1>6 DEF FindEdited, Become, Using
  <2> HIDE DEF z
  <2>3. Done(z) \subseteq gone
    BY <1>1, <1>2, <1>4 DEF Done, Current
  <2>4. Careful(z, cache[p], index, packets, gone, retired)
    BY <1>1, <1>2, <1>4 DEF Careful, Current, Saves, Seeks
  <2> QED
    BY <1>1, <2>1, <2>3, <2>4, StaleStep DEF gone
<1> QED
  BY <1>5, <1>6

LEMMA StaleNext ==
  ASSUME StaleInv, Typed, NEW p \in Hooks, InvalidateNext(p)
  PROVE  StaleInv'
<1>1. PICK id \in h[p].todo \ torn :
        h' = [h EXCEPT ![p] = [h[p] EXCEPT !.pc = "write", !.task = "invalid", !.id = id,
                                 !.todo = @ \ {id}, !.seen = packets[id],
                                 !.copy = [packets[id] EXCEPT !.invalid = TRUE]]]
  BY DEF InvalidateNext, Become
<1> DEFINE copy == [packets[id] EXCEPT !.invalid = TRUE]
           x == [h[p] EXCEPT !.pc = "write", !.task = "invalid", !.id = id, !.todo = @ \ {id},
                             !.seen = packets[id], !.copy = copy]
           gone == Gone(h, retired)
<1>2. /\ HookSound(h[p], Len(packets)) /\ Careful(h[p], cache[p], index, packets, gone, retired)
      /\ Done(h[p]) \subseteq gone /\ h[p].pc = "next" /\ h[p].data = {} /\ h[p].back = "none"
      /\ cache[p] \in {{}, {index}}
  BY StaleHook DEF InvalidateNext, Loads, Saves, HookSound, Place
<1>3. packets[id] \in AnyPackets
  BY <1>2 DEF HookSound, Fields, Typed, FilesTyped
<1>4. copy.invalid
  BY <1>3 DEF AnyPackets
<1>5. h' = [h EXCEPT ![p] = x] /\ UNCHANGED <<packets, index, retired, stale, cache>>
  BY <1>1 DEF InvalidateNext, files, history
<1> HIDE DEF copy, gone
<1>6. /\ x.pc = "write" /\ x.data = {} /\ x.before = h[p].before /\ x.hits = h[p].hits
      /\ x.todo = h[p].todo \ {id} /\ x.task = "invalid" /\ x.back = "none" /\ x.copy = copy
      /\ x.id = id
  BY <1>2 DEF HookSound, Whole, Names
<1> HIDE DEF x
<1>7. Done(x) \subseteq gone
  BY <1>2, <1>6 DEF Done, Current
<1>8. Careful(x, cache[p], index, packets, gone, retired)
  BY <1>2, <1>4, <1>6 DEF Careful, Saves, Seeks
<1> QED
  BY <1>5, <1>7, <1>8, StaleStep DEF gone

LEMMA StaleAll ==
  ASSUME StaleInv, Typed, NEW p \in Hooks, AllInvalidated(p)
  PROVE  StaleInv'
<1> DEFINE x == [h[p] EXCEPT !.pc = "save", !.hits = {}]
           gone == Gone(h, retired)
<1>1. /\ HookSound(h[p], Len(packets)) /\ Careful(h[p], cache[p], index, packets, gone, retired)
      /\ Done(h[p]) \subseteq gone /\ h[p].pc = "next" /\ h[p].data = {} /\ h[p].back = "none"
      /\ cache[p] \in {{}, {index}}
  BY StaleHook DEF AllInvalidated, Loads, Saves, HookSound, Place
<1>2. /\ h' = [h EXCEPT ![p] = x] /\ UNCHANGED <<packets, index, stale, cache>>
      /\ retired' = retired \cup h[p].hits /\ h[p].todo = {}
  BY DEF AllInvalidated, Become, files
<1>3. h[p].hits \subseteq gone
  BY <1>1, <1>2 DEF Done, Current
<1>4. retired \subseteq gone
  BY GoneAreStored
<1> HIDE DEF gone
<1>5. /\ x.pc = "save" /\ x.data = {} /\ x.before = h[p].before /\ x.hits = {} /\ x.todo = {}
      /\ x.back = "none"
  BY <1>1, <1>2 DEF HookSound, Whole, Names
<1> HIDE DEF x
<1>6. Done(x) = {}
  BY <1>5 DEF Done
<1>7. Careful(x, cache[p], index, packets, gone, retired')
  BY <1>1, <1>2, <1>5 DEF Careful, Current, Saves, Seeks
<1>8. ~stale'
  BY <1>2 DEF StaleInv
<1>9. retired' \subseteq gone
  BY <1>2, <1>3, <1>4
<1> QED
  BY <1>2, <1>6, <1>7, <1>8, <1>9, StaleMove DEF gone

LEMMA StaleBegin ==
  ASSUME StaleInv, Typed, NEW p \in Hooks, NEW s \in Sessions, NEW hook,
         Whole(hook), hook.back = "none", hook.data = {}, hook.hits = {}, hook.todo = {},
         hook.pc \in {"exact", "edit", "read", "prompt"},
         hook.pc = "exact" => hook.id = None, hook.pc \in {"exact", "edit"} => hook.task = "none",
         Begin(p, s, hook)
  PROVE  StaleInv'
<1> DEFINE x == [hook EXCEPT !.s = s, !.st = state[s], !.before = retired]
<1>1. /\ h' = [h EXCEPT ![p] = x] /\ UNCHANGED <<packets, index, retired, stale, cache>>
      /\ h[p].pc = "idle"
  BY DEF Begin, Become, files
<1>2. cache[p] \in {{}, {index}} /\ None \notin retired
  BY <1>1, StaleHook, GoneAreStored DEF Saves
<1>3. /\ x.pc = hook.pc /\ x.data = {} /\ x.before = retired /\ x.hits = {} /\ x.todo = {}
      /\ x.back = "none" /\ x.id = hook.id /\ x.task = hook.task
  BY DEF Whole, Names
<1> HIDE DEF x
<1>4. Done(x) = {}
  BY <1>3 DEF Done
<1>5. Careful(x, cache[p], index, packets, Gone(h, retired), retired)
  BY <1>2, <1>3 DEF Careful, Current, Saves, Seeks
<1> QED
  BY <1>1, <1>4, <1>5, StaleStep

LEMMA StaleStart ==
  ASSUME StaleInv, Typed, NEW p \in Hooks, Starts(p)
  PROVE  StaleInv'
<1>1. /\ Whole(Idle) /\ Idle.back = "none" /\ Idle.data = {} /\ Idle.hits = {} /\ Idle.todo = {}
      /\ Idle.id = None /\ Idle.task = "none"
  BY Blanks DEF Idle, HookSound
<1>2. ASSUME NEW s \in Sessions, NEW t \in Tools, PreTool(p, s, t) PROVE StaleInv'
  <2> DEFINE x == [Idle EXCEPT !.pc = "exact", !.t = t]
  <2>1. /\ Whole(x) /\ x.pc = "exact" /\ x.back = "none" /\ x.data = {} /\ x.hits = {}
        /\ x.todo = {} /\ x.id = None /\ x.task = "none"
    BY <1>1 DEF Whole, Names
  <2>2. Begin(p, s, x)
    BY <1>2 DEF PreTool
  <2> HIDE DEF x
  <2> QED
    BY <2>1, <2>2, StaleBegin
<1>3. ASSUME NEW s \in Sessions, NEW t \in Tools, NEW edited \in Edits(t), PostTool(p, s, t, edited)
      PROVE  StaleInv'
  <2> DEFINE on == state[s].last # None /\ state[s].tool = t
             pc == IF on THEN "read" ELSE "edit"
             id == IF on THEN state[s].last ELSE None
             task == IF on THEN "outcome" ELSE "none"
             x == [Idle EXCEPT !.t = t, !.edited = edited, !.pc = pc, !.id = id, !.task = task]
  <2>1. Begin(p, s, x) /\ ((pc = "read") \/ (pc = "edit" /\ task = "none"))
    BY <1>3 DEF PostTool
  <2> HIDE DEF pc, id, task
  <2>2. /\ Whole(x) /\ x.pc = pc /\ x.back = "none" /\ x.data = {} /\ x.hits = {}
        /\ x.todo = {} /\ x.task = task
    BY <1>1 DEF Whole, Names
  <2> HIDE DEF x
  <2> QED
    BY <2>1, <2>2, StaleBegin
<1>4. ASSUME NEW s \in Sessions, Prompt(p, s) PROVE StaleInv'
  <2> DEFINE x == [Idle EXCEPT !.pc = "prompt", !.t = "*"]
  <2>1. /\ Whole(x) /\ x.pc = "prompt" /\ x.back = "none" /\ x.data = {} /\ x.hits = {}
        /\ x.todo = {}
    BY <1>1 DEF Whole, Names
  <2>2. Begin(p, s, x)
    BY <1>4 DEF Prompt
  <2> HIDE DEF x
  <2> QED
    BY <2>1, <2>2, StaleBegin
<1> QED
  BY <1>2, <1>3, <1>4 DEF Starts

LEMMA ClashStays ==
  ASSUME Next, clash \in BOOLEAN
  PROVE  clash' \in BOOLEAN /\ (clash => clash')
<1>1. PICK p \in Hooks : Starts(p) \/ Work(p) \/ Kill(p)
  BY DEF Next, Starts
<1>2. CASE Starts(p)
  BY <1>2 DEF Starts, PreTool, PostTool, Prompt, Begin
<1>3. CASE Work(p) \/ Kill(p)
  BY <1>3 DEF Work, Kill, Tidy, ReadPacket, WritePacket, ChangeIndex, WriteTmp, ReplaceIndex,
     ReplaceFails, LookupExact, LookupRelaxed, Alias, GateBlocks, Dedupe, RepeatBlocks, Emit,
     EmitFails, LogAdvice, SaveState, FindEdited, InvalidateNext, AllInvalidated, SavePrompt,
     PacketUnread, EmptyPacket, EmptyLog, FillLog, PassOver, history
<1> QED
  BY <1>1, <1>2, <1>3

LEMMA StaleKept == StaleInv /\ Typed /\ [Next]_vars /\ ~clash' => StaleInv'
<1> SUFFICES ASSUME StaleInv, Typed, [Next]_vars, ~clash' PROVE StaleInv'
  OBVIOUS
<1>1. CASE Still
  BY <1>1 DEF Still, history, StaleInv, Gone
<1>2. ASSUME NEW p \in Hooks, Starts(p) PROVE StaleInv'
  BY <1>2, StaleStart
<1>3. ASSUME NEW p \in Hooks, Kill(p) \/ SaveState(p) PROVE StaleInv'
  BY <1>3, StaleLeave DEF Kill, SaveState, files, history
<1>4. ASSUME NEW p \in Hooks, ReplaceFails(p) \/ PassOver(p) PROVE FALSE
  BY <1>4 DEF ReplaceFails, PassOver
<1>5. ASSUME NEW p \in Hooks, Work(p) PROVE StaleInv'
  BY <1>1, <1>3, <1>4, <1>5, StillSteps, StaleUnread, StaleLog, StaleTidy, StaleRead, StaleWrite,
     StaleChange, StaleTmp, StaleReplace,
     StaleExact, StaleRelaxed, StaleAlias, StaleGate, StaleShow, StaleFind, StaleNext, StaleAll
     DEF Work
<1> QED
  BY <1>1, <1>2, <1>3, <1>5, StillSteps DEF Next, Starts

-----------------------------------------------------------------------------
LEMMA InvInit == Init => Counted /\ OnceInv /\ StaleInv
<1> SUFFICES ASSUME Init PROVE Counted /\ OnceInv /\ StaleInv
  OBVIOUS
<1>1. Stored = {} /\ \A p \in Hooks : h[p].pc = "idle"
  BY DEF Init, Stored, Idle
<1>2. Counted
  BY <1>1 DEF Counted
<1>3. OnceInv
  BY <1>1 DEF Init, OnceInv, Showing
<1>4. StaleInv
  <2>1. \A p \in Hooks : h[p] = Idle /\ cache[p] = {} /\ Done(h[p]) = {}
    BY CarefulIdle DEF Init
  <2>2. Gone(h, retired) = {} /\ ~stale
    BY <2>1 DEF Init, Gone
  <2>3. \A p \in Hooks : Careful(h[p], cache[p], index, packets, Gone(h, retired), retired)
    BY <2>1, CarefulIdle
  <2> QED
    BY <2>2, <2>3 DEF StaleInv
<1> QED
  BY <1>2, <1>3, <1>4

\* Advice is shown once within the cooldown, whatever session asks for it, but
\* by two hooks that look into the log at once, one that dies before it logs, or
\* one that looks for a line the rewriting of the log hides or has lost (Advisory's
\* ShownOnce).
THEOREM AdviceIsShownOnce == Spec => []ShownOnce
<1>1. Init => Typed /\ OnceInv
  BY TypedInit, InvInit
<1>2. Typed /\ OnceInv /\ [Next]_vars => (Typed /\ OnceInv)'
  BY TypedNext, OnceNext
<1>3. Typed /\ OnceInv => ShownOnce
  BY DEF OnceInv, ShownOnce
<1> QED
  BY <1>1, <1>2, <1>3, PTL DEF Spec

\* A packet's count of emissions never exceeds how often it was shown, whoever
\* overwrites whose packet or index and whoever dies (Advisory's EmitsAreReal).
THEOREM EmissionsAreReal == Spec => []EmitsAreReal
<1>1. Init => Typed /\ Counted
  BY TypedInit, InvInit
<1>2. Typed /\ Counted /\ [Next]_vars => (Typed /\ Counted)'
  BY TypedNext, CountedNext
<1>3. Typed /\ Counted => EmitsAreReal
  <2> SUFFICES ASSUME Typed, Counted, NEW id \in 1..Len(packets)
               PROVE  packets[id].emits <= shows[id]
    BY DEF EmitsAreReal
  <2>1. packets[id] \in AnyPackets /\ shows[id] \in Nat
    BY DEF Typed, FilesTyped
  <2>2. packets[id].emits \in Nat
    BY <2>1 DEF AnyPackets
  <2>3. Cardinality(Debts(h, id)) \in Nat
    BY Counting DEF Debts
  <2>4. packets[id].emits + Cardinality(Debts(h, id)) <= shows[id]
    BY DEF Counted, Stored
  <2> QED
    BY <2>1, <2>2, <2>3, <2>4
<1> QED
  BY <1>1, <1>2, <1>3, PTL DEF Spec

\* After an edit has invalidated the packets about its file, no later call shows
\* one, while no hook writes a packet or the index over what it has not seen and
\* the edit could read every packet about it (Advisory's StaleAdviceEnds).
THEOREM StaleAdviceIsNotShown == Spec => []StaleAdviceEnds
<1> DEFINE Inv == Typed /\ clash \in BOOLEAN /\ (clash \/ StaleInv)
<1>1. Init => Inv
  BY TypedInit, InvInit DEF Init
<1>2. Inv /\ [Next]_vars => Inv'
  <2> SUFFICES ASSUME Inv, [Next]_vars PROVE Inv'
    OBVIOUS
  <2>1. Typed'
    BY TypedNext
  <2>2. clash' \in BOOLEAN /\ (~clash' => ~clash)
    <3>1. CASE Next
      BY <3>1, ClashStays
    <3>2. CASE UNCHANGED vars
      BY <3>2 DEF vars, history
    <3> QED
      BY <3>1, <3>2
  <2>3. clash' \/ StaleInv'
    BY <2>2, StaleKept
  <2> QED
    BY <2>1, <2>2, <2>3
<1>3. Inv => StaleAdviceEnds
  BY DEF StaleInv, StaleAdviceEnds
<1> HIDE DEF Inv
<1> QED
  BY <1>1, <1>2, <1>3, PTL DEF Spec

-----------------------------------------------------------------------------
(* What a session was shown is remembered.                                 *)

\* A hook works for a session.
Working(x, s) == x.pc # "idle" /\ x.s = s

\* Of a session whose calls have not overlapped and have all saved: one hook
\* works for it at most, and has in memory what the session was shown; so has
\* the file, unless that hook has shown something since.
RememberInv ==
  /\ kills \in Nat
  /\ kills = 0 =>
       \A s \in Sessions \ (parallel \cup unsaved) :
         /\ \A p, q \in Hooks : Working(h[p], s) /\ Working(h[q], s) => p = q
         /\ \A p \in Hooks : Working(h[p], s) =>
              told[s] \subseteq h[p].st.shown /\ (h[p].shown \/ told[s] \subseteq state[s].shown)
         /\ (\A p \in Hooks : ~Working(h[p], s)) => told[s] \subseteq state[s].shown

\* A hook goes on with what it has in memory of its session.
Carries(y, x) ==
  /\ y.pc # "idle" /\ x.pc # "idle" /\ x.s = y.s
  /\ x.st.shown = y.st.shown /\ x.shown = y.shown
CarryStep(p) ==
  /\ \E x : h' = [h EXCEPT ![p] = x] /\ Carries(h[p], x)
  /\ state' = state \/ state' = [state EXCEPT ![h[p].s] = h[p].st]
  /\ UNCHANGED <<told, kills, parallel, unsaved>>

\* A hook ends, and has saved its session's state, or has shown nothing, or
\* the session is one of those with a call that has not saved.
EndStep(p) ==
  /\ h' = [h EXCEPT ![p] = Idle] /\ h[p].pc # "idle"
  /\ \/ ~h[p].shown /\ unsaved' = unsaved /\ state' = state
     \/ state' = [state EXCEPT ![h[p].s] = h[p].st] /\ unsaved' = unsaved
     \/ unsaved' = unsaved \cup {h[p].s} /\ state' = state
  /\ UNCHANGED <<told, kills, parallel>>

LEMMA CarriedOn ==
  ASSUME RememberInv, Typed, NEW p \in Hooks, CarryStep(p)
  PROVE  RememberInv'
<1>1. PICK x : h' = [h EXCEPT ![p] = x] /\ Carries(h[p], x)
  BY DEF CarryStep
<1>2. h = [q \in Hooks |-> h[q]] /\ state \in [Sessions -> AnyStates(Len(packets))]
  BY DEF Typed, HooksTyped, FilesTyped
<1>3. h'[p] = x /\ \A q \in Hooks \ {p} : h'[q] = h[q]
  BY <1>1, <1>2
<1>4. kills' = kills /\ told' = told /\ parallel' = parallel /\ unsaved' = unsaved
  BY DEF CarryStep
<1> SUFFICES ASSUME kills = 0, NEW s \in Sessions \ (parallel \cup unsaved)
             PROVE  /\ \A q, r \in Hooks : Working(h'[q], s) /\ Working(h'[r], s) => q = r
                    /\ \A q \in Hooks : Working(h'[q], s) =>
                         /\ told[s] \subseteq h'[q].st.shown
                         /\ h'[q].shown \/ told[s] \subseteq state'[s].shown
                    /\ (\A q \in Hooks : ~Working(h'[q], s)) => told[s] \subseteq state'[s].shown
  BY <1>4 DEF RememberInv
<1>5. \A q \in Hooks : Working(h'[q], s) <=> Working(h[q], s)
  BY <1>1, <1>3 DEF Working, Carries
<1>6. \A q \in Hooks : h'[q].st.shown = h[q].st.shown /\ h'[q].shown = h[q].shown
  BY <1>1, <1>3 DEF Carries
<1>7. /\ \A q, r \in Hooks : Working(h[q], s) /\ Working(h[r], s) => q = r
      /\ \A q \in Hooks : Working(h[q], s) =>
           told[s] \subseteq h[q].st.shown /\ (h[q].shown \/ told[s] \subseteq state[s].shown)
      /\ (\A q \in Hooks : ~Working(h[q], s)) => told[s] \subseteq state[s].shown
  BY DEF RememberInv
<1>8. state'[s] = state[s] \/ (Working(h[p], s) /\ state'[s] = h[p].st)
  BY <1>1, <1>2 DEF CarryStep, Working, Carries
<1>9. told[s] \subseteq state[s].shown => told[s] \subseteq state'[s].shown
  BY <1>7, <1>8
<1> QED
  BY <1>5, <1>6, <1>7, <1>9

LEMMA WentAway ==
  ASSUME RememberInv, Typed, NEW p \in Hooks, EndStep(p)
  PROVE  RememberInv'
<1>1. h' = [h EXCEPT ![p] = Idle] /\ h[p].pc # "idle"
  BY DEF EndStep
<1>2. h = [q \in Hooks |-> h[q]] /\ state \in [Sessions -> AnyStates(Len(packets))]
  BY DEF Typed, HooksTyped, FilesTyped
<1>3. h'[p].pc = "idle" /\ \A q \in Hooks \ {p} : h'[q] = h[q]
  BY <1>1, <1>2 DEF Idle
<1>4. kills' = kills /\ told' = told /\ parallel' = parallel /\ unsaved \subseteq unsaved'
  BY DEF EndStep
<1> SUFFICES ASSUME kills = 0, NEW s \in Sessions \ (parallel \cup unsaved')
             PROVE  /\ \A q, r \in Hooks : Working(h'[q], s) /\ Working(h'[r], s) => q = r
                    /\ \A q \in Hooks : Working(h'[q], s) =>
                         /\ told[s] \subseteq h'[q].st.shown
                         /\ h'[q].shown \/ told[s] \subseteq state'[s].shown
                    /\ (\A q \in Hooks : ~Working(h'[q], s)) => told[s] \subseteq state'[s].shown
  BY <1>4 DEF RememberInv
<1>5. \A q \in Hooks : Working(h'[q], s) => q # p /\ Working(h[q], s) /\ h'[q] = h[q]
  BY <1>3 DEF Working
<1>6. /\ \A q, r \in Hooks : Working(h[q], s) /\ Working(h[r], s) => q = r
      /\ \A q \in Hooks : Working(h[q], s) =>
           told[s] \subseteq h[q].st.shown /\ (h[q].shown \/ told[s] \subseteq state[s].shown)
      /\ (\A q \in Hooks : ~Working(h[q], s)) => told[s] \subseteq state[s].shown
  BY <1>4 DEF RememberInv
<1>7. state'[s] = state[s] \/ (h[p].s = s /\ state'[s] = h[p].st)
  BY <1>2 DEF EndStep
<1>8. CASE Working(h[p], s)
  <2>1. \A q \in Hooks : ~Working(h'[q], s)
    BY <1>5, <1>6, <1>8
  <2>2. h[p].s = s /\ s \notin unsaved'
    BY <1>8 DEF Working
  <2>3. \/ state'[s] = h[p].st
        \/ ~h[p].shown /\ state' = state
    BY <1>2, <2>2 DEF EndStep
  <2>4. told[s] \subseteq h[p].st.shown /\ (h[p].shown \/ told[s] \subseteq state[s].shown)
    BY <1>6, <1>8
  <2>5. told[s] \subseteq state'[s].shown
    BY <2>3, <2>4
  <2> QED
    BY <2>1, <2>5
<1>9. CASE ~Working(h[p], s)
  <2>1. h[p].s # s
    BY <1>1, <1>9 DEF Working
  <2>2. state'[s] = state[s]
    BY <1>7, <2>1
  <2>3. \A q \in Hooks : Working(h'[q], s) <=> Working(h[q], s)
    BY <1>3, <1>9 DEF Working
  <2> QED
    BY <1>5, <1>6, <2>2, <2>3
<1> QED
  BY <1>8, <1>9

\* An agent hook shows advice, and notes it.
LEMMA RememberEmit ==
  ASSUME RememberInv, Typed, NEW p \in Hooks, Emit(p)
  PROVE  RememberInv'
<1> DEFINE a == h[p].advice
           x == [h[p] EXCEPT !.pc = "log", !.shown = TRUE, !.st.shown = @ \cup {a}]
<1>1. HookSound(h[p], Len(packets))
  BY HookTyped
<1>2. h' = [h EXCEPT ![p] = x] /\ told' = [told EXCEPT ![h[p].s] = @ \cup {a}]
  BY DEF Emit, Become
<1>3. h = [q \in Hooks |-> h[q]] /\ DOMAIN told = Sessions
  BY DEF Typed, HooksTyped, FilesTyped
<1>4. UNCHANGED <<state, kills, parallel, unsaved>> /\ h[p].pc = "emit"
  BY DEF Emit, files
<1>5. h[p].st = [shown |-> h[p].st.shown, last |-> h[p].st.last, tool |-> h[p].st.tool]
  BY <1>1 DEF HookSound, Fields, AnyStates
<1>6. x.pc = "log" /\ x.shown /\ x.s = h[p].s
  BY <1>1 DEF HookSound, Whole, Names
<1>7. x.st.shown = h[p].st.shown \cup {a}
  <2>1. x.st = [h[p].st EXCEPT !.shown = @ \cup {a}]
    BY <1>1 DEF HookSound, Whole, Names
  <2> QED
    BY <1>5, <2>1
<1> HIDE DEF x
<1>8. h'[p] = x /\ \A q \in Hooks \ {p} : h'[q] = h[q]
  BY <1>2, <1>3
<1> SUFFICES ASSUME kills = 0, NEW s \in Sessions \ (parallel \cup unsaved)
             PROVE  /\ \A q, r \in Hooks : Working(h'[q], s) /\ Working(h'[r], s) => q = r
                    /\ \A q \in Hooks : Working(h'[q], s) =>
                         /\ told'[s] \subseteq h'[q].st.shown
                         /\ h'[q].shown \/ told'[s] \subseteq state[s].shown
                    /\ (\A q \in Hooks : ~Working(h'[q], s)) => told'[s] \subseteq state[s].shown
  BY <1>4 DEF RememberInv
<1>9. /\ \A q, r \in Hooks : Working(h[q], s) /\ Working(h[r], s) => q = r
      /\ \A q \in Hooks : Working(h[q], s) =>
           told[s] \subseteq h[q].st.shown /\ (h[q].shown \/ told[s] \subseteq state[s].shown)
      /\ (\A q \in Hooks : ~Working(h[q], s)) => told[s] \subseteq state[s].shown
  BY DEF RememberInv
<1>10. \A q \in Hooks : Working(h'[q], s) <=> Working(h[q], s)
  BY <1>4, <1>6, <1>8 DEF Working
<1>11. CASE h[p].s = s
  <2>1. told'[s] = told[s] \cup {a}
    BY <1>2, <1>3, <1>11
  <2>2. Working(h[p], s)
    BY <1>4, <1>11 DEF Working
  <2>3. \A q \in Hooks : Working(h[q], s) => q = p
    BY <1>9, <2>2
  <2>4. told'[s] \subseteq h'[p].st.shown /\ h'[p].shown
    BY <1>6, <1>7, <1>8, <1>9, <2>1, <2>2
  <2> QED
    BY <1>9, <1>10, <2>2, <2>3, <2>4
<1>12. CASE h[p].s # s
  <2>1. told'[s] = told[s] /\ ~Working(h[p], s)
    BY <1>2, <1>3, <1>12 DEF Working
  <2> QED
    BY <1>8, <1>9, <1>10, <2>1
<1> QED
  BY <1>11, <1>12

\* A hook begins, with the state in the file.
LEMMA RememberBegin ==
  ASSUME RememberInv, Typed, NEW p \in Hooks, NEW s \in Sessions, NEW hook, Whole(hook),
         ~hook.shown, Begin(p, s, hook)
  PROVE  RememberInv'
<1> DEFINE x == [hook EXCEPT !.s = s, !.st = state[s], !.before = retired]
<1>1. h' = [h EXCEPT ![p] = x] /\ h[p].pc = "idle"
  BY DEF Begin, Become
<1>2. UNCHANGED <<state, told, kills, unsaved>>
  BY DEF Begin, files
<1>3. parallel' = IF \E q \in Hooks : h[q].s = s THEN parallel \cup {s} ELSE parallel
  BY DEF Begin
<1>4. h = [q \in Hooks |-> h[q]]
  BY DEF Typed, HooksTyped
<1>5. x.s = s /\ x.st = state[s] /\ ~x.shown
  BY DEF Whole, Names
<1> HIDE DEF x
<1>6. h'[p] = x /\ \A q \in Hooks \ {p} : h'[q] = h[q]
  BY <1>1, <1>4
<1> SUFFICES ASSUME kills = 0, NEW r \in Sessions \ (parallel' \cup unsaved)
             PROVE  /\ \A q, o \in Hooks : Working(h'[q], r) /\ Working(h'[o], r) => q = o
                    /\ \A q \in Hooks : Working(h'[q], r) =>
                         /\ told[r] \subseteq h'[q].st.shown
                         /\ h'[q].shown \/ told[r] \subseteq state[r].shown
                    /\ (\A q \in Hooks : ~Working(h'[q], r)) => told[r] \subseteq state[r].shown
  BY <1>2 DEF RememberInv
<1>7. r \notin parallel
  BY <1>3
<1>8. /\ \A q, o \in Hooks : Working(h[q], r) /\ Working(h[o], r) => q = o
      /\ \A q \in Hooks : Working(h[q], r) =>
           told[r] \subseteq h[q].st.shown /\ (h[q].shown \/ told[r] \subseteq state[r].shown)
      /\ (\A q \in Hooks : ~Working(h[q], r)) => told[r] \subseteq state[r].shown
  BY <1>7 DEF RememberInv
<1>9. ~Working(h[p], r)
  BY <1>1 DEF Working
<1>10. CASE r = s
  <2>1. \A q \in Hooks : ~Working(h[q], r)
    BY <1>3, <1>10 DEF Working
  <2>2. told[r] \subseteq state[r].shown
    BY <1>8, <2>1
  <2>3. \A q \in Hooks : Working(h'[q], r) => q = p
    BY <1>6, <2>1
  <2> QED
    BY <1>5, <1>6, <1>10, <2>2, <2>3
<1>11. CASE r # s
  <2>1. \A q \in Hooks : Working(h'[q], r) <=> Working(h[q], r)
    BY <1>5, <1>6, <1>9, <1>11 DEF Working
  <2>2. \A q \in Hooks : Working(h'[q], r) => h'[q] = h[q]
    BY <1>6, <1>9, <2>1
  <2> QED
    BY <1>8, <2>1, <2>2
<1> QED
  BY <1>10, <1>11

LEMMA RememberStart ==
  ASSUME RememberInv, Typed, NEW p \in Hooks, Starts(p)
  PROVE  RememberInv'
<1>1. Whole(Idle) /\ ~Idle.shown
  BY Blanks DEF Idle, HookSound
<1>2. ASSUME NEW s \in Sessions, NEW t \in Tools, PreTool(p, s, t) PROVE RememberInv'
  <2> DEFINE x == [Idle EXCEPT !.pc = "exact", !.t = t]
  <2>1. Whole(x) /\ ~x.shown
    BY <1>1 DEF Whole, Names
  <2>2. Begin(p, s, x)
    BY <1>2 DEF PreTool
  <2> HIDE DEF x
  <2> QED
    BY <2>1, <2>2, RememberBegin
<1>3. ASSUME NEW s \in Sessions, NEW t \in Tools, NEW edited \in Edits(t), PostTool(p, s, t, edited)
      PROVE  RememberInv'
  <2> DEFINE on == state[s].last # None /\ state[s].tool = t
             pc == IF on THEN "read" ELSE "edit"
             id == IF on THEN state[s].last ELSE None
             task == IF on THEN "outcome" ELSE "none"
             x == [Idle EXCEPT !.t = t, !.edited = edited, !.pc = pc, !.id = id, !.task = task]
  <2>1. Begin(p, s, x)
    BY <1>3 DEF PostTool
  <2> HIDE DEF pc, id, task
  <2>2. Whole(x) /\ ~x.shown
    BY <1>1 DEF Whole, Names
  <2> HIDE DEF x
  <2> QED
    BY <2>1, <2>2, RememberBegin
<1>4. ASSUME NEW s \in Sessions, Prompt(p, s) PROVE RememberInv'
  <2> DEFINE x == [Idle EXCEPT !.pc = "prompt", !.t = "*"]
  <2>1. Whole(x) /\ ~x.shown
    BY <1>1 DEF Whole, Names
  <2>2. Begin(p, s, x)
    BY <1>4 DEF Prompt
  <2> HIDE DEF x
  <2> QED
    BY <2>1, <2>2, RememberBegin
<1> QED
  BY <1>2, <1>3, <1>4 DEF Starts

\* The steps that only move a hook on.
LEMMA CarryMove ==
  ASSUME NEW p \in Hooks, NEW x, h' = [h EXCEPT ![p] = x], h[p].pc # "idle", x.pc # "idle",
         x.s = h[p].s, x.st = h[p].st, x.shown = h[p].shown,
         UNCHANGED <<state, told, kills, parallel, unsaved>>
  PROVE  CarryStep(p)
  BY DEF CarryStep, Carries

LEMMA CarryIndex ==
  ASSUME Typed, NEW p \in Hooks, Tidy(p) \/ ChangeIndex(p) \/ WriteTmp(p)
  PROVE  CarryStep(p)
<1>1. Whole(h[p]) /\ h[p].pc # "idle"
  BY DEF Typed, HooksTyped, HookSound, Tidy, ChangeIndex, WriteTmp
<1>2. UNCHANGED <<state, told, kills, parallel, unsaved>>
  BY DEF Tidy, ChangeIndex, WriteTmp, files, history
<1>3. CASE Tidy(p)
  <2>1. PICK ix : h' = [h EXCEPT ![p] = [h[p] EXCEPT !.pc = "tmp", !.back = h[p].pc, !.ix = ix]]
    BY <1>3 DEF Tidy, Become
  <2> DEFINE x == [h[p] EXCEPT !.pc = "tmp", !.back = h[p].pc, !.ix = ix]
  <2>2. x.pc = "tmp" /\ x.s = h[p].s /\ x.st = h[p].st /\ x.shown = h[p].shown
    BY <1>1 DEF Whole, Names
  <2>3. h' = [h EXCEPT ![p] = x]
    BY <2>1
  <2> HIDE DEF x
  <2> QED
    BY <1>1, <1>2, <2>2, <2>3, CarryMove
<1>4. CASE ChangeIndex(p)
  <2> DEFINE y == [h[p] EXCEPT !.data = {}]
  <2>1. PICK ix : h' = [h EXCEPT ![p] = [y EXCEPT !.pc = "tmp", !.ix = ix]]
    BY <1>4 DEF ChangeIndex, Become, Using
  <2> DEFINE x == [y EXCEPT !.pc = "tmp", !.ix = ix]
  <2>2. x.pc = "tmp" /\ x.s = h[p].s /\ x.st = h[p].st /\ x.shown = h[p].shown
    BY <1>1 DEF Whole, Names
  <2>3. h' = [h EXCEPT ![p] = x]
    BY <2>1
  <2> HIDE DEF x
  <2> QED
    BY <1>1, <1>2, <2>2, <2>3, CarryMove
<1>5. CASE WriteTmp(p)
  <2> DEFINE x == [h[p] EXCEPT !.pc = "replace"]
  <2>1. h' = [h EXCEPT ![p] = x]
    BY <1>5 DEF WriteTmp, Goto, Become
  <2>2. x.pc = "replace" /\ x.s = h[p].s /\ x.st = h[p].st /\ x.shown = h[p].shown
    BY <1>1 DEF Whole, Names
  <2> HIDE DEF x
  <2> QED
    BY <1>1, <1>2, <2>1, <2>2, CarryMove
<1> QED
  BY <1>3, <1>4, <1>5

\* The caller of a save has what it had.
LEMMA ResumedCarries ==
  ASSUME NEW n \in Nat, NEW y, HookSound(y, n), y.pc \in {"read", "replace"},
         y.back # "none" \/ y.task \in {"alias", "new", "usage", "outcome", "invalid"}
  PROVE  /\ Carries(y, Resumed(y)) /\ Whole(Resumed(y))
<1> DEFINE loaded == [y EXCEPT !.pc = y.back, !.back = "none", !.data = {y.ix}, !.ix = NoIndex]
           clean == [y EXCEPT !.copy = NoCopy, !.ix = NoIndex, !.task = "none"]
<1>1. Whole(y) /\ y.st = [shown |-> y.st.shown, last |-> y.st.last, tool |-> y.st.tool]
  BY DEF HookSound, Fields, AnyStates
<1>2. CASE y.back # "none"
  <2>1. Resumed(y) = loaded
    BY <1>2 DEF Resumed
  <2>2. y.back \in Loads
    BY <1>2 DEF HookSound, Place
  <2>3. Whole(loaded)
    BY <1>1 DEF Whole
  <2>4. loaded.pc = y.back /\ loaded.s = y.s /\ loaded.st = y.st /\ loaded.shown = y.shown
    BY <1>1 DEF Whole, Names
  <2> QED
    BY <2>1, <2>2, <2>3, <2>4 DEF Carries, Loads
<1>3. CASE y.back = "none"
  <2>1. Whole(clean) /\ clean.s = y.s /\ clean.st = y.st /\ clean.shown = y.shown
    BY <1>1 DEF Whole, Names
  <2>2. CASE y.task = "new"
    <3>1. Resumed(y) = [clean EXCEPT !.pc = "read", !.task = "usage", !.st.last = y.id,
                                     !.st.tool = y.t]
      BY <1>3, <2>2 DEF Resumed
    <3> HIDE DEF clean
    <3>2. Whole(Resumed(y))
      BY <2>1, <3>1 DEF Whole
    <3>3. Resumed(y).pc = "read" /\ Resumed(y).s = y.s /\ Resumed(y).shown = y.shown
      BY <2>1, <3>1 DEF Whole, Names
    <3>4. Resumed(y).st = [clean.st EXCEPT !.last = y.id, !.tool = y.t]
      BY <1>1, <2>1, <3>1 DEF Whole, Names
    <3>5. Resumed(y).st.shown = y.st.shown
      BY <1>1, <2>1, <3>4
    <3> QED
      BY <3>2, <3>3, <3>5 DEF Carries
  <2>3. CASE y.task \in {"alias", "usage"}
    <3> DEFINE pc == IF y.task = "alias" THEN "gate" ELSE "save"
    <3>1. Resumed(y) = [clean EXCEPT !.pc = pc]
      BY <1>3, <2>3 DEF Resumed
    <3>2. pc # "idle"
      OBVIOUS
    <3> HIDE DEF clean, pc
    <3> QED
      BY <2>1, <3>1, <3>2 DEF Whole, Names, Carries
  <2>4. CASE y.task \in {"outcome", "invalid"}
    <3> DEFINE pc == IF y.task = "outcome" THEN "edit" ELSE "next"
    <3>1. Resumed(y) = [clean EXCEPT !.pc = pc, !.id = None]
      BY <1>3, <2>4 DEF Resumed
    <3>2. pc # "idle"
      OBVIOUS
    <3> HIDE DEF clean, pc
    <3> QED
      BY <2>1, <3>1, <3>2 DEF Whole, Names, Carries
  <2> QED
    BY <1>3, <2>2, <2>3, <2>4
<1>4. y.pc # "idle"
  OBVIOUS
<1> QED
  BY <1>2, <1>3

LEMMA CarryPacket ==
  ASSUME Typed, NEW p \in Hooks,
         \/ ReadPacket(p) \/ WritePacket(p) \/ InvalidateNext(p) \/ PacketUnread(p) \/ PassOver(p)
  PROVE  CarryStep(p)
<1>1. Whole(h[p]) /\ h[p].pc # "idle"
  BY DEF Typed, HooksTyped, HookSound, ReadPacket, WritePacket, InvalidateNext, PacketUnread, PassOver
<1>2. UNCHANGED <<state, told, kills, parallel, unsaved>>
  BY DEF ReadPacket, WritePacket, InvalidateNext, PacketUnread, PassOver, files, history
<1>3. CASE ReadPacket(p)
  <2>1. PICK packet, copy :
          h' = [h EXCEPT ![p] = [h[p] EXCEPT !.pc = "write", !.seen = packet, !.copy = copy]]
    BY <1>3 DEF ReadPacket, Become
  <2> DEFINE x == [h[p] EXCEPT !.pc = "write", !.seen = packet, !.copy = copy]
  <2>2. x.pc = "write" /\ x.s = h[p].s /\ x.st = h[p].st /\ x.shown = h[p].shown
    BY <1>1 DEF Whole, Names
  <2>3. h' = [h EXCEPT ![p] = x]
    BY <2>1
  <2> HIDE DEF x
  <2> QED
    BY <1>1, <1>2, <2>2, <2>3, CarryMove
<1>4. CASE WritePacket(p)
  <2>1. PICK id : h' = [h EXCEPT ![p] = [h[p] EXCEPT !.pc = "index", !.id = id, !.seen = NoCopy]]
    BY <1>4 DEF WritePacket, Become
  <2> DEFINE x == [h[p] EXCEPT !.pc = "index", !.id = id, !.seen = NoCopy]
  <2>2. x.pc = "index" /\ x.s = h[p].s /\ x.st = h[p].st /\ x.shown = h[p].shown
    BY <1>1 DEF Whole, Names
  <2>3. h' = [h EXCEPT ![p] = x]
    BY <2>1
  <2> HIDE DEF x
  <2> QED
    BY <1>1, <1>2, <2>2, <2>3, CarryMove
<1>5. CASE InvalidateNext(p)
  <2>1. PICK id \in h[p].todo \ torn :
          h' = [h EXCEPT ![p] = [h[p] EXCEPT !.pc = "write", !.task = "invalid", !.id = id,
                                   !.todo = @ \ {id}, !.seen = packets[id],
                                   !.copy = [packets[id] EXCEPT !.invalid = TRUE]]]
    BY <1>5 DEF InvalidateNext, Become
  <2> DEFINE copy == [packets[id] EXCEPT !.invalid = TRUE]
             x == [h[p] EXCEPT !.pc = "write", !.task = "invalid", !.id = id, !.todo = @ \ {id},
                               !.seen = packets[id], !.copy = copy]
  <2>2. x.pc = "write" /\ x.s = h[p].s /\ x.st = h[p].st /\ x.shown = h[p].shown
    BY <1>1 DEF Whole, Names
  <2>3. h' = [h EXCEPT ![p] = x]
    BY <2>1
  <2> HIDE DEF x
  <2> QED
    BY <1>1, <1>2, <2>2, <2>3, CarryMove
<1>6. CASE PacketUnread(p)
  <2>1. h' = [h EXCEPT ![p] = Resumed(h[p])] /\ h[p].pc = "read"
    BY <1>6 DEF PacketUnread, Become
  <2>2. HookSound(h[p], Len(packets)) /\ Len(packets) \in Nat
    BY HookTyped
  <2>3. Carries(h[p], Resumed(h[p]))
    BY <2>1, <2>2, ResumedCarries DEF HookSound, Place
  <2> QED
    BY <1>2, <2>1, <2>3 DEF CarryStep
<1>7. CASE PassOver(p)
  <2>1. PICK id : h' = [h EXCEPT ![p] = [h[p] EXCEPT !.todo = @ \ {id}]]
    BY <1>7 DEF PassOver, Become
  <2> DEFINE x == [h[p] EXCEPT !.todo = @ \ {id}]
  <2>2. x.pc = h[p].pc /\ x.s = h[p].s /\ x.st = h[p].st /\ x.shown = h[p].shown
    BY <1>1 DEF Whole, Names
  <2>3. h' = [h EXCEPT ![p] = x]
    BY <2>1
  <2> HIDE DEF x
  <2> QED
    BY <1>1, <1>2, <2>2, <2>3, CarryMove
<1> QED
  BY <1>3, <1>4, <1>5, <1>6, <1>7

LEMMA CarryLookup ==
  ASSUME Typed, NEW p \in Hooks,
         LookupExact(p) \/ LookupRelaxed(p) \/ Alias(p) \/ FindEdited(p) \/ AllInvalidated(p)
  PROVE  CarryStep(p)
<1> DEFINE y == [h[p] EXCEPT !.data = {}]
<1>1. Whole(h[p]) /\ h[p].pc # "idle"
  BY DEF Typed, HooksTyped, HookSound, LookupExact, LookupRelaxed, Alias, FindEdited,
         AllInvalidated
<1>2. UNCHANGED <<state, told, kills, parallel, unsaved>>
  BY DEF LookupExact, LookupRelaxed, Alias, FindEdited, AllInvalidated, files, history
<1>3. Whole(y) /\ y.s = h[p].s /\ y.st = h[p].st /\ y.shown = h[p].shown
  BY <1>1 DEF Whole, Names
<1>4. ASSUME NEW x, h' = [h EXCEPT ![p] = x], x.pc # "idle", x.s = y.s, x.st = y.st,
             x.shown = y.shown
      PROVE  CarryStep(p)
  BY <1>1, <1>2, <1>3, <1>4, CarryMove
<1>5. ASSUME NEW pc, NEW id, NEW advice, pc # "idle",
             h' = [h EXCEPT ![p] = [y EXCEPT !.pc = pc, !.id = id, !.advice = advice]]
      PROVE  CarryStep(p)
  <2> HIDE DEF y
  <2> DEFINE x == [y EXCEPT !.pc = pc, !.id = id, !.advice = advice]
  <2>1. x.pc # "idle" /\ x.s = y.s /\ x.st = y.st /\ x.shown = y.shown
    BY <1>3, <1>5 DEF Whole, Names
  <2> QED
    BY <1>4, <1>5, <2>1
<1>6. ASSUME NEW pc, pc # "idle", h' = [h EXCEPT ![p] = [y EXCEPT !.pc = pc]]
      PROVE  CarryStep(p)
  <2> HIDE DEF y
  <2> DEFINE x == [y EXCEPT !.pc = pc]
  <2>1. x.pc # "idle" /\ x.s = y.s /\ x.st = y.st /\ x.shown = y.shown
    BY <1>3, <1>6 DEF Whole, Names
  <2> QED
    BY <1>4, <1>6, <2>1
<1>7. CASE LookupExact(p)
  <2>1. \/ \E id, advice : h' = [h EXCEPT ![p] = [y EXCEPT !.pc = "gate", !.id = id, !.advice = advice]]
        \/ h' = [h EXCEPT ![p] = [y EXCEPT !.pc = "relaxed"]]
    BY <1>7 DEF LookupExact, Become, Using, Found
  <2> HIDE DEF y
  <2> QED
    BY <1>5, <1>6, <2>1
<1>8. CASE LookupRelaxed(p)
  <2>1. \/ \E pc \in {"gate", "alias"} : \E id, advice :
             h' = [h EXCEPT ![p] = [y EXCEPT !.pc = pc, !.id = id, !.advice = advice]]
        \/ \E a : h' = [h EXCEPT ![p] = [y EXCEPT !.pc = "gate", !.advice = a]]
        \/ h' = [h EXCEPT ![p] = [y EXCEPT !.pc = "save"]]
    BY <1>8 DEF LookupRelaxed, Become, Using, Found
  <2>2. ASSUME NEW a, h' = [h EXCEPT ![p] = [y EXCEPT !.pc = "gate", !.advice = a]]
        PROVE  CarryStep(p)
    <3> HIDE DEF y
    <3> DEFINE x == [y EXCEPT !.pc = "gate", !.advice = a]
    <3>1. x.pc # "idle" /\ x.s = y.s /\ x.st = y.st /\ x.shown = y.shown
      BY <1>3 DEF Whole, Names
    <3> QED
      BY <1>4, <2>2, <3>1
  <2> HIDE DEF y
  <2> QED
    BY <1>5, <1>6, <2>1, <2>2
<1>9. CASE Alias(p)
  <2>1. \/ h' = [h EXCEPT ![p] = [y EXCEPT !.pc = "gate"]]
        \/ \E ix : h' = [h EXCEPT ![p] = [y EXCEPT !.pc = "tmp", !.task = "alias", !.ix = ix]]
    BY <1>9 DEF Alias, Become, Using
  <2>2. ASSUME NEW ix, h' = [h EXCEPT ![p] = [y EXCEPT !.pc = "tmp", !.task = "alias", !.ix = ix]]
        PROVE  CarryStep(p)
    <3> HIDE DEF y
    <3> DEFINE x == [y EXCEPT !.pc = "tmp", !.task = "alias", !.ix = ix]
    <3>1. x.pc # "idle" /\ x.s = y.s /\ x.st = y.st /\ x.shown = y.shown
      BY <1>3 DEF Whole, Names
    <3> QED
      BY <1>4, <2>2, <3>1
  <2> HIDE DEF y
  <2> QED
    BY <1>6, <2>1, <2>2
<1>10. CASE FindEdited(p)
  <2>1. \/ \E hits, todo : h' = [h EXCEPT ![p] = [y EXCEPT !.pc = "next", !.edited = {},
                                                           !.hits = hits, !.todo = todo]]
        \/ h' = [h EXCEPT ![p] = [y EXCEPT !.pc = "save"]]
    BY <1>10 DEF FindEdited, Become, Using
  <2>2. ASSUME NEW hits, NEW todo,
               h' = [h EXCEPT ![p] = [y EXCEPT !.pc = "next", !.edited = {}, !.hits = hits,
                                               !.todo = todo]]
        PROVE  CarryStep(p)
    <3> HIDE DEF y
    <3> DEFINE x == [y EXCEPT !.pc = "next", !.edited = {}, !.hits = hits, !.todo = todo]
    <3>1. x.pc # "idle" /\ x.s = y.s /\ x.st = y.st /\ x.shown = y.shown
      BY <1>3 DEF Whole, Names
    <3> QED
      BY <1>4, <2>2, <3>1
  <2> HIDE DEF y
  <2> QED
    BY <1>6, <2>1, <2>2
<1>11. CASE AllInvalidated(p)
  <2> DEFINE x == [h[p] EXCEPT !.pc = "save", !.hits = {}]
  <2>1. h' = [h EXCEPT ![p] = x]
    BY <1>11 DEF AllInvalidated, Become
  <2>2. x.pc # "idle" /\ x.s = h[p].s /\ x.st = h[p].st /\ x.shown = h[p].shown
    BY <1>1 DEF Whole, Names
  <2> HIDE DEF x
  <2> QED
    BY <1>1, <1>2, <2>1, <2>2, CarryMove
<1> QED
  BY <1>7, <1>8, <1>9, <1>10, <1>11

LEMMA CarryGate ==
  ASSUME Typed, NEW p \in Hooks,
         \/ GateBlocks(p) \/ Dedupe(p) \/ RepeatBlocks(p)
         \/ LogAdvice(p) \/ EmptyLog(p) \/ FillLog(p)
  PROVE  CarryStep(p)
<1>1. /\ HookSound(h[p], Len(packets)) /\ Whole(h[p])
      /\ h[p].pc \in {"gate", "emit", "log", "cap", "fill"}
  BY HookTyped DEF HookSound, GateBlocks, Dedupe, RepeatBlocks, LogAdvice, EmptyLog, FillLog
<1>2. UNCHANGED <<state, told, kills, parallel, unsaved>>
  BY DEF GateBlocks, Dedupe, RepeatBlocks, LogAdvice, EmptyLog, FillLog, files, history
<1>3. CASE GateBlocks(p) \/ RepeatBlocks(p)
  <2>1. h' = [h EXCEPT ![p] = Suppressed(h[p])]
    BY <1>3 DEF GateBlocks, RepeatBlocks, Become
  <2>2. /\ Suppressed(h[p]).pc # "idle" /\ Suppressed(h[p]).s = h[p].s
        /\ Suppressed(h[p]).st = h[p].st /\ Suppressed(h[p]).shown = h[p].shown
    BY <1>1 DEF Suppressed, Whole, Names
  <2> QED
    BY <1>1, <1>2, <2>1, <2>2, CarryMove
<1>4. CASE Dedupe(p)
  <2>1. PICK pc \in {"save", "emit"} : h' = [h EXCEPT ![p] = [h[p] EXCEPT !.pc = pc]]
    BY <1>4 DEF Dedupe, Goto, Become
  <2> DEFINE x == [h[p] EXCEPT !.pc = pc]
  <2>2. x.pc # "idle" /\ x.s = h[p].s /\ x.st = h[p].st /\ x.shown = h[p].shown
    BY <1>1 DEF Whole, Names
  <2>3. h' = [h EXCEPT ![p] = x]
    BY <2>1
  <2> HIDE DEF x
  <2> QED
    BY <1>1, <1>2, <2>2, <2>3, CarryMove
<1>5. Noted(p).st.shown = h[p].st.shown
  <2>1. CASE h[p].id = None
    <3>1. PICK copy : Noted(p) = [h[p] EXCEPT !.pc = "write", !.task = "new", !.copy = copy]
      BY <2>1 DEF Noted, Built
    <3>2. Noted(p).st = h[p].st
      BY <1>1, <3>1 DEF Whole, Names
    <3> QED
      BY <3>2
  <2>2. CASE h[p].id # None
    <3>1. Noted(p) = Told(h[p])
      BY <2>2, NotedIs
    <3>2. Told(h[p]).st = [h[p].st EXCEPT !.last = h[p].id, !.tool = h[p].t]
      BY <1>1 DEF Told, Whole, Names, HookSound, Fields, AnyStates
    <3>3. h[p].st = [shown |-> h[p].st.shown, last |-> h[p].st.last, tool |-> h[p].st.tool]
      BY <1>1 DEF HookSound, Fields, AnyStates
    <3> QED
      BY <3>1, <3>2, <3>3
  <2> QED
    BY <2>1, <2>2
<1>6. CASE LogAdvice(p) \/ EmptyLog(p) \/ FillLog(p)
  <2> DEFINE a == [h[p] EXCEPT !.pc = "cap"]
             b == [h[p] EXCEPT !.pc = "fill", !.lines = log]
             c == [Noted(p) EXCEPT !.lines = {}]
  <2>1. h' = [h EXCEPT ![p] = a] \/ h' = [h EXCEPT ![p] = b] \/ h' = [h EXCEPT ![p] = c]
        \/ h' = [h EXCEPT ![p] = Noted(p)]
    BY <1>6 DEF LogAdvice, EmptyLog, FillLog, Become, Goto
  <2>2. /\ a.pc # "idle" /\ a.s = h[p].s /\ a.st = h[p].st /\ a.shown = h[p].shown
        /\ b.pc # "idle" /\ b.s = h[p].s /\ b.st = h[p].st /\ b.shown = h[p].shown
    BY <1>1 DEF Whole, Names
  <2>3. /\ c.pc # "idle" /\ c.s = h[p].s /\ c.st.shown = h[p].st.shown /\ c.shown = h[p].shown
        /\ Noted(p).pc # "idle" /\ Noted(p).s = h[p].s /\ Noted(p).shown = h[p].shown
    BY <1>5, NotedStep
  <2> HIDE DEF a, b, c
  <2>4. PICK x : h' = [h EXCEPT ![p] = x] /\ x.pc # "idle" /\ x.s = h[p].s
                 /\ x.st.shown = h[p].st.shown /\ x.shown = h[p].shown
    BY <1>5, <2>1, <2>2, <2>3
  <2> QED
    BY <1>1, <1>2, <2>4 DEF CarryStep, Carries
<1> QED
  BY <1>3, <1>4, <1>6

LEMMA CarryPrompt ==
  ASSUME Typed, NEW p \in Hooks, SavePrompt(p)
  PROVE  CarryStep(p)
<1>1. Whole(h[p]) /\ h[p].pc # "idle"
  BY DEF Typed, HooksTyped, HookSound, SavePrompt
<1>2. PICK copy :
        h' = [h EXCEPT ![p] = [h[p] EXCEPT !.pc = "write", !.task = "baseline", !.copy = copy]]
  BY DEF SavePrompt, Become
<1> DEFINE x == [h[p] EXCEPT !.pc = "write", !.task = "baseline", !.copy = copy]
<1>3. x.pc # "idle" /\ x.s = h[p].s /\ x.st = h[p].st /\ x.shown = h[p].shown
  BY <1>1 DEF Whole, Names
<1>4. h' = [h EXCEPT ![p] = x]
  BY <1>2
<1>5. state' = [state EXCEPT ![h[p].s] = h[p].st] /\ UNCHANGED <<told, kills, parallel, unsaved>>
  BY DEF SavePrompt, history
<1> HIDE DEF x
<1> QED
  BY <1>1, <1>3, <1>4, <1>5 DEF CarryStep, Carries

LEMMA RememberReplace ==
  ASSUME RememberInv, Typed, NEW p \in Hooks, ReplaceIndex(p) \/ ReplaceFails(p)
  PROVE  RememberInv'
<1>1. /\ HookSound(h[p], Len(packets)) /\ Whole(h[p]) /\ Place(h[p]) /\ Len(packets) \in Nat
      /\ h[p].pc = "replace"
  BY HookTyped DEF HookSound, ReplaceIndex, ReplaceFails
<1>2. UNCHANGED <<state, told, kills, parallel>>
  BY DEF ReplaceIndex, ReplaceFails, files
<1>3. CASE ReplaceIndex(p)
  <2> DEFINE ends == /\ h[p].back = "none"
                     /\ h[p].task = "baseline" \/ (h[p].task = "new" /\ ~h[p].shown)
  <2>1. unsaved' = unsaved /\ h' = [h EXCEPT ![p] = IF ends THEN Idle ELSE Resumed(h[p])]
    BY <1>3 DEF ReplaceIndex, Become
  <2>2. CASE ends
    <3>1. ~h[p].shown
      BY <1>1, <2>2 DEF Place
    <3> QED
      BY <1>1, <1>2, <2>1, <2>2, <3>1, WentAway DEF EndStep
  <2>3. CASE ~ends
    <3>1. Carries(h[p], Resumed(h[p]))
      BY <1>1, <2>3, ResumedCarries DEF Place, Changes, News
    <3> QED
      BY <1>2, <2>1, <2>3, <3>1, CarriedOn DEF CarryStep
  <2> QED
    BY <2>2, <2>3
<1>4. CASE ReplaceFails(p)
  <2> DEFINE loads == h[p].back # "none"
             ends == ~loads /\ h[p].task \in {"baseline", "new"}
             y == Resumed(h[p])
  <2>1. CASE ends
    <3>1. h' = [h EXCEPT ![p] = Idle]
      BY <1>4, <2>1 DEF ReplaceFails, Leave
    <3>2. CASE h[p].task = "new"
      <4>1. unsaved' = unsaved \cup {h[p].s}
        BY <1>4, <2>1, <3>2 DEF ReplaceFails
      <4> QED
        BY <1>1, <1>2, <3>1, <4>1, WentAway DEF EndStep
    <3>3. CASE h[p].task # "new"
      <4>1. unsaved' = unsaved
        BY <1>4, <3>3 DEF ReplaceFails
      <4>2. ~h[p].shown
        BY <1>1, <2>1, <3>3 DEF Place
      <4> QED
        BY <1>1, <1>2, <3>1, <4>1, <4>2, WentAway DEF EndStep
    <3> QED
      BY <3>2, <3>3
  <2>2. CASE ~ends
    <3>1. unsaved' = unsaved
      BY <1>4, <2>2 DEF ReplaceFails
    <3>2. Carries(h[p], y)
      BY <1>1, <2>2, ResumedCarries DEF Place, Changes, News
    <3>3. CASE h[p].task = "invalid" /\ ~loads
      <4> DEFINE x == [y EXCEPT !.pc = "save", !.todo = {}, !.hits = {}]
      <4>1. h' = [h EXCEPT ![p] = x]
        BY <1>4, <2>2, <3>3 DEF ReplaceFails, Become
      <4>2. Whole(y)
        BY <1>1, <3>3, ResumedSound DEF HookSound
      <4> HIDE DEF y
      <4>3. x.pc = "save" /\ x.s = y.s /\ x.st = y.st /\ x.shown = y.shown
        BY <4>2 DEF Whole, Names
      <4> HIDE DEF x
      <4>4. Carries(h[p], x)
        BY <3>2, <4>3 DEF Carries
      <4> QED
        BY <1>2, <3>1, <4>1, <4>4, CarriedOn DEF CarryStep
    <3>4. CASE ~(h[p].task = "invalid" /\ ~loads)
      <4>1. h' = [h EXCEPT ![p] = y]
        BY <1>4, <2>2, <3>4 DEF ReplaceFails, Become
      <4> QED
        BY <1>2, <3>1, <3>2, <4>1, CarriedOn DEF CarryStep
    <3> QED
      BY <3>3, <3>4
  <2> QED
    BY <2>1, <2>2
<1> QED
  BY <1>3, <1>4

LEMMA RememberEnds ==
  ASSUME RememberInv, Typed, NEW p \in Hooks, EmitFails(p) \/ SaveState(p)
  PROVE  RememberInv'
<1>1. /\ HookSound(h[p], Len(packets)) /\ Whole(h[p]) /\ Place(h[p])
      /\ h[p].pc \in {"emit", "save"}
  BY HookTyped DEF HookSound, EmitFails, SaveState
<1>2. UNCHANGED <<told, kills, parallel, unsaved>>
  BY DEF EmitFails, SaveState, history
<1>3. CASE SaveState(p)
  <2>1. h' = [h EXCEPT ![p] = Idle] /\ state' = [state EXCEPT ![h[p].s] = h[p].st]
    BY <1>3 DEF SaveState, Leave
  <2> QED
    BY <1>1, <1>2, <2>1, WentAway DEF EndStep
<1>4. CASE EmitFails(p) /\ h[p].id = None
  <2> DEFINE copy == NewPacket(Key(p), h[p].advice)
  <2>1. h' = [h EXCEPT ![p] = Built(p)] /\ state' = state
    BY <1>4 DEF EmitFails, Become, files
  <2>2. Built(p) = [h[p] EXCEPT !.pc = "write", !.task = "new", !.copy = copy]
    BY DEF Built
  <2> HIDE DEF copy
  <2>3. /\ Built(p).pc # "idle" /\ Built(p).s = h[p].s /\ Built(p).st = h[p].st
        /\ Built(p).shown = h[p].shown
    BY <1>1, <2>2 DEF Whole, Names
  <2> QED
    BY <1>1, <1>2, <2>1, <2>3, CarryMove, CarriedOn
<1>5. CASE EmitFails(p) /\ h[p].id # None
  <2>1. h' = [h EXCEPT ![p] = Idle] /\ state' = state /\ h[p].pc = "emit"
    BY <1>5 DEF EmitFails, Leave, files
  <2>2. ~h[p].shown
    BY <1>1, <2>1 DEF Place
  <2> QED
    BY <1>1, <1>2, <2>1, <2>2, WentAway DEF EndStep
<1> QED
  BY <1>3, <1>4, <1>5

LEMMA RememberNext == RememberInv /\ Typed /\ [Next]_vars => RememberInv'
<1> SUFFICES ASSUME RememberInv, Typed, [Next]_vars PROVE RememberInv'
  OBVIOUS
<1>1. CASE Still
  BY <1>1 DEF Still, history, RememberInv
<1>2. ASSUME NEW p \in Hooks, Starts(p) PROVE RememberInv'
  BY <1>2, RememberStart
<1>3. ASSUME NEW p \in Hooks, Kill(p) PROVE RememberInv'
  BY <1>3 DEF Kill, RememberInv
<1>4. ASSUME NEW p \in Hooks, Work(p) PROVE RememberInv'
  <2>1. CASE Tidy(p) \/ ChangeIndex(p) \/ WriteTmp(p)
    BY <2>1, CarryIndex, CarriedOn
  <2>2. CASE \/ ReadPacket(p) \/ WritePacket(p) \/ InvalidateNext(p)
             \/ PacketUnread(p) \/ PassOver(p)
    BY <2>2, CarryPacket, CarriedOn
  <2>3. CASE LookupExact(p) \/ LookupRelaxed(p) \/ Alias(p) \/ FindEdited(p) \/ AllInvalidated(p)
    BY <2>3, CarryLookup, CarriedOn
  <2>4. CASE \/ GateBlocks(p) \/ Dedupe(p) \/ RepeatBlocks(p)
             \/ LogAdvice(p) \/ EmptyLog(p) \/ FillLog(p)
    BY <2>4, CarryGate, CarriedOn
  <2>5. CASE SavePrompt(p)
    BY <2>5, CarryPrompt, CarriedOn
  <2>6. CASE ReplaceIndex(p) \/ ReplaceFails(p)
    BY <2>6, RememberReplace
  <2>7. CASE EmitFails(p) \/ SaveState(p)
    BY <2>7, RememberEnds
  <2>8. CASE Emit(p)
    BY <2>8, RememberEmit
  <2> QED
    BY <1>1, <1>4, StillSteps, <2>1, <2>2, <2>3, <2>4, <2>5, <2>6, <2>7, <2>8 DEF Work
<1>5. CASE Next
  <2>1. PICK p \in Hooks : Starts(p) \/ Work(p) \/ Kill(p)
    BY <1>5 DEF Next, Starts
  <2> QED
    BY <1>2, <1>3, <1>4, <2>1
<1> QED
  BY <1>1, <1>5, StillSteps

\* What a session was shown is in its state once its hooks are done, unless its
\* calls overlapped, one was killed, or storing new advice failed (Advisory's
\* ShownIsRemembered).
THEOREM ShownAdviceIsRemembered == Spec => []ShownIsRemembered
<1>1. Init => Typed /\ RememberInv
  <2>1. Init => RememberInv
    BY DEF Init, RememberInv, Working, Idle
  <2> QED
    BY <2>1, TypedInit
<1>2. Typed /\ RememberInv /\ [Next]_vars => (Typed /\ RememberInv)'
  BY TypedNext, RememberNext
<1>3. Typed /\ RememberInv => ShownIsRemembered
  BY DEF RememberInv, ShownIsRemembered, Working
<1> QED
  BY <1>1, <1>2, <1>3, PTL DEF Spec

-----------------------------------------------------------------------------
(* An edit and a lookup find every packet.                                 *)

Closed(ix) == \A k \in Keys : ix.exact[k] \in Known(ix) \cup {None}

\* A hook is about to enter a packet into the index.
Enters == {"usage", "outcome"} \cup News
Adding(x, id) == x.id = id /\ x.task \in Enters /\ x.pc \in Saves \cup {"index"}

\* A hook with the memory x and the cache c has loaded, and works on, what is
\* known to the index i, and saves an index that knows more.
Thorough(x, c, i) ==
  /\ \A ix \in x.data : Closed(ix) /\ Known(ix) \subseteq Known(i)
  /\ x.pc \in Saves =>
       /\ Closed(x.ix)
       /\ c # {} => Known(i) \subseteq Known(x.ix)
       /\ x.back = "none" /\ x.task \in Enters => x.id \in Known(x.ix)
  /\ x.pc = "alias" => x.id \in Known(i) /\ \A ix \in x.data : x.id \in Known(ix)
  /\ x.back = "alias" => x.id \in Known(i) \cap Known(x.ix)
  /\ x.hits \cup x.todo \cup Current(x) \subseteq Known(i)

\* A packet is known to the index, or a hook is about to enter it.
FoundInv ==
  /\ Closed(index)
  /\ \A id \in Stored : id \in Known(index) \/ \E p \in Hooks : Adding(h[p], id)
  /\ \A p \in Hooks : Thorough(h[p], cache[p], index)

\* A step of one hook while the index stays as it is.
LEMMA FoundStep ==
  ASSUME FoundInv, Typed, NEW p \in Hooks, NEW x, h' = [h EXCEPT ![p] = x], UNCHANGED index,
         \A q \in Hooks : q # p => cache'[q] = cache[q],
         \A id \in Stored' : id \in Stored \/ Adding(x, id),
         \A id : Adding(h[p], id) => Adding(x, id),
         Thorough(x, cache'[p], index)
  PROVE  FoundInv'
<1>1. h'[p] = x /\ \A q \in Hooks : q # p => h'[q] = h[q]
  BY DEF Typed, HooksTyped
<1>2. Closed(index)'
  BY DEF FoundInv, Closed, Known
<1>3. \A q \in Hooks : Thorough(h'[q], cache'[q], index')
  BY <1>1 DEF FoundInv
<1>4. ASSUME NEW id \in Stored'
      PROVE  id \in Known(index') \/ \E q \in Hooks : Adding(h'[q], id)
  <2>1. CASE Adding(x, id)
    BY <1>1, <2>1
  <2>2. CASE id \in Stored /\ ~Adding(x, id)
    <3>1. id \in Known(index) \/ \E q \in Hooks : q # p /\ Adding(h[q], id)
      BY <2>2 DEF FoundInv
    <3> QED
      BY <1>1, <3>1 DEF Known
  <2> QED
    BY <1>4, <2>1, <2>2
<1> QED
  BY <1>2, <1>3, <1>4 DEF FoundInv

\* A hook that is not at an index, before the step or after it.
LEMMA FoundRest ==
  ASSUME FoundInv, Typed, NEW p \in Hooks, NEW x, h' = [h EXCEPT ![p] = x],
         UNCHANGED <<index, packets>>, \A q \in Hooks : q # p => cache'[q] = cache[q],
         h[p].pc \notin Saves \cup {"index"}, x.pc \notin Saves \cup {"alias"}, x.back # "alias",
         x.data = {}, x.hits \cup x.todo \cup Current(x) \subseteq Known(index)
  PROVE  FoundInv'
<1>1. Thorough(x, cache'[p], index)
  BY DEF Thorough
<1>2. \A id : ~Adding(h[p], id)
  BY DEF Adding
<1>3. Stored' = Stored
  BY DEF Stored
<1> QED
  BY <1>1, <1>2, <1>3, FoundStep

LEMMA FoundHook ==
  ASSUME FoundInv, StaleInv, Typed, NEW p \in Hooks
  PROVE  /\ HookSound(h[p], Len(packets)) /\ Whole(h[p]) /\ Place(h[p]) /\ Len(packets) \in Nat
         /\ Thorough(h[p], cache[p], index) /\ Closed(index)
         /\ h[p].hits \cup h[p].todo \cup Current(h[p]) \subseteq Known(index)
         /\ h[p].pc \notin Loads => h[p].data = {}
         /\ h[p].pc \notin Saves => h[p].back = "none"
  BY StaleHook DEF FoundInv, Thorough, HookSound, Place, Saves, Loads

\* What a hook loads is known to the index.
LEMMA LoadedKnown ==
  ASSUME FoundInv, StaleInv, Typed, NEW p \in Hooks, h[p].pc \in Loads
  PROVE  /\ Closed(Loaded(p)) /\ Known(Loaded(p)) \subseteq Known(index)
         /\ h[p].pc = "alias" => h[p].id \in Known(Loaded(p))
         /\ h[p].data = {} \/ cache[p] # {} => Loaded(p) = index
<1>1. Loaded(p) \in (IF h[p].data # {} THEN h[p].data ELSE IF cache[p] # {} THEN cache[p] ELSE {index})
  BY LoadedTyped
<1>2. h[p].data = {} \/ cache[p] # {} => Loaded(p) = index
  BY LoadedFresh
<1>3. Thorough(h[p], cache[p], index) /\ Closed(index)
  BY FoundHook
<1>4. CASE h[p].data = {}
  BY <1>2, <1>3, <1>4 DEF Thorough
<1>5. CASE h[p].data # {}
  <2>1. Loaded(p) \in h[p].data
    BY <1>1, <1>5
  <2> QED
    BY <1>2, <1>3, <2>1 DEF Thorough
<1> QED
  BY <1>4, <1>5

\* An index that is changed knows what it knew, and leads where it led.
LEMMA ChangedKnown ==
  ASSUME NEW n \in Nat, NEW ix \in AnyIndexes(n), Closed(ix), NEW id
  PROVE  /\ Known(Marked(ix, id)) = Known(ix) /\ Closed(Marked(ix, id))
         /\ \A c \in AnyPackets : /\ Known(Entered(ix, id, c)) = Known(ix) \cup {id}
                                  /\ Closed(Entered(ix, id, c))
         /\ \A k : id \in Known(ix) => /\ Known([ix EXCEPT !.exact[k] = id]) = Known(ix)
                                       /\ Closed([ix EXCEPT !.exact[k] = id])
<1>1. /\ ix = [exact |-> ix.exact, fresh |-> ix.fresh, dead |-> ix.dead, rough |-> ix.rough]
      /\ ix.exact = [k \in Keys |-> ix.exact[k]]
  BY DEF AnyIndexes
<1>2. Known(Marked(ix, id)) = Known(ix) /\ Closed(Marked(ix, id))
  <2>1. CASE id \notin Known(ix)
    BY <2>1 DEF Marked
  <2>2. CASE id \in Known(ix)
    <3> DEFINE new == [ix EXCEPT !.fresh = @ \ {id}, !.dead = @ \cup {id}]
    <3>1. Marked(ix, id) = new
      BY <2>2 DEF Marked
    <3>2. new.fresh = ix.fresh \ {id} /\ new.dead = ix.dead \cup {id} /\ new.exact = ix.exact
      BY <1>1
    <3> HIDE DEF new
    <3>3. Known(new) = Known(ix)
      BY <2>2, <3>2 DEF Known
    <3> QED
      BY <3>1, <3>2, <3>3 DEF Closed
  <2> QED
    BY <2>1, <2>2
<1>3. ASSUME NEW c \in AnyPackets
      PROVE  Known(Entered(ix, id, c)) = Known(ix) \cup {id} /\ Closed(Entered(ix, id, c))
  <2> DEFINE new == Entered(ix, id, c)
  <2>1. /\ new.exact = [ix.exact EXCEPT ![c.key] = id]
        /\ new.fresh = IF c.invalid THEN ix.fresh \ {id} ELSE ix.fresh \cup {id}
        /\ new.dead = IF c.invalid THEN ix.dead \cup {id} ELSE ix.dead \ {id}
    BY DEF Entered
  <2>2. c.invalid \in BOOLEAN
    BY DEF AnyPackets
  <2> HIDE DEF new
  <2>3. Known(new) = Known(ix) \cup {id}
    BY <2>1, <2>2 DEF Known
  <2>4. \A k \in Keys : new.exact[k] = ix.exact[k] \/ new.exact[k] = id
    BY <1>1, <2>1
  <2>5. Closed(new)
    BY <2>3, <2>4 DEF Closed
  <2> QED
    BY <2>3, <2>5 DEF new
<1>4. ASSUME NEW k, id \in Known(ix)
      PROVE  /\ Known([ix EXCEPT !.exact[k] = id]) = Known(ix)
             /\ Closed([ix EXCEPT !.exact[k] = id])
  <2> DEFINE new == [ix EXCEPT !.exact[k] = id]
  <2>1. /\ new.exact = [ix.exact EXCEPT ![k] = id] /\ new.fresh = ix.fresh /\ new.dead = ix.dead
    BY <1>1
  <2> HIDE DEF new
  <2>2. Known(new) = Known(ix)
    BY <2>1 DEF Known
  <2>3. \A j \in Keys : new.exact[j] = ix.exact[j] \/ new.exact[j] = id
    BY <1>1, <2>1
  <2>4. Closed(new)
    BY <1>4, <2>2, <2>3 DEF Closed
  <2> QED
    BY <2>2, <2>4 DEF new
<1> QED
  BY <1>2, <1>3, <1>4

\* The steps that touch neither an index nor what was found in it.
LEMMA FoundGate ==
  ASSUME FoundInv, StaleInv, Typed, NEW p \in Hooks,
         \/ GateBlocks(p) \/ RepeatBlocks(p) \/ EmitFails(p) \/ SavePrompt(p)
         \/ Dedupe(p) \/ Emit(p) \/ ReadPacket(p) \/ SaveState(p)
  PROVE  FoundInv'
<1>1. /\ Whole(h[p]) /\ h[p].pc \in {"gate", "emit", "prompt", "read", "save"}
      /\ h[p].back = "none" /\ h[p].data = {} /\ UNCHANGED <<packets, index>>
      /\ h[p].hits \cup h[p].todo \subseteq Known(index)
      /\ h[p].pc = "read" => h[p].task # "invalid"
  BY FoundHook DEF Loads, Saves, Place, GateBlocks, RepeatBlocks, EmitFails, SavePrompt,
                   Dedupe, Emit, ReadPacket, SaveState, files, history
<1>2. CASE SaveState(p) \/ (EmitFails(p) /\ h[p].id # None)
  <2>1. Leave(p)
    BY <1>2 DEF SaveState, EmitFails
  <2>2. h' = [h EXCEPT ![p] = Idle] /\ \A q \in Hooks : q # p => cache'[q] = cache[q]
    BY <2>1 DEF Leave, Typed, CachesTyped
  <2>3. /\ Idle.pc = "idle" /\ Idle.back = "none" /\ Idle.data = {} /\ Idle.hits = {}
        /\ Idle.todo = {} /\ Current(Idle) = {}
    BY DEF Idle, Current
  <2> QED
    BY <1>1, <2>2, <2>3, FoundRest DEF Saves
<1>3. CASE ~(SaveState(p) \/ (EmitFails(p) /\ h[p].id # None))
  <2> DEFINE copy == Changed(h[p], packets[h[p].id])
             a(pc) == [h[p] EXCEPT !.pc = pc]
             b == [h[p] EXCEPT !.pc = "read", !.task = "usage"]
             c == [h[p] EXCEPT !.pc = "write", !.task = "baseline", !.copy = NewPacket(Key(p), Baseline)]
             e == [h[p] EXCEPT !.pc = "log", !.shown = TRUE, !.st.shown = @ \cup {h[p].advice}]
             r == [h[p] EXCEPT !.pc = "write", !.seen = packets[h[p].id], !.copy = copy]
             same(x) == x.hits = h[p].hits /\ x.todo = h[p].todo /\ x.data = {} /\ x.back = "none"
  <2>1. /\ UNCHANGED cache
        /\ \/ \E x \in {a("save"), a("emit"), b, Built(p), c, e} : h' = [h EXCEPT ![p] = x]
           \/ h[p].pc = "read" /\ h' = [h EXCEPT ![p] = r]
    BY <1>3 DEF GateBlocks, RepeatBlocks, EmitFails, SavePrompt, Dedupe, Emit, ReadPacket,
                files, Goto, Become, Suppressed
  <2>2. /\ a("save").pc = "save" /\ same(a("save"))
        /\ a("emit").pc = "emit" /\ same(a("emit"))
    BY <1>1 DEF Whole, Names
  <2>3. b.pc = "read" /\ same(b)
    BY <1>1 DEF Whole, Names
  <2>4. Built(p).pc = "write" /\ Built(p).task = "new" /\ same(Built(p))
    BY <1>1 DEF Whole, Names, Built
  <2>5. c.pc = "write" /\ c.task = "baseline" /\ same(c)
    BY <1>1 DEF Whole, Names
  <2>6. e.pc = "log" /\ same(e)
    BY <1>1 DEF Whole, Names
  <2> HIDE DEF copy
  <2>7. r.pc = "write" /\ r.task = h[p].task /\ same(r)
    BY <1>1 DEF Whole, Names
  <2> HIDE DEF a, b, c, e, r, same
  <2>8. PICK x : /\ h' = [h EXCEPT ![p] = x] /\ same(x)
                 /\ x.pc \in {"save", "emit", "read", "log", "write"}
                 /\ x.pc = "write" => x.task # "invalid"
    <3>1. CASE \E x \in {a("save"), a("emit"), b, Built(p), c, e} : h' = [h EXCEPT ![p] = x]
      <4>1. PICK x \in {a("save"), a("emit"), b, Built(p), c, e} : h' = [h EXCEPT ![p] = x]
        BY <3>1
      <4>2. same(x)
        BY <2>2, <2>3, <2>4, <2>5, <2>6
      <4>3. /\ x.pc \in {"save", "emit", "read", "log", "write"}
            /\ x.pc = "write" => x.task # "invalid"
        BY <2>2, <2>3, <2>4, <2>5, <2>6
      <4> QED
        BY <4>1, <4>2, <4>3
    <3>2. CASE h[p].pc = "read" /\ h' = [h EXCEPT ![p] = r]
      BY <1>1, <2>7, <3>2
    <3> QED
      BY <2>1, <3>1, <3>2
  <2>9. Current(x) = {}
    BY <2>8 DEF Current
  <2> QED
    BY <1>1, <2>1, <2>8, <2>9, FoundRest DEF Saves, same
<1> QED
  BY <1>2, <1>3

LEMMA FoundLog ==
  ASSUME FoundInv, StaleInv, Typed, NEW p \in Hooks, LogAdvice(p) \/ EmptyLog(p) \/ FillLog(p)
  PROVE  FoundInv'
<1> DEFINE a == [h[p] EXCEPT !.pc = "cap"]
           b == [h[p] EXCEPT !.pc = "fill", !.lines = log]
           c == [Noted(p) EXCEPT !.lines = {}]
           good(x) == /\ x.pc \in {"cap", "fill", "read", "write"}
                      /\ x.pc = "write" => x.task # "invalid"
                      /\ x.hits = h[p].hits /\ x.todo = h[p].todo /\ x.data = {} /\ x.back = "none"
<1>1. /\ Whole(h[p]) /\ h[p].pc \in {"log", "cap", "fill"} /\ h[p].back = "none"
      /\ h[p].data = {} /\ h[p].hits \cup h[p].todo \subseteq Known(index)
      /\ UNCHANGED <<packets, index, cache>>
  BY FoundHook DEF Loads, Saves, LogAdvice, EmptyLog, FillLog
<1>2. good(a) /\ good(b)
  BY <1>1 DEF Whole, Names
<1>3. good(Noted(p)) /\ good(c)
  BY <1>1, NotedStep
<1>4. h' = [h EXCEPT ![p] = a] \/ h' = [h EXCEPT ![p] = b] \/ h' = [h EXCEPT ![p] = c]
      \/ h' = [h EXCEPT ![p] = Noted(p)]
  BY DEF LogAdvice, EmptyLog, FillLog, Become, Goto
<1> HIDE DEF a, b, c
<1>5. PICK x : h' = [h EXCEPT ![p] = x] /\ good(x)
  BY <1>2, <1>3, <1>4
<1>6. Current(x) = {}
  BY <1>5 DEF Current
<1> QED
  BY <1>1, <1>5, <1>6, FoundRest DEF Saves

LEMMA FoundUnread ==
  ASSUME FoundInv, StaleInv, Typed, NEW p \in Hooks, PacketUnread(p)
  PROVE  FoundInv'
<1> DEFINE x == Resumed(h[p])
<1>1. /\ h' = [h EXCEPT ![p] = x] /\ UNCHANGED <<packets, index, cache>> /\ h[p].pc = "read"
  BY DEF PacketUnread, Become, files
<1>2. /\ Whole(h[p]) /\ h[p].task \in {"usage", "outcome"} /\ h[p].back = "none" /\ h[p].data = {}
      /\ h[p].hits \cup h[p].todo \subseteq Known(index)
  BY <1>1, FoundHook DEF Loads, Saves, Place
<1>3. /\ x.pc \in {"save", "edit"} /\ x.task = "none" /\ x.back = "none" /\ x.data = {}
      /\ x.hits = h[p].hits /\ x.todo = h[p].todo
  BY <1>2, ResumedFields
<1> HIDE DEF x
<1>4. Current(x) = {}
  BY <1>3 DEF Current
<1> QED
  BY <1>1, <1>2, <1>3, <1>4, FoundRest DEF Saves

LEMMA FoundWrite ==
  ASSUME FoundInv, StaleInv, Typed, NEW p \in Hooks, WritePacket(p)
  PROVE  FoundInv'
<1> DEFINE new == h[p].task \in {"new", "baseline"}
           id == IF new THEN Len(packets) + 1 ELSE h[p].id
           x == [h[p] EXCEPT !.pc = "index", !.id = id, !.seen = NoCopy]
<1>1. /\ packets' = IF new THEN Append(packets, h[p].copy) ELSE [packets EXCEPT ![id] = h[p].copy]
      /\ h' = [h EXCEPT ![p] = x] /\ h[p].pc = "write" /\ UNCHANGED <<index, cache>>
  BY DEF WritePacket, Become, News
<1>2. /\ Whole(h[p]) /\ Len(packets) \in Nat /\ Thorough(h[p], cache[p], index)
      /\ h[p].hits \cup h[p].todo \cup Current(h[p]) \subseteq Known(index)
      /\ h[p].data = {} /\ h[p].back = "none" /\ packets \in Seq(AnyPackets) /\ h[p].copy \in AnyPackets
  BY <1>1, FoundHook DEF Loads, Saves, Typed, FilesTyped, HookSound, Fields
<1>3. /\ x.pc = "index" /\ x.id = id /\ x.task = h[p].task /\ x.back = "none" /\ x.data = {}
      /\ x.hits = h[p].hits /\ x.todo = h[p].todo
  BY <1>2 DEF Whole, Names
<1> HIDE DEF x
<1>4. \A j \in Stored' : j \in Stored \/ Adding(x, j)
  <2>1. CASE new
    <3>1. Len(packets') = Len(packets) + 1
      BY <1>1, <1>2, <2>1
    <3>2. Adding(x, Len(packets) + 1)
      BY <1>3, <2>1 DEF Adding, Enters, News
    <3> QED
      BY <1>2, <3>1, <3>2 DEF Stored
  <2>2. CASE ~new
    <3>1. Len(packets') = Len(packets)
      BY <1>1, <1>2, <2>2
    <3> QED
      BY <3>1 DEF Stored
  <2> QED
    BY <2>1, <2>2
<1>5. Current(x) = Current(h[p])
  BY <1>1, <1>3 DEF Current
<1>6. Thorough(x, cache'[p], index)
  BY <1>2, <1>3, <1>5 DEF Thorough, Saves
<1>7. \A j : ~Adding(h[p], j)
  BY <1>1 DEF Adding, Saves
<1> QED
  BY <1>1, <1>4, <1>6, <1>7, FoundStep

LEMMA FoundTidy ==
  ASSUME FoundInv, StaleInv, Typed, NEW p \in Hooks, Tidy(p)
  PROVE  FoundInv'
<1> DEFINE ix == [index EXCEPT !.rough = FALSE]
           x == [h[p] EXCEPT !.pc = "tmp", !.back = h[p].pc, !.ix = ix]
<1>1. /\ h' = [h EXCEPT ![p] = x] /\ UNCHANGED <<packets, index>>
      /\ h[p].pc \in Loads /\ h[p].data = {} /\ cache' = [cache EXCEPT ![p] = {ix}]
  BY DEF Tidy, Ready, Become, files, Loads
<1>2. /\ Whole(h[p]) /\ Thorough(h[p], cache[p], index) /\ Closed(index)
      /\ h[p].hits \cup h[p].todo \cup Current(h[p]) \subseteq Known(index)
      /\ Careful(h[p], cache[p], index, packets, Gone(h, retired), retired)
  BY FoundHook, StaleHook
<1>3. ix.fresh = index.fresh /\ ix.dead = index.dead /\ ix.exact = index.exact
  BY DEF Typed, FilesTyped, AnyIndexes
<1> HIDE DEF ix
<1>4. Known(ix) = Known(index) /\ Closed(ix)
  BY <1>2, <1>3 DEF Known, Closed
<1>5. /\ x.pc = "tmp" /\ x.back = h[p].pc /\ x.ix = ix /\ x.task = h[p].task /\ x.id = h[p].id
      /\ x.data = {} /\ x.hits = h[p].hits /\ x.todo = h[p].todo
  BY <1>1, <1>2 DEF Whole, Names
<1> HIDE DEF x
<1>6. cache'[p] = {ix} /\ \A q \in Hooks : q # p => cache'[q] = cache[q]
  BY <1>1 DEF Typed, CachesTyped
<1>7. Current(x) = Current(h[p])
  <2>1. CASE h[p].pc = "index"
    BY <1>5, <2>1 DEF Current
  <2>2. CASE h[p].pc # "index"
    BY <1>1, <1>2, <1>5, <2>2 DEF Current, Careful, Loads, Seeks
  <2> QED
    BY <2>1, <2>2
<1>8. Thorough(x, {ix}, index)
  BY <1>1, <1>2, <1>4, <1>5, <1>7 DEF Thorough, Loads
<1>9. \A id : Adding(h[p], id) => Adding(x, id)
  BY <1>5 DEF Adding, Saves
<1>10. Stored' = Stored
  BY <1>1 DEF Stored
<1> QED
  BY <1>1, <1>6, <1>8, <1>9, <1>10, FoundStep

LEMMA FoundChange ==
  ASSUME FoundInv, StaleInv, Typed, NEW p \in Hooks, ChangeIndex(p)
  PROVE  FoundInv'
<1> DEFINE id == h[p].id
           old == Loaded(p)
           ix == IF h[p].task = "invalid" THEN Marked(old, id) ELSE Entered(old, id, h[p].copy)
           y == [h[p] EXCEPT !.data = {}]
           x == [y EXCEPT !.pc = "tmp", !.ix = ix]
<1>1. /\ h' = [h EXCEPT ![p] = x] /\ UNCHANGED <<packets, index>>
      /\ h[p].pc = "index" /\ Keep(p, ix)
  BY DEF ChangeIndex, Become, Using, files
<1>2. /\ Whole(h[p]) /\ Place(h[p]) /\ Thorough(h[p], cache[p], index) /\ Len(packets) \in Nat
      /\ h[p].hits \cup h[p].todo \cup Current(h[p]) \subseteq Known(index)
      /\ h[p].back = "none" /\ h[p].copy \in AnyPackets
  BY <1>1, FoundHook DEF HookSound, Fields, Saves
<1>3. /\ Closed(old) /\ Known(old) \subseteq Known(index) /\ old \in AnyIndexes(Len(packets))
  BY <1>1, LoadedKnown, LoadedTyped DEF Loads
<1>4. cache'[p] = {} \/ (cache'[p] = {ix} /\ old = index)
  BY <1>1, KeptIndex DEF Loads
<1>5. \A q \in Hooks : q # p => cache'[q] = cache[q]
  BY <1>1, KeptIndex DEF Loads
<1>6. /\ Closed(ix) /\ Known(old) \subseteq Known(ix)
      /\ h[p].task \in Enters => id \in Known(ix)
  <2> HIDE DEF old, id
  <2>1. CASE h[p].task = "invalid"
    BY <1>2, <1>3, <2>1, ChangedKnown DEF Enters, News
  <2>2. CASE h[p].task # "invalid"
    <3>1. ix = Entered(old, id, h[p].copy)
      BY <2>2
    <3> HIDE DEF ix
    <3>2. Known(ix) = Known(old) \cup {id} /\ Closed(ix)
      BY <1>2, <1>3, <3>1, ChangedKnown
    <3> QED
      BY <3>2
  <2> QED
    BY <2>1, <2>2
<1> HIDE DEF ix, old, id
<1>7. /\ x.pc = "tmp" /\ x.back = "none" /\ x.ix = ix /\ x.task = h[p].task /\ x.id = h[p].id
      /\ x.data = {} /\ x.hits = h[p].hits /\ x.todo = h[p].todo
  BY <1>1, <1>2 DEF Whole, Names
<1> HIDE DEF x
<1>8. Current(x) = Current(h[p])
  BY <1>1, <1>7 DEF Current
<1>9. Thorough(x, cache'[p], index)
  BY <1>2, <1>4, <1>6, <1>7, <1>8 DEF Thorough, id
<1>10. \A j : Adding(h[p], j) => Adding(x, j)
  BY <1>7 DEF Adding, Saves
<1>11. Stored' = Stored
  BY <1>1 DEF Stored
<1> QED
  BY <1>1, <1>5, <1>9, <1>10, <1>11, FoundStep

LEMMA FoundTmp ==
  ASSUME FoundInv, StaleInv, Typed, NEW p \in Hooks, WriteTmp(p)
  PROVE  FoundInv'
<1> DEFINE x == [h[p] EXCEPT !.pc = "replace"]
<1>1. /\ h' = [h EXCEPT ![p] = x] /\ UNCHANGED <<packets, index, cache>> /\ h[p].pc = "tmp"
  BY DEF WriteTmp, Goto, Become
<1>2. Whole(h[p]) /\ Thorough(h[p], cache[p], index) /\ h[p].data = {}
  BY <1>1, FoundHook DEF Loads
<1>3. /\ x.pc = "replace" /\ x.back = h[p].back /\ x.ix = h[p].ix /\ x.task = h[p].task
      /\ x.id = h[p].id /\ x.data = h[p].data /\ x.hits = h[p].hits /\ x.todo = h[p].todo
  BY <1>2 DEF Whole, Names
<1> HIDE DEF x
<1>4. Current(x) = Current(h[p])
  BY <1>1, <1>3 DEF Current
<1>5. Thorough(x, cache'[p], index)
  BY <1>1, <1>2, <1>3, <1>4 DEF Thorough, Saves
<1>6. \A id : Adding(h[p], id) => Adding(x, id)
  BY <1>3 DEF Adding, Saves
<1>7. Stored' = Stored
  BY <1>1 DEF Stored
<1> QED
  BY <1>1, <1>5, <1>6, <1>7, FoundStep

\* The index that is saved knows what the file knew, and the packet it is about.
LEMMA FoundReplace ==
  ASSUME FoundInv, StaleInv, Typed, NEW p \in Hooks, ReplaceIndex(p), ~clash'
  PROVE  FoundInv'
<1> DEFINE ends == /\ h[p].back = "none"
                   /\ h[p].task = "baseline" \/ (h[p].task = "new" /\ ~h[p].shown)
           x == IF ends THEN Idle ELSE Resumed(h[p])
<1>1. /\ h' = [h EXCEPT ![p] = x] /\ UNCHANGED packets /\ h[p].pc = "replace"
      /\ index' = h[p].ix /\ cache[p] # {}
      /\ cache' = [q \in Hooks |-> IF q = p /\ ~ends THEN {h[p].ix} ELSE {}]
  BY DEF ReplaceIndex, Become
<1>2. /\ Whole(h[p]) /\ Place(h[p]) /\ Thorough(h[p], cache[p], index) /\ h[p].data = {}
      /\ h[p].hits \cup h[p].todo \cup Current(h[p]) \subseteq Known(index)
      /\ Careful(h[p], cache[p], index, packets, Gone(h, retired), retired)
  BY <1>1, FoundHook, StaleHook DEF Loads
<1>3. ~ends => h[p].back # "none" \/ h[p].task \in {"alias", "new", "usage", "outcome", "invalid"}
  BY <1>1, <1>2 DEF Place, Changes, News
<1>4. Closed(h[p].ix) /\ Known(index) \subseteq Known(h[p].ix)
  BY <1>1, <1>2 DEF Thorough, Saves
<1>5. h'[p] = x /\ \A q \in Hooks : q # p => h'[q] = h[q]
  BY <1>1 DEF Typed, HooksTyped
<1>6. ASSUME NEW q \in Hooks, q # p
      PROVE  Thorough(h[q], {}, h[p].ix)
  <2>1. Thorough(h[q], cache[q], index)
    BY DEF FoundInv
  <2> QED
    BY <1>4, <2>1 DEF Thorough
<1>7. Thorough(x, cache'[p], h[p].ix)
  <2>1. CASE ends
    <3>1. /\ Idle.pc = "idle" /\ Idle.back = "none" /\ Idle.data = {} /\ Idle.hits = {}
          /\ Idle.todo = {} /\ Current(Idle) = {}
      BY DEF Idle, Current
    <3>2. x = Idle
      BY <2>1
    <3> HIDE DEF x
    <3> QED
      BY <3>1, <3>2 DEF Thorough, Saves
  <2>2. CASE ~ends /\ h[p].back # "none"
    <3>1. /\ x.pc = h[p].back /\ x.id = h[p].id /\ x.back = "none" /\ x.data = {h[p].ix}
          /\ x.task = h[p].task /\ x.hits = h[p].hits /\ x.todo = h[p].todo
      BY <1>2, <2>2, ResumedFields
    <3> HIDE DEF x
    <3>2. Current(x) \subseteq Current(h[p])
      BY <1>1, <3>1 DEF Current
    <3>3. h[p].back \in Loads
      BY <1>2, <2>2 DEF Place
    <3>4. h[p].back = "alias" => h[p].id \in Known(h[p].ix)
      BY <1>2 DEF Thorough
    <3> QED
      BY <1>2, <1>4, <3>1, <3>2, <3>3, <3>4 DEF Thorough, Loads, Saves
  <2>3. CASE ~ends /\ h[p].back = "none"
    <3>1. /\ x.back = "none" /\ x.data = {} /\ x.hits = h[p].hits /\ x.todo = h[p].todo
          /\ x.pc \in {"gate", "read", "save", "edit", "next"}
      BY <1>2, <1>3, <2>3, ResumedFields
    <3> HIDE DEF x
    <3>2. Current(x) = {}
      BY <3>1 DEF Current
    <3> QED
      BY <1>2, <1>4, <3>1, <3>2 DEF Thorough, Saves
  <2> QED
    BY <2>1, <2>2, <2>3
<1>8. \A q \in Hooks : Thorough(h'[q], cache'[q], index')
  BY <1>1, <1>5, <1>6, <1>7
<1>9. Closed(index)'
  BY <1>1, <1>4 DEF Closed, Known
<1>10. ASSUME NEW id \in Stored'
       PROVE  id \in Known(index') \/ \E q \in Hooks : Adding(h'[q], id)
  <2>1. id \in Stored
    BY <1>1, <1>10 DEF Stored
  <2>2. id \in Known(index) \/ \E q \in Hooks : Adding(h[q], id)
    BY <2>1 DEF FoundInv
  <2>3. CASE id \in Known(index)
    BY <1>1, <1>4, <2>3
  <2>4. CASE \E q \in Hooks : q # p /\ Adding(h[q], id)
    BY <1>5, <2>4
  <2>5. CASE Adding(h[p], id)
    <3>1. CASE h[p].back = "none"
      BY <1>1, <1>2, <2>5, <3>1 DEF Adding, Thorough, Saves
    <3>2. CASE h[p].back # "none"
      <4>1. h[p].back = "index"
        BY <1>2, <2>5, <3>2 DEF Place, Careful, Loads, Seeks, Adding, Enters, News
      <4>2. x.pc = "index" /\ x.id = h[p].id /\ x.task = h[p].task
        BY <1>2, <4>1, ResumedFields
      <4> HIDE DEF x
      <4>3. Adding(x, id)
        BY <2>5, <4>2 DEF Adding
      <4> QED
        BY <1>5, <4>3
    <3> QED
      BY <3>1, <3>2
  <2> QED
    BY <2>2, <2>3, <2>4, <2>5
<1> QED
  BY <1>8, <1>9, <1>10 DEF FoundInv

LEMMA FoundLookup ==
  ASSUME FoundInv, StaleInv, Typed, NEW p \in Hooks, LookupExact(p) \/ LookupRelaxed(p)
  PROVE  FoundInv'
<1> DEFINE y == [h[p] EXCEPT !.data = {}]
           found(id, pc) == [y EXCEPT !.pc = pc, !.id = id, !.advice = packets[id].advice]
           new(a) == [y EXCEPT !.pc = "gate", !.advice = a]
           on(pc) == [y EXCEPT !.pc = pc]
           same(x) == /\ x.hits = h[p].hits /\ x.todo = h[p].todo /\ x.data = {} /\ x.back = "none"
                      /\ x.task = "none"
<1>1. /\ UNCHANGED <<packets, index>> /\ h[p].pc \in {"exact", "relaxed"} /\ Keep(p, Loaded(p))
      /\ \/ \E id : h' = [h EXCEPT ![p] = found(id, "gate")]
         \/ \E id \in Loaded(p).fresh : h' = [h EXCEPT ![p] = found(id, "alias")]
         \/ \E a : h' = [h EXCEPT ![p] = new(a)]
         \/ \E pc \in {"relaxed", "save"} : h' = [h EXCEPT ![p] = on(pc)]
  <2>1. CASE LookupExact(p)
    BY <2>1 DEF LookupExact, Become, Found, Using, files
  <2>2. CASE LookupRelaxed(p)
    BY <2>2 DEF LookupRelaxed, Become, Found, Using, files
  <2> QED
    BY <2>1, <2>2
<1>2. /\ Whole(h[p]) /\ Thorough(h[p], cache[p], index) /\ h[p].back = "none" /\ h[p].task = "none"
      /\ h[p].hits \cup h[p].todo \subseteq Known(index)
  BY <1>1, FoundHook, StaleHook DEF Saves, Careful, Seeks
<1>3. \A q \in Hooks : q # p => cache'[q] = cache[q]
  BY <1>1, KeptIndex DEF Loads
<1>4. Known(Loaded(p)) \subseteq Known(index)
  BY <1>1, LoadedKnown DEF Loads
<1>5. /\ Whole(y) /\ y.hits = h[p].hits /\ y.todo = h[p].todo /\ y.data = {} /\ y.back = "none"
      /\ y.task = "none"
  BY <1>2 DEF Whole, Names
<1> HIDE DEF y
<1>6. ASSUME NEW id, NEW pc PROVE found(id, pc).pc = pc /\ found(id, pc).id = id /\ same(found(id, pc))
  BY <1>5 DEF Whole, Names
<1>7. ASSUME NEW a PROVE new(a).pc = "gate" /\ same(new(a))
  BY <1>5 DEF Whole, Names
<1>8. ASSUME NEW pc PROVE on(pc).pc = pc /\ same(on(pc))
  BY <1>5 DEF Whole, Names
<1> HIDE DEF found, new, on
<1>9. ASSUME NEW x, h' = [h EXCEPT ![p] = x], same(x), x.pc \in {"gate", "relaxed", "save"}
      PROVE  FoundInv'
  <2>1. Current(x) = {}
    BY <1>9 DEF Current
  <2> QED
    BY <1>1, <1>2, <1>3, <1>9, <2>1, FoundRest DEF Saves
<1>10. CASE \E id : h' = [h EXCEPT ![p] = found(id, "gate")]
  <2>1. PICK id : h' = [h EXCEPT ![p] = found(id, "gate")]
    BY <1>10
  <2> QED
    BY <1>6, <1>9, <2>1
<1>11. CASE \E a : h' = [h EXCEPT ![p] = new(a)]
  <2>1. PICK a : h' = [h EXCEPT ![p] = new(a)]
    BY <1>11
  <2> QED
    BY <1>7, <1>9, <2>1
<1>12. CASE \E pc \in {"relaxed", "save"} : h' = [h EXCEPT ![p] = on(pc)]
  <2>1. PICK pc \in {"relaxed", "save"} : h' = [h EXCEPT ![p] = on(pc)]
    BY <1>12
  <2> QED
    BY <1>8, <1>9, <2>1
<1>13. CASE \E id \in Loaded(p).fresh : h' = [h EXCEPT ![p] = found(id, "alias")]
  <2>1. PICK id \in Loaded(p).fresh : h' = [h EXCEPT ![p] = found(id, "alias")]
    BY <1>13
  <2> DEFINE x == found(id, "alias")
  <2>2. x.pc = "alias" /\ x.id = id /\ same(x)
    BY <1>6
  <2>3. h' = [h EXCEPT ![p] = x]
    BY <2>1
  <2> HIDE DEF x
  <2>4. id \in Known(index)
    BY <1>4 DEF Known
  <2>5. Current(x) = {}
    BY <2>2 DEF Current
  <2>6. Thorough(x, cache'[p], index)
    BY <1>2, <2>2, <2>4, <2>5 DEF Thorough, Saves
  <2>7. \A j : ~Adding(h[p], j)
    BY <1>2 DEF Adding, Enters, News
  <2>8. Stored' = Stored
    BY <1>1 DEF Stored
  <2> QED
    BY <1>1, <1>3, <2>3, <2>6, <2>7, <2>8, FoundStep
<1> QED
  BY <1>1, <1>10, <1>11, <1>12, <1>13

LEMMA FoundAlias ==
  ASSUME FoundInv, StaleInv, Typed, NEW p \in Hooks, Alias(p)
  PROVE  FoundInv'
<1> DEFINE old == Loaded(p)
           new == [old EXCEPT !.exact[Key(p)] = h[p].id]
           y == [h[p] EXCEPT !.data = {}]
           g == [y EXCEPT !.pc = "gate"]
           t == [y EXCEPT !.pc = "tmp", !.task = "alias", !.ix = new]
           x == IF new = old THEN g ELSE t
<1>1. /\ h' = [h EXCEPT ![p] = x] /\ UNCHANGED <<packets, index>>
      /\ h[p].pc = "alias" /\ Keep(p, new)
  BY DEF Alias, Become, Using, files
<1>2. /\ Whole(h[p]) /\ Len(packets) \in Nat /\ Thorough(h[p], cache[p], index)
      /\ h[p].back = "none" /\ h[p].task = "none"
      /\ h[p].hits \cup h[p].todo \subseteq Known(index)
  BY <1>1, FoundHook, StaleHook DEF Saves, Careful, Seeks
<1>3. /\ cache'[p] = {} \/ (cache'[p] = {new} /\ old = index)
      /\ \A q \in Hooks : q # p => cache'[q] = cache[q]
  BY <1>1, KeptIndex DEF Loads
<1>4. Closed(old) /\ h[p].id \in Known(old) /\ old \in AnyIndexes(Len(packets))
  BY <1>1, LoadedKnown, LoadedTyped DEF Loads
<1>5. Known(new) = Known(old) /\ Closed(new)
  <2> HIDE DEF old
  <2> QED
    BY <1>2, <1>4, ChangedKnown
<1> HIDE DEF new, old
<1>6. /\ g.pc = "gate" /\ g.data = {} /\ g.hits = h[p].hits /\ g.todo = h[p].todo
      /\ g.task = "none" /\ g.back = "none"
  BY <1>2 DEF Whole, Names
<1>7. /\ t.pc = "tmp" /\ t.data = {} /\ t.ix = new /\ t.hits = h[p].hits /\ t.todo = h[p].todo
      /\ t.task = "alias" /\ t.back = "none"
  BY <1>2 DEF Whole, Names
<1> HIDE DEF g, t
<1>8. /\ x.data = {} /\ x.back = "none" /\ x.task \in {"none", "alias"} /\ x.hits = h[p].hits
      /\ x.todo = h[p].todo /\ (x.pc = "gate" \/ (x.pc = "tmp" /\ x.ix = new))
  BY <1>6, <1>7
<1> HIDE DEF x
<1>9. Current(x) = {}
  BY <1>8 DEF Current
<1>10. Thorough(x, cache'[p], index)
  BY <1>2, <1>3, <1>5, <1>8, <1>9 DEF Thorough, Saves, Enters, News
<1>11. \A j : ~Adding(h[p], j)
  BY <1>2 DEF Adding, Enters, News
<1>12. Stored' = Stored
  BY <1>1 DEF Stored
<1> QED
  BY <1>1, <1>3, <1>10, <1>11, <1>12, FoundStep

\* What an edit finds is in the index, and stays there.
LEMMA FoundFind ==
  ASSUME FoundInv, StaleInv, Typed, NEW p \in Hooks, FindEdited(p)
  PROVE  FoundInv'
<1> DEFINE hits == {id \in Known(Loaded(p)) : packets[id].advice \in h[p].edited}
           y == [h[p] EXCEPT !.data = {}]
           passed == IF h[p].edited = Advices THEN {} ELSE hits \cap torn
           x == [y EXCEPT !.pc = "next", !.edited = {}, !.hits = hits, !.todo = hits \ passed]
           z == [y EXCEPT !.pc = "save"]
<1>1. /\ Whole(h[p]) /\ h[p].pc = "edit" /\ h[p].back = "none" /\ UNCHANGED <<packets, index>>
      /\ h[p].hits \cup h[p].todo \subseteq Known(index)
  BY FoundHook DEF FindEdited, files, Saves
<1>2. hits \subseteq Known(index)
  BY <1>1, LoadedKnown DEF Loads
<1> HIDE DEF hits, passed
<1>3. /\ x.pc = "next" /\ x.data = {} /\ x.hits = hits /\ x.todo \subseteq hits /\ x.back = "none"
  BY <1>1 DEF Whole, Names
<1>4. /\ z.pc = "save" /\ z.data = {} /\ z.hits = h[p].hits /\ z.todo = h[p].todo
      /\ z.back = "none"
  BY <1>1 DEF Whole, Names
<1>5. CASE h[p].t \in Editors
  <2>1. h' = [h EXCEPT ![p] = x] /\ Keep(p, Loaded(p))
    BY <1>5 DEF FindEdited, Become, Using, hits, passed
  <2>2. \A q \in Hooks : q # p => cache'[q] = cache[q]
    BY <1>1, <2>1, KeptIndex DEF Loads
  <2> HIDE DEF x
  <2>3. Current(x) = {}
    BY <1>3 DEF Current
  <2> QED
    BY <1>1, <1>2, <1>3, <2>1, <2>2, <2>3, FoundRest DEF Saves
<1>6. CASE h[p].t \notin Editors
  <2>1. h' = [h EXCEPT ![p] = z] /\ UNCHANGED cache
    BY <1>6 DEF FindEdited, Become, Using
  <2> HIDE DEF z
  <2>2. Current(z) = {}
    BY <1>4 DEF Current
  <2> QED
    BY <1>1, <1>4, <2>1, <2>2, FoundRest DEF Saves
<1> QED
  BY <1>5, <1>6

LEMMA FoundEdit ==
  ASSUME FoundInv, StaleInv, Typed, NEW p \in Hooks, InvalidateNext(p) \/ AllInvalidated(p)
  PROVE  FoundInv'
<1>1. /\ Whole(h[p]) /\ h[p].pc = "next" /\ h[p].back = "none" /\ h[p].data = {}
      /\ h[p].hits \cup h[p].todo \subseteq Known(index) /\ UNCHANGED <<packets, index, cache>>
  BY FoundHook DEF InvalidateNext, AllInvalidated, files, Saves, Loads
<1>2. CASE InvalidateNext(p)
  <2>1. PICK id \in h[p].todo \ torn :
          h' = [h EXCEPT ![p] = [h[p] EXCEPT !.pc = "write", !.task = "invalid", !.id = id,
                                   !.todo = @ \ {id}, !.seen = packets[id],
                                   !.copy = [packets[id] EXCEPT !.invalid = TRUE]]]
    BY <1>2 DEF InvalidateNext, Become
  <2> DEFINE copy == [packets[id] EXCEPT !.invalid = TRUE]
             x == [h[p] EXCEPT !.pc = "write", !.task = "invalid", !.id = id, !.todo = @ \ {id},
                               !.seen = packets[id], !.copy = copy]
  <2>2. h' = [h EXCEPT ![p] = x]
    BY <2>1
  <2> HIDE DEF copy
  <2>3. /\ x.pc = "write" /\ x.data = {} /\ x.hits = h[p].hits /\ x.todo = h[p].todo \ {id}
        /\ x.task = "invalid" /\ x.back = "none" /\ x.id = id
    BY <1>1 DEF Whole, Names
  <2> HIDE DEF x
  <2>4. x.hits \cup x.todo \cup Current(x) \subseteq Known(index)
    BY <1>1, <2>3 DEF Current
  <2> QED
    BY <1>1, <2>2, <2>3, <2>4, FoundRest DEF Saves
<1>3. CASE AllInvalidated(p)
  <2> DEFINE x == [h[p] EXCEPT !.pc = "save", !.hits = {}]
  <2>1. h' = [h EXCEPT ![p] = x]
    BY <1>3 DEF AllInvalidated, Become
  <2>2. x.pc = "save" /\ x.data = {} /\ x.hits = {} /\ x.todo = h[p].todo /\ x.back = "none"
    BY <1>1 DEF Whole, Names
  <2> HIDE DEF x
  <2>3. Current(x) = {}
    BY <2>2 DEF Current
  <2> QED
    BY <1>1, <2>1, <2>2, <2>3, FoundRest DEF Saves
<1> QED
  BY <1>2, <1>3

LEMMA FoundBegin ==
  ASSUME FoundInv, StaleInv, Typed, NEW p \in Hooks, NEW s \in Sessions, NEW hook,
         Whole(hook), hook.back = "none", hook.data = {}, hook.hits = {}, hook.todo = {},
         hook.pc \in {"exact", "edit", "read", "prompt"}, Begin(p, s, hook)
  PROVE  FoundInv'
<1> DEFINE x == [hook EXCEPT !.s = s, !.st = state[s], !.before = retired]
<1>1. h' = [h EXCEPT ![p] = x] /\ UNCHANGED <<packets, index, cache>> /\ h[p].pc = "idle"
  BY DEF Begin, Become, files
<1>2. x.pc = hook.pc /\ x.data = {} /\ x.hits = {} /\ x.todo = {} /\ x.back = "none"
  BY DEF Whole, Names
<1> HIDE DEF x
<1>3. Current(x) = {}
  BY <1>2 DEF Current
<1> QED
  BY <1>1, <1>2, <1>3, FoundRest DEF Saves

LEMMA FoundStart ==
  ASSUME FoundInv, StaleInv, Typed, NEW p \in Hooks, Starts(p)
  PROVE  FoundInv'
<1>1. /\ Whole(Idle) /\ Idle.back = "none" /\ Idle.data = {} /\ Idle.hits = {} /\ Idle.todo = {}
  BY Blanks DEF Idle, HookSound
<1>2. ASSUME NEW s \in Sessions, NEW t \in Tools, PreTool(p, s, t) PROVE FoundInv'
  <2> DEFINE x == [Idle EXCEPT !.pc = "exact", !.t = t]
  <2>1. Whole(x) /\ x.pc = "exact" /\ x.back = "none" /\ x.data = {} /\ x.hits = {} /\ x.todo = {}
    BY <1>1 DEF Whole, Names
  <2>2. Begin(p, s, x)
    BY <1>2 DEF PreTool
  <2> HIDE DEF x
  <2> QED
    BY <2>1, <2>2, FoundBegin
<1>3. ASSUME NEW s \in Sessions, NEW t \in Tools, NEW edited \in Edits(t), PostTool(p, s, t, edited)
      PROVE  FoundInv'
  <2> DEFINE on == state[s].last # None /\ state[s].tool = t
             pc == IF on THEN "read" ELSE "edit"
             id == IF on THEN state[s].last ELSE None
             task == IF on THEN "outcome" ELSE "none"
             x == [Idle EXCEPT !.t = t, !.edited = edited, !.pc = pc, !.id = id, !.task = task]
  <2>1. Begin(p, s, x) /\ pc \in {"read", "edit"}
    BY <1>3 DEF PostTool
  <2> HIDE DEF pc, id, task
  <2>2. Whole(x) /\ x.pc = pc /\ x.back = "none" /\ x.data = {} /\ x.hits = {} /\ x.todo = {}
    BY <1>1 DEF Whole, Names
  <2> HIDE DEF x
  <2> QED
    BY <2>1, <2>2, FoundBegin
<1>4. ASSUME NEW s \in Sessions, Prompt(p, s) PROVE FoundInv'
  <2> DEFINE x == [Idle EXCEPT !.pc = "prompt", !.t = "*"]
  <2>1. Whole(x) /\ x.pc = "prompt" /\ x.back = "none" /\ x.data = {} /\ x.hits = {} /\ x.todo = {}
    BY <1>1 DEF Whole, Names
  <2>2. Begin(p, s, x)
    BY <1>4 DEF Prompt
  <2> HIDE DEF x
  <2> QED
    BY <2>1, <2>2, FoundBegin
<1> QED
  BY <1>2, <1>3, <1>4 DEF Starts

LEMMA KillsStay ==
  ASSUME [Next]_vars, kills \in Nat
  PROVE  kills' \in Nat /\ (kills' = 0 => kills = 0)
<1>1. CASE UNCHANGED vars
  BY <1>1 DEF vars, history
<1>2. ASSUME NEW p \in Hooks, Starts(p) PROVE kills' = kills
  BY <1>2 DEF Starts, PreTool, PostTool, Prompt, Begin
<1>3. ASSUME NEW p \in Hooks, Kill(p) PROVE kills' = kills + 1
  BY <1>3 DEF Kill
<1>4. ASSUME NEW p \in Hooks, Work(p) PROVE kills' = kills
  BY <1>4 DEF Work, Tidy, ReadPacket, WritePacket, ChangeIndex, WriteTmp, ReplaceIndex,
     ReplaceFails, LookupExact, LookupRelaxed, Alias, GateBlocks, Dedupe, RepeatBlocks, Emit,
     EmitFails, LogAdvice, SaveState, FindEdited, InvalidateNext, AllInvalidated, SavePrompt,
     PacketUnread, EmptyPacket, EmptyLog, FillLog, PassOver, history
<1> QED
  BY <1>1, <1>2, <1>3, <1>4 DEF Next, Starts

\* Nobody writes over what it has not seen, and nobody is killed.
LEMMA FoundKept ==
  FoundInv /\ StaleInv /\ Typed /\ [Next]_vars /\ ~clash' /\ kills' = 0 /\ kills \in Nat => FoundInv'
<1> SUFFICES ASSUME FoundInv, StaleInv, Typed, [Next]_vars, ~clash', kills' = 0, kills \in Nat
             PROVE  FoundInv'
  OBVIOUS
<1>1. CASE Still
  BY <1>1 DEF Still, FoundInv, Closed, Known, Stored
<1>2. ASSUME NEW p \in Hooks, Starts(p) PROVE FoundInv'
  BY <1>2, FoundStart
<1>3. ASSUME NEW p \in Hooks, Kill(p) PROVE FALSE
  BY <1>3 DEF Kill
<1>4. ASSUME NEW p \in Hooks, ReplaceFails(p) \/ PassOver(p) PROVE FALSE
  BY <1>4 DEF ReplaceFails, PassOver
<1>5. ASSUME NEW p \in Hooks, Work(p) PROVE FoundInv'
  BY <1>1, <1>4, <1>5, StillSteps, FoundTidy, FoundGate, FoundLog, FoundUnread, FoundWrite,
     FoundChange, FoundTmp, FoundReplace,
     FoundLookup, FoundAlias, FoundFind, FoundEdit DEF Work
<1> QED
  BY <1>1, <1>2, <1>3, <1>5, StillSteps DEF Next, Starts

\* An edit finds every packet that is stored through the index, and so does a
\* lookup, while no hook is killed or writes over what it has not seen
\* (Advisory's PacketsAreFound).
THEOREM EveryPacketIsFound == Spec => []PacketsAreFound
<1> DEFINE Inv == /\ Typed /\ clash \in BOOLEAN /\ kills \in Nat
                  /\ clash \/ kills # 0 \/ (StaleInv /\ FoundInv)
<1>1. Init => Inv
  <2> SUFFICES ASSUME Init PROVE FoundInv
    <3>1. Init => Typed /\ StaleInv
      BY TypedInit, InvInit
    <3>2. Init => clash \in BOOLEAN
      BY DEF Init
    <3>3. Init => kills \in Nat
      BY DEF Init
    <3> QED
      BY <3>1, <3>2, <3>3
  <2>1. index = NoIndex /\ Stored = {} /\ \A p \in Hooks : h[p] = Idle
    BY DEF Init, Stored
  <2>2. Closed(NoIndex)
    BY DEF Closed, NoIndex
  <2>3. \A c, i : Thorough(Idle, c, i)
    BY DEF Thorough, Idle, Current, Saves
  <2> QED
    BY <2>1, <2>2, <2>3 DEF FoundInv
<1>2. Inv /\ [Next]_vars => Inv'
  <2> SUFFICES ASSUME Inv, [Next]_vars PROVE Inv'
    OBVIOUS
  <2>1. Typed'
    BY TypedNext
  <2>2. clash' \in BOOLEAN /\ (~clash' => ~clash)
    <3>1. CASE Next
      BY <3>1, ClashStays
    <3>2. CASE UNCHANGED vars
      BY <3>2 DEF vars, history
    <3> QED
      BY <3>1, <3>2
  <2>3. kills' \in Nat /\ (kills' = 0 => kills = 0)
    BY KillsStay
  <2>4. clash' \/ kills' # 0 \/ (StaleInv' /\ FoundInv')
    BY <2>2, <2>3, StaleKept, FoundKept
  <2> QED
    BY <2>1, <2>2, <2>3, <2>4
<1>3. Inv => PacketsAreFound
  <2> SUFFICES ASSUME Inv, ~clash, kills = 0
               PROVE  /\ \A id \in 1..Len(packets) :
                           \/ id \in Known(index)
                           \/ \E p \in Hooks : h[p].id = id /\ h[p].pc \in {"index", "tmp", "replace"}
                      /\ \A k \in Keys : index.exact[k] \in Known(index) \cup {None}
    BY DEF PacketsAreFound
  <2>1. FoundInv
    OBVIOUS
  <2> QED
    BY <2>1 DEF FoundInv, Stored, Closed, Adding, Saves
<1> HIDE DEF Inv
<1> QED
  BY <1>1, <1>2, <1>3, PTL DEF Spec

-----------------------------------------------------------------------------
(* What is in memory and in the files stays within the bounds.             *)

Kinds == {"packet", "show", "emit", "outcome"}

\* A call that notes in the log what it has shown.
Logs == {"log", "cap", "fill"}

\* A call that looks for advice.
Seeking(x) ==
  \/ x.pc \in Seeks \cup {"gate", "emit"}
  \/ x.pc \in Saves /\ x.back \in Seeks
  \/ x.pc \in Saves /\ x.back = "none" /\ x.task = "alias"

\* A hook that may yet store a packet, show one, or count an emission or an
\* outcome in its copy of one.
Due(k, x) ==
  \/ /\ k = "packet"
     /\ \/ x.pc \in {"exact", "relaxed", "prompt"}
        \/ x.pc \in Saves /\ x.back \in {"exact", "relaxed"}
        \/ x.pc \in {"gate", "emit"} \cup Logs /\ x.id = None
        \/ x.pc = "write" /\ x.task \in News
  \/ /\ k = "show"
     /\ \/ Seeking(x)
        \/ x.pc \in Logs /\ x.id = None
        \/ x.pc = "write" /\ x.task = "new" /\ x.shown
  \/ /\ k = "emit"
     /\ \/ Seeking(x) \/ x.pc \in Logs
        \/ x.shown /\ x.pc = "read" /\ x.task = "usage"
        \/ x.shown /\ x.pc \in {"write", "index"} \cup Saves /\ x.task = "new"
  \/ k = "outcome" /\ x.pc = "read" /\ x.task = "outcome"
Users(hooks, k) == {p \in Hooks : Due(k, hooks[p])}

\* The counts of a packet or a copy leave room, in n calls, for those.
Room(c, hooks, n) ==
  /\ c.emits + Cardinality(Users(hooks, "emit")) <= n
  /\ c.outcomes + Cardinality(Users(hooks, "outcome")) <= n

BudgetInv ==
  /\ calls \in Nat /\ kills \in 0..MaxKills /\ calls + kills <= MaxCalls
  /\ \A k \in Kinds : Cardinality(Users(h, k)) <= calls
  /\ Len(packets) + Cardinality(Users(h, "packet")) <= calls
  /\ \A id \in Stored : shows[id] + Cardinality(Users(h, "show")) <= calls
  /\ \A id \in Stored : Room(packets[id], h, calls)
  /\ \A p \in Hooks : Room(h[p].seen, h, calls) /\ Room(h[p].copy, h, calls)

RealPackets == [key : Keys, advice : Advices, invalid : BOOLEAN, emits : Nat, outcomes : Nat]
AtMostOne(S) == \A a, b \in S : a = b

\* A hook that has found some advice and may show it.
Knows(x) ==
  \/ x.pc \in {"alias", "gate", "emit"} \cup Logs
  \/ x.pc \in Saves /\ (x.back = "alias" \/ (x.back = "none" /\ x.task = "alias"))

\* What Typed leaves open of a hook's memory.
HookFits(x) ==
  /\ x.pc \in Places /\ x.task \in Tasks /\ x.st.shown \subseteq Advices
  /\ x.lines \subseteq Advices
  /\ x.seen \in RealPackets \cup {NoCopy} /\ x.copy \in RealPackets \cup {NoCopy}
  /\ x.pc = "write" => x.copy \in RealPackets
  /\ Knows(x) => x.advice \in Advices
  /\ x.edited \subseteq Advices /\ x.before \subseteq Ids /\ AtMostOne(x.data)

FilesFit ==
  /\ packets \in Seq(RealPackets) /\ torn \subseteq Stored /\ AtMostOne(tmp) /\ log \subseteq Advices
  /\ \A s \in Sessions : state[s].shown \subseteq Advices
  /\ \A p \in Hooks : AtMostOne(cache[p])
HistoryFits ==
  /\ told \in [Sessions -> SUBSET Advices] /\ logged \subseteq Advices
  /\ repeated \subseteq Advices /\ raced \subseteq Advices
  /\ stale \in BOOLEAN /\ clash \in BOOLEAN /\ parallel \subseteq Sessions /\ unsaved \subseteq Sessions

TypesInv == BudgetInv /\ (\A p \in Hooks : HookFits(h[p])) /\ FilesFit /\ HistoryFits

LEMMA UsersCount ==
  ASSUME NEW hooks, NEW k
  PROVE  IsFiniteSet(Users(hooks, k)) /\ Cardinality(Users(hooks, k)) \in Nat
<1>1. IsFiniteSet(Users(hooks, k))
  BY FS_Subset, AdvisoryAssumption DEF AdvisoryAssumption, Users
<1> QED
  BY <1>1, FS_CardinalityType

\* What a step of one hook does to the number of those.
LEMMA UsersAfter ==
  ASSUME NEW g, NEW p \in Hooks, NEW x, NEW f, f = [q \in Hooks |-> IF q = p THEN x ELSE g[q]], NEW k
  PROVE  /\ Cardinality(Users(f, k)) <= Cardinality(Users(g, k)) + 1
         /\ (Due(k, x) => Due(k, g[p])) => Cardinality(Users(f, k)) <= Cardinality(Users(g, k))
         /\ Due(k, g[p]) /\ ~Due(k, x) => Cardinality(Users(f, k)) + 1 <= Cardinality(Users(g, k))
<1> DEFINE S == Users(g, k)
           T == Users(f, k)
<1>1. S \subseteq Hooks /\ T \subseteq Hooks
  BY DEF Users
<1>2. p \in S <=> Due(k, g[p])
  BY DEF Users
<1>3. p \in T <=> Due(k, x)
  BY DEF Users
<1>4. T \subseteq S \cup {p}
  BY DEF Users
<1>5. IsFiniteSet(S) /\ IsFiniteSet(T) /\ Cardinality(S) \in Nat /\ Cardinality(T) \in Nat
  BY UsersCount
<1> HIDE DEF S, T
<1>6. /\ IsFiniteSet(S \cup {p}) /\ Cardinality(S \cup {p}) <= Cardinality(S) + 1
      /\ Cardinality(S \cup {p}) \in Nat
  <2>1. IsFiniteSet(S \cup {p})
    BY <1>5, FS_AddElement
  <2>2. Cardinality(S \cup {p}) \in {Cardinality(S), Cardinality(S) + 1}
    BY <1>5, FS_AddElement
  <2> QED
    BY <1>5, <2>1, <2>2, FS_CardinalityType
<1>7. Cardinality(T) <= Cardinality(S) + 1
  <2>1. Cardinality(T) <= Cardinality(S \cup {p})
    BY <1>4, <1>6, FS_Subset
  <2> QED
    BY <1>5, <1>6, <2>1
<1>8. T \subseteq S => Cardinality(T) <= Cardinality(S)
  BY <1>5, FS_Subset
<1>9. ASSUME p \in S, p \notin T PROVE Cardinality(T) + 1 <= Cardinality(S)
  <2>1. Cardinality(S \ {p}) = Cardinality(S) - 1 /\ IsFiniteSet(S \ {p})
    BY <1>5, <1>9, FS_RemoveElement
  <2>2. T \subseteq S \ {p}
    BY <1>4, <1>9
  <2>3. Cardinality(T) <= Cardinality(S \ {p})
    BY <2>1, <2>2, FS_Subset
  <2> QED
    BY <1>5, <2>1, <2>3
<1>10. (Due(k, x) => Due(k, g[p])) => T \subseteq S
  BY <1>2, <1>3, <1>4
<1> USE DEF S, T
<1> QED
  BY <1>2, <1>3, <1>7, <1>8, <1>9, <1>10

\* A copy has room while there are no more hooks that may count.
LEMMA FewerUsers ==
  ASSUME NEW c, c.emits \in Nat, c.outcomes \in Nat, NEW g, NEW f, NEW n \in Nat, Room(c, g, n),
         \A k \in Kinds : Cardinality(Users(f, k)) <= Cardinality(Users(g, k))
  PROVE  Room(c, f, n)
<1>1. {"emit", "outcome"} \subseteq Kinds
  BY DEF Kinds
<1>2. \A k : Cardinality(Users(f, k)) \in Nat /\ Cardinality(Users(g, k)) \in Nat
  BY UsersCount
<1> QED
  BY <1>1, <1>2 DEF Room

\* The counts there are.
LEMMA CountsAre ==
  ASSUME Typed
  PROVE  /\ \A id \in Stored : packets[id].emits \in Nat /\ packets[id].outcomes \in Nat /\ shows[id] \in Nat
         /\ \A p \in Hooks : /\ h[p].seen.emits \in Nat /\ h[p].seen.outcomes \in Nat
                             /\ h[p].copy.emits \in Nat /\ h[p].copy.outcomes \in Nat
         /\ h = [p \in Hooks |-> h[p]] /\ Len(packets) \in Nat /\ Len(shows) = Len(packets)
<1>1. \A id \in Stored : packets[id] \in AnyPackets /\ shows[id] \in Nat
  BY DEF Typed, FilesTyped, Stored
<1>2. \A p \in Hooks : h[p].seen \in AnyPackets /\ h[p].copy \in AnyPackets
  BY DEF Typed, HooksTyped, HookSound, Fields
<1>3. \A c \in AnyPackets : c.emits \in Nat /\ c.outcomes \in Nat
  BY DEF AnyPackets
<1>4. h = [p \in Hooks |-> h[p]] /\ Len(packets) \in Nat /\ Len(shows) = Len(packets)
  BY DEF Typed, FilesTyped, HooksTyped
<1> QED
  BY <1>1, <1>2, <1>3, <1>4

\* What a hook may have in its memory after a step that stores, shows and
\* counts nothing.
Allowed(p, x) ==
  /\ HookFits(x)
  /\ \A k \in Kinds : Due(k, x) => Due(k, h[p])
  /\ Room(x.seen, h, calls) /\ Room(x.copy, h, calls)
AllowedMove(p) == \E x : h' = [h EXCEPT ![p] = x] /\ Allowed(p, x)

\* A step that leaves the hook room for what it has copied and stored.
LEMMA BudgetStep ==
  ASSUME TypesInv, Typed, Typed', NEW p \in Hooks, NEW x, h' = [h EXCEPT ![p] = x],
         \A k \in Kinds : Due(k, x) => Due(k, h[p]),
         Room(x.seen, h', calls), Room(x.copy, h', calls),
         UNCHANGED calls, kills' \in 0..MaxKills, calls + kills' <= MaxCalls,
         Len(packets') + Cardinality(Users(h', "packet")) <= calls,
         \A id \in Stored' : shows'[id] + Cardinality(Users(h', "show")) <= calls,
         \A id \in Stored' : packets'[id] = h[p].copy \/ (id \in Stored /\ packets'[id] = packets[id])
  PROVE  BudgetInv'
<1>1. h' = [q \in Hooks |-> IF q = p THEN x ELSE h[q]] /\ calls \in Nat
  BY CountsAre DEF TypesInv, BudgetInv
<1>2. \A k \in Kinds : Cardinality(Users(h', k)) <= Cardinality(Users(h, k))
  BY <1>1, UsersAfter
<1>3. \A k : Cardinality(Users(h', k)) \in Nat /\ Cardinality(Users(h, k)) \in Nat
  BY UsersCount
<1>4. ASSUME NEW k \in Kinds PROVE Cardinality(Users(h', k)) <= calls
  <2>1. Cardinality(Users(h', k)) <= Cardinality(Users(h, k))
    BY <1>2
  <2>2. Cardinality(Users(h, k)) <= calls
    BY DEF TypesInv, BudgetInv
  <2>3. Cardinality(Users(h', k)) \in Nat /\ Cardinality(Users(h, k)) \in Nat
    BY <1>3
  <2> QED
    BY <1>1, <2>1, <2>2, <2>3
<1>5. ASSUME NEW q \in Hooks
      PROVE  Room(h[q].seen, h', calls) /\ Room(h[q].copy, h', calls)
  BY <1>1, <1>2, CountsAre, FewerUsers DEF TypesInv, BudgetInv
<1>6. \A id \in Stored' : Room(packets'[id], h', calls)
  <2>1. \A id \in Stored : Room(packets[id], h', calls)
    BY <1>1, <1>2, CountsAre, FewerUsers DEF TypesInv, BudgetInv
  <2> QED
    BY <1>5, <2>1
<1>7. \A q \in Hooks : Room(h'[q].seen, h', calls) /\ Room(h'[q].copy, h', calls)
  BY <1>1, <1>5
<1> QED
  BY <1>1, <1>4, <1>6, <1>7 DEF BudgetInv

\* One that stores, shows and counts nothing.
LEMMA QuietBudget ==
  ASSUME TypesInv, Typed, Typed', NEW p \in Hooks, NEW x, h' = [h EXCEPT ![p] = x],
         \A k \in Kinds : Due(k, x) => Due(k, h[p]),
         Room(x.seen, h', calls), Room(x.copy, h', calls),
         UNCHANGED <<packets, shows, calls>>, kills' \in 0..MaxKills, calls + kills' <= MaxCalls
  PROVE  BudgetInv'
<1>1. h' = [q \in Hooks |-> IF q = p THEN x ELSE h[q]] /\ calls \in Nat
  BY CountsAre DEF TypesInv, BudgetInv
<1>2. \A k \in Kinds : Cardinality(Users(h', k)) <= Cardinality(Users(h, k))
  BY <1>1, UsersAfter
<1>3. \A k : Cardinality(Users(h', k)) \in Nat /\ Cardinality(Users(h, k)) \in Nat
  BY UsersCount
<1>4. "packet" \in Kinds /\ "show" \in Kinds
  BY DEF Kinds
<1>5. Len(packets) + Cardinality(Users(h', "packet")) <= calls
  <2>1. Len(packets) \in Nat /\ Len(packets) + Cardinality(Users(h, "packet")) <= calls
    BY CountsAre DEF TypesInv, BudgetInv
  <2>2. Cardinality(Users(h', "packet")) <= Cardinality(Users(h, "packet"))
    BY <1>2, <1>4
  <2>3. Cardinality(Users(h', "packet")) \in Nat /\ Cardinality(Users(h, "packet")) \in Nat
    BY <1>3
  <2> QED
    BY <1>1, <2>1, <2>2, <2>3
<1>6. ASSUME NEW id \in Stored PROVE shows[id] + Cardinality(Users(h', "show")) <= calls
  <2>1. shows[id] \in Nat /\ shows[id] + Cardinality(Users(h, "show")) <= calls
    BY CountsAre DEF TypesInv, BudgetInv
  <2>2. Cardinality(Users(h', "show")) <= Cardinality(Users(h, "show"))
    BY <1>2, <1>4
  <2>3. Cardinality(Users(h', "show")) \in Nat /\ Cardinality(Users(h, "show")) \in Nat
    BY <1>3
  <2> QED
    BY <1>1, <2>1, <2>2, <2>3
<1>7. \A id \in Stored' : packets'[id] = h[p].copy \/ (id \in Stored /\ packets'[id] = packets[id])
  BY DEF Stored
<1>8. \A id \in Stored' : shows'[id] + Cardinality(Users(h', "show")) <= calls
  BY <1>6 DEF Stored
<1>9. Len(packets') + Cardinality(Users(h', "packet")) <= calls
  BY <1>5
<1> QED
  BY <1>7, <1>8, <1>9, BudgetStep

LEMMA EmptyRoom ==
  ASSUME TypesInv, NEW c, c.emits = 0, c.outcomes = 0
  PROVE  Room(c, h, calls)
<1>1. \A k \in Kinds : Cardinality(Users(h, k)) <= calls
  BY DEF TypesInv, BudgetInv
<1>2. \A k : Cardinality(Users(h, k)) \in Nat
  BY UsersCount
<1>3. {"emit", "outcome"} \subseteq Kinds
  BY DEF Kinds
<1> QED
  BY <1>1, <1>2, <1>3 DEF Room

LEMMA AllowedBudget ==
  ASSUME TypesInv, Typed, Typed', NEW p \in Hooks, AllowedMove(p), UNCHANGED <<packets, shows, calls>>,
         kills' \in 0..MaxKills, calls + kills' <= MaxCalls
  PROVE  BudgetInv' /\ \A q \in Hooks : HookFits(h'[q])
<1>1. PICK x : h' = [h EXCEPT ![p] = x] /\ Allowed(p, x)
  BY DEF AllowedMove
<1>2. h' = [q \in Hooks |-> IF q = p THEN x ELSE h[q]] /\ calls \in Nat
  BY <1>1, CountsAre DEF TypesInv, BudgetInv
<1>3. \A k \in Kinds : Cardinality(Users(h', k)) <= Cardinality(Users(h, k))
  BY <1>1, <1>2, UsersAfter DEF Allowed
<1>4. x \in {h'[p]} /\ HookSound(h'[p], Len(packets'))
  BY <1>2 DEF Typed, HooksTyped
<1>5. x.seen \in AnyPackets /\ x.copy \in AnyPackets
  BY <1>4 DEF HookSound, Fields
<1>6. Room(x.seen, h', calls) /\ Room(x.copy, h', calls)
  BY <1>1, <1>2, <1>3, <1>5, FewerUsers DEF Allowed, AnyPackets
<1>7. BudgetInv'
  BY <1>1, <1>6, QuietBudget DEF Allowed
<1>8. \A q \in Hooks : HookFits(h'[q])
  BY <1>1, <1>2 DEF Allowed, TypesInv
<1> QED
  BY <1>7, <1>8

LEMMA SingleCount ==
  ASSUME NEW S, AtMostOne(S)
  PROVE  Cardinality(S) <= 1
<1>1. CASE S = {}
  BY <1>1, FS_EmptySet
<1>2. CASE S # {}
  <2>1. PICK e : e \in S
    BY <1>2
  <2>2. S = {e}
    BY <2>1 DEF AtMostOne
  <2>3. Cardinality({e}) = 1
    BY FS_Singleton
  <2> QED
    BY <2>2, <2>3
<1> QED
  BY <1>1, <1>2

\* A packet that is real and has counts that leave room.
LEMMA PacketTyped ==
  ASSUME NEW c, c \in RealPackets \cup {NoCopy}, Room(c, h, calls), calls \in 0..MaxCalls
  PROVE  c \in Packets \cup {NoCopy} /\ (c \in RealPackets => c \in Packets)
<1>1. \A k : Cardinality(Users(h, k)) \in Nat
  BY UsersCount
<1>2. MaxCalls \in Nat
  BY AdvisoryAssumption DEF AdvisoryAssumption
<1>3. ASSUME c \in RealPackets PROVE c \in Packets
  <2>1. /\ c = [key |-> c.key, advice |-> c.advice, invalid |-> c.invalid, emits |-> c.emits,
                outcomes |-> c.outcomes]
        /\ c.key \in Keys /\ c.advice \in Advices /\ c.invalid \in BOOLEAN
        /\ c.emits \in Nat /\ c.outcomes \in Nat
    BY <1>3 DEF RealPackets
  <2>2. /\ c.emits + Cardinality(Users(h, "emit")) <= calls
        /\ c.outcomes + Cardinality(Users(h, "outcome")) <= calls
    BY DEF Room
  <2>3. Cardinality(Users(h, "emit")) \in Nat /\ Cardinality(Users(h, "outcome")) \in Nat
    BY <1>1
  <2>4. c.emits \in 0..MaxCalls /\ c.outcomes \in 0..MaxCalls
    BY <1>2, <2>1, <2>2, <2>3
  <2> QED
    BY <2>1, <2>4 DEF Packets
<1> QED
  BY <1>3

LEMMA IndexTyped ==
  ASSUME NEW n \in Nat, n <= MaxCalls
  PROVE  AnyIndexes(n) \subseteq Indexes
<1>1. n \in Nat /\ MaxCalls \in Nat
  BY AdvisoryAssumption DEF AdvisoryAssumption
<1>2. 0..n \subseteq Ids \cup {None} /\ 1..n \subseteq Ids
  BY <1>1 DEF Ids, None
<1> SUFFICES ASSUME NEW ix \in AnyIndexes(n) PROVE ix \in Indexes
  OBVIOUS
<1>3. ix = [exact |-> ix.exact, fresh |-> ix.fresh, dead |-> ix.dead, rough |-> ix.rough]
  BY DEF AnyIndexes
<1>4. /\ ix.exact \in [Keys -> Ids \cup {None}] /\ ix.fresh \subseteq Ids /\ ix.dead \subseteq Ids
      /\ ix.rough \in BOOLEAN
  BY <1>2 DEF AnyIndexes
<1> QED
  BY <1>3, <1>4 DEF Indexes

LEMMA StateTyped ==
  ASSUME NEW n \in Nat, n <= MaxCalls, NEW st \in AnyStates(n), st.shown \subseteq Advices
  PROVE  st \in States
<1>1. n \in Nat /\ MaxCalls \in Nat
  BY AdvisoryAssumption DEF AdvisoryAssumption
<1>2. 0..n \subseteq Ids \cup {None}
  BY <1>1 DEF Ids, None
<1>3. /\ st = [shown |-> st.shown, last |-> st.last, tool |-> st.tool]
      /\ st.last \in Ids \cup {None} /\ st.tool \in Tools \cup {"*"}
  BY <1>2 DEF AnyStates
<1> QED
  BY <1>3 DEF States

LEMMA MemoryTyped ==
  ASSUME Typed, TypesInv, NEW p \in Hooks, Len(packets) <= MaxCalls, calls \in 0..MaxCalls
  PROVE  h[p] \in HookTypes
<1> DEFINE x == h[p]
           n == Len(packets)
<1>1. n \in Nat /\ MaxCalls \in Nat /\ Whole(x) /\ Fields(x, n) /\ Place(x)
  BY HookTyped, AdvisoryAssumption DEF AdvisoryAssumption, HookSound
<1>2. HookFits(x) /\ Room(x.seen, h, calls) /\ Room(x.copy, h, calls)
  BY DEF TypesInv, BudgetInv
<1> HIDE DEF x, n
<1>3. 0..n \subseteq Ids \cup {None} /\ 1..n \subseteq Ids
  BY <1>1 DEF Ids, None, n
<1>4. /\ x.pc \in Places /\ x.s \in Sessions \cup {None} /\ x.t \in Tools \cup {"*"} /\ x.id \in Ids \cup {None}
      /\ x.advice \in Advices \cup {None} /\ x.shown \in BOOLEAN /\ x.task \in Tasks
      /\ x.edited \subseteq Advices /\ x.hits \subseteq Ids /\ x.todo \subseteq Ids /\ x.before \subseteq Ids
      /\ x.lines \subseteq Advices
  BY <1>1, <1>2, <1>3 DEF Fields, HookFits
<1>5. x.back \in Places \cup {"none"}
  BY <1>1 DEF Place, Places, Loads
<1>6. x.st \in States
  BY <1>1, <1>2, StateTyped DEF Fields, HookFits, n
<1>7. x.seen \in Packets \cup {NoCopy} /\ x.copy \in Packets \cup {NoCopy}
  BY <1>2, PacketTyped DEF HookFits
<1>8. x.ix \in Indexes /\ x.data \subseteq Indexes
  BY <1>1, IndexTyped DEF Fields, n
<1>9. x = [pc |-> x.pc, s |-> x.s, t |-> x.t, st |-> x.st, id |-> x.id, advice |-> x.advice,
           shown |-> x.shown, lines |-> x.lines, seen |-> x.seen, copy |-> x.copy, task |-> x.task,
           ix |-> x.ix, back |-> x.back, data |-> x.data, edited |-> x.edited, hits |-> x.hits,
           todo |-> x.todo, before |-> x.before]
  BY <1>1 DEF Whole, Names
<1>10. x \in HookTypes
  BY <1>4, <1>5, <1>6, <1>7, <1>8, <1>9 DEF HookTypes
<1> QED
  BY <1>10 DEF x

LEMMA TypesImply == Typed /\ TypesInv => TypeOK
<1> SUFFICES ASSUME Typed, TypesInv PROVE TypeOK
  OBVIOUS
<1>1. MaxCalls \in Nat /\ Len(packets) \in Nat /\ Len(shows) = Len(packets)
  BY CountsAre, AdvisoryAssumption DEF AdvisoryAssumption
<1>2. calls \in 0..MaxCalls /\ kills \in 0..MaxKills
  BY <1>1, AdvisoryAssumption DEF AdvisoryAssumption, TypesInv, BudgetInv
<1>3. Len(packets) <= MaxCalls
  BY <1>1, <1>2, UsersCount DEF TypesInv, BudgetInv
<1>4. packets \in Seq(Packets)
  <2>1. \A id \in Stored : packets[id] \in RealPackets /\ Room(packets[id], h, calls)
    BY DEF TypesInv, FilesFit, BudgetInv, Stored
  <2>2. \A id \in Stored : packets[id] \in Packets
    BY <1>2, <2>1, PacketTyped
  <2>3. packets \in Seq(RealPackets)
    BY DEF TypesInv, FilesFit
  <2> QED
    BY <2>2, <2>3 DEF Stored
<1>5. shows \in Seq(0..MaxCalls)
  <2>1. \A id \in Stored : shows[id] \in 0..MaxCalls
    <3> SUFFICES ASSUME NEW id \in Stored PROVE shows[id] \in 0..MaxCalls
      OBVIOUS
    <3>1. shows[id] \in Nat /\ shows[id] + Cardinality(Users(h, "show")) <= calls
      BY CountsAre DEF TypesInv, BudgetInv
    <3> QED
      BY <1>1, <1>2, <3>1, UsersCount
  <2>2. shows \in Seq(Nat)
    BY DEF Typed, FilesTyped
  <2> QED
    BY <1>1, <2>1, <2>2 DEF Stored
<1>6. index \in Indexes /\ tmp \subseteq Indexes /\ \A p \in Hooks : cache[p] \subseteq Indexes
  BY <1>1, <1>3, IndexTyped DEF Typed, FilesTyped, CachesTyped
<1>7. state \in [Sessions -> States]
  <2>1. state \in [Sessions -> AnyStates(Len(packets))] /\ \A s \in Sessions : state[s].shown \subseteq Advices
    BY DEF Typed, FilesTyped, TypesInv, FilesFit
  <2>2. \A s \in Sessions : state[s] \in States
    BY <1>1, <1>3, <2>1, StateTyped
  <2> QED
    BY <2>1, <2>2
<1>8. \A p \in Hooks : h[p] \in HookTypes /\ Cardinality(h[p].data) <= 1
  BY <1>2, <1>3, MemoryTyped, SingleCount DEF TypesInv, HookFits
<1>9. Cardinality(tmp) <= 1 /\ \A p \in Hooks : Cardinality(cache[p]) <= 1
  BY SingleCount DEF TypesInv, FilesFit
<1>10. retired \subseteq Ids
  BY <1>1, <1>3 DEF Typed, FilesTyped, Stored, Ids
<1> QED
  BY <1>2, <1>3, <1>4, <1>5, <1>6, <1>7, <1>8, <1>9, <1>10 DEF TypeOK, TypesInv, FilesFit, HistoryFits,
     Stored

\* A memory made of the one there was.
LEMMA AllowedFrom ==
  ASSUME TypesInv, NEW p \in Hooks, NEW x, x.pc \in Places \ {"write"}, x.task \in Tasks,
         x.st.shown = h[p].st.shown, x.seen \in {h[p].seen, NoCopy}, x.copy \in {h[p].copy, NoCopy},
         x.edited \subseteq h[p].edited, x.lines \subseteq Advices, x.before = h[p].before, AtMostOne(x.data),
         Knows(x) => x.advice \in Advices,
         \A k \in Kinds : Due(k, x) => Due(k, h[p])
  PROVE  Allowed(p, x)
<1>1. HookFits(h[p]) /\ Room(h[p].seen, h, calls) /\ Room(h[p].copy, h, calls)
  BY DEF TypesInv, BudgetInv
<1>2. Room(NoCopy, h, calls)
  BY EmptyRoom DEF NoCopy
<1>3. HookFits(x)
  BY <1>1 DEF HookFits
<1>4. Room(x.seen, h, calls) /\ Room(x.copy, h, calls)
  BY <1>1, <1>2
<1> QED
  BY <1>3, <1>4 DEF Allowed

LEMMA AllowedIdle ==
  ASSUME TypesInv, NEW p \in Hooks
  PROVE  Allowed(p, Idle)
<1>1. Room(NoCopy, h, calls)
  BY EmptyRoom DEF NoCopy
<1>2. \A k : ~Due(k, Idle)
  BY DEF Due, Logs, Seeking, Seeks, Saves, Idle
<1>3. HookFits(Idle)
  BY DEF HookFits, Idle, NewState, Places, Tasks, Knows, Logs, Saves, AtMostOne
<1>4. Idle.seen = NoCopy /\ Idle.copy = NoCopy
  BY DEF Idle
<1> QED
  BY <1>1, <1>2, <1>3, <1>4 DEF Allowed

LEMMA AllowedLeave ==
  ASSUME TypesInv, NEW p \in Hooks, Leave(p)
  PROVE  AllowedMove(p)
  BY AllowedIdle DEF AllowedMove, Leave

LEMMA AllowedTidy ==
  ASSUME TypesInv, Typed, NEW p \in Hooks, Tidy(p)
  PROVE  AllowedMove(p)
<1>1. PICK ix : h' = [h EXCEPT ![p] = [h[p] EXCEPT !.pc = "tmp", !.back = h[p].pc, !.ix = ix]]
  BY DEF Tidy, Become
<1> DEFINE x == [h[p] EXCEPT !.pc = "tmp", !.back = h[p].pc, !.ix = ix]
<1>2. Whole(h[p]) /\ Place(h[p]) /\ h[p].pc \in {"exact", "relaxed", "alias", "index", "edit"}
  BY DEF Typed, HooksTyped, HookSound, Tidy
<1>3. /\ x.pc = "tmp" /\ x.back = h[p].pc /\ x.task = h[p].task /\ x.st = h[p].st /\ x.seen = h[p].seen
      /\ x.copy = h[p].copy /\ x.edited = h[p].edited /\ x.lines = h[p].lines /\ x.before = h[p].before /\ x.data = h[p].data
      /\ x.advice = h[p].advice /\ x.id = h[p].id /\ x.shown = h[p].shown
  BY <1>2 DEF Whole, Names
<1>4. h' = [h EXCEPT ![p] = x]
  BY <1>1
<1> HIDE DEF x
<1>5. HookFits(h[p])
  BY DEF TypesInv
<1>6. h[p].pc = "index" \/ ~h[p].shown
  BY <1>2 DEF Place
<1>7. \A k \in Kinds : Due(k, x) => Due(k, h[p])
  BY <1>2, <1>3, <1>6 DEF Due, Logs, Seeking, Seeks, Saves, Kinds, News
<1>8. Knows(x) => x.advice \in Advices
  BY <1>2, <1>3, <1>5 DEF HookFits, Knows, Logs, Saves
<1>9. Allowed(p, x)
  BY <1>3, <1>5, <1>7, <1>8, AllowedFrom DEF HookFits, Places
<1> QED
  BY <1>4, <1>9 DEF AllowedMove

LEMMA AllowedChange ==
  ASSUME TypesInv, Typed, NEW p \in Hooks, ChangeIndex(p) \/ WriteTmp(p)
  PROVE  AllowedMove(p)
<1>1. Whole(h[p]) /\ Place(h[p]) /\ HookFits(h[p])
  BY DEF Typed, HooksTyped, HookSound, TypesInv
<1>2. CASE ChangeIndex(p)
  <2> DEFINE y == [h[p] EXCEPT !.data = {}]
  <2>1. PICK ix : h' = [h EXCEPT ![p] = [y EXCEPT !.pc = "tmp", !.ix = ix]]
    BY <1>2 DEF ChangeIndex, Become, Using
  <2> DEFINE x == [y EXCEPT !.pc = "tmp", !.ix = ix]
  <2>2. h[p].pc = "index" /\ h' = [h EXCEPT ![p] = x]
    BY <1>2, <2>1 DEF ChangeIndex
  <2>3. /\ x.pc = "tmp" /\ x.back = h[p].back /\ x.task = h[p].task /\ x.st = h[p].st
        /\ x.seen = h[p].seen /\ x.copy = h[p].copy /\ x.edited = h[p].edited
        /\ x.lines = h[p].lines /\ x.before = h[p].before /\ x.data = {} /\ x.shown = h[p].shown
    BY <1>1 DEF Whole, Names
  <2> HIDE DEF x
  <2>4. h[p].back = "none" /\ h[p].task # "alias"
    BY <1>1, <2>2 DEF Place, Changes, News
  <2>5. \A k \in Kinds : Due(k, x) => Due(k, h[p])
    BY <2>2, <2>3, <2>4 DEF Due, Logs, Seeking, Seeks, Saves, Kinds, News
  <2>6. ~Knows(x) /\ AtMostOne(x.data)
    BY <2>3, <2>4 DEF Knows, Logs, Saves, AtMostOne
  <2>7. Allowed(p, x)
    BY <1>1, <2>3, <2>5, <2>6, AllowedFrom DEF HookFits, Places
  <2> QED
    BY <2>2, <2>7 DEF AllowedMove
<1>3. CASE WriteTmp(p)
  <2> DEFINE x == [h[p] EXCEPT !.pc = "replace"]
  <2>1. h[p].pc = "tmp" /\ h' = [h EXCEPT ![p] = x]
    BY <1>3 DEF WriteTmp, Goto, Become
  <2>2. /\ x.pc = "replace" /\ x.back = h[p].back /\ x.task = h[p].task /\ x.st = h[p].st
        /\ x.seen = h[p].seen /\ x.copy = h[p].copy /\ x.edited = h[p].edited /\ x.id = h[p].id
        /\ x.lines = h[p].lines /\ x.before = h[p].before /\ x.data = h[p].data /\ x.shown = h[p].shown /\ x.advice = h[p].advice
    BY <1>1 DEF Whole, Names
  <2> HIDE DEF x
  <2>3. \A k \in Kinds : Due(k, x) => Due(k, h[p])
    BY <2>1, <2>2 DEF Due, Logs, Seeking, Seeks, Saves, Kinds, News
  <2>4. Knows(x) => x.advice \in Advices
    BY <1>1, <2>1, <2>2 DEF Knows, Logs, Saves, HookFits
  <2>5. Allowed(p, x)
    BY <1>1, <2>2, <2>3, <2>4, AllowedFrom DEF HookFits, Places
  <2> QED
    BY <2>1, <2>5 DEF AllowedMove
<1> QED
  BY <1>2, <1>3

LEMMA ResumedKeeps ==
  ASSUME NEW y, Whole(y), NEW n \in Nat, y.st \in AnyStates(n),
         y.back # "none" \/ y.task \in {"alias", "new", "usage", "outcome", "invalid"}
  PROVE  /\ Resumed(y).st.shown = y.st.shown /\ Resumed(y).seen = y.seen
         /\ Resumed(y).copy \in {y.copy, NoCopy} /\ Resumed(y).edited = y.edited
         /\ Resumed(y).advice = y.advice /\ Resumed(y).lines = y.lines
<1> DEFINE loaded == [y EXCEPT !.pc = y.back, !.back = "none", !.data = {y.ix}, !.ix = NoIndex]
           clean == [y EXCEPT !.copy = NoCopy, !.ix = NoIndex, !.task = "none"]
<1>1. CASE y.back # "none"
  <2>1. Resumed(y) = loaded
    BY <1>1 DEF Resumed
  <2> QED
    BY <1>1, <2>1 DEF Whole, Names
<1>2. CASE y.back = "none"
  <2>1. /\ Whole(clean) /\ clean.st = y.st /\ clean.seen = y.seen /\ clean.copy = NoCopy
        /\ clean.edited = y.edited /\ clean.advice = y.advice /\ clean.lines = y.lines
    BY DEF Whole, Names
  <2>2. CASE y.task = "new"
    <3>1. Resumed(y) = [clean EXCEPT !.pc = "read", !.task = "usage", !.st.last = y.id,
                                     !.st.tool = y.t]
      BY <1>2, <2>2 DEF Resumed
    <3> HIDE DEF clean
    <3>2. /\ Resumed(y).st = [[clean.st EXCEPT !.last = y.id] EXCEPT !.tool = y.t]
          /\ Resumed(y).seen = clean.seen /\ Resumed(y).copy = clean.copy
          /\ Resumed(y).edited = clean.edited /\ Resumed(y).advice = clean.advice
          /\ Resumed(y).lines = clean.lines
      BY <2>1, <3>1 DEF Whole, Names
    <3>3. \A st \in AnyStates(n) : [[st EXCEPT !.last = y.id] EXCEPT !.tool = y.t].shown = st.shown
      BY DEF AnyStates
    <3> QED
      BY <2>1, <3>2, <3>3
  <2>3. CASE y.task \in {"alias", "usage"}
    <3>1. Resumed(y) = [clean EXCEPT !.pc = IF y.task = "alias" THEN "gate" ELSE "save"]
      BY <1>2, <2>3 DEF Resumed
    <3> HIDE DEF clean
    <3> QED
      BY <1>2, <2>1, <2>3, <3>1 DEF Whole, Names
  <2>4. CASE y.task \in {"outcome", "invalid"}
    <3>1. Resumed(y) = [clean EXCEPT !.pc = IF y.task = "outcome" THEN "edit" ELSE "next", !.id = None]
      BY <1>2, <2>4 DEF Resumed
    <3> HIDE DEF clean
    <3> QED
      BY <1>2, <2>1, <2>4, <3>1 DEF Whole, Names
  <2> QED
    BY <1>2, <2>2, <2>3, <2>4
<1> QED
  BY <1>1, <1>2

LEMMA AllowedResumed ==
  ASSUME TypesInv, Typed, NEW p \in Hooks, h[p].pc \in {"read", "replace"},
         h[p].back # "none" \/ h[p].task \in {"alias", "new", "usage", "outcome", "invalid"}
  PROVE  Allowed(p, Resumed(h[p]))
<1> DEFINE y == h[p]
           x == Resumed(y)
<1>1. Whole(y) /\ Place(y) /\ HookFits(y) /\ Len(packets) \in Nat /\ y.st \in AnyStates(Len(packets))
  BY HookTyped DEF HookSound, Fields, TypesInv
<1>2. /\ x.st.shown = y.st.shown /\ x.seen = y.seen /\ x.copy \in {y.copy, NoCopy}
      /\ x.edited = y.edited /\ x.advice = y.advice /\ x.lines = y.lines
  BY <1>1, ResumedKeeps
<1>3. /\ x.before = y.before /\ x.shown = y.shown /\ x.back = "none"
      /\ y.back # "none" => x.pc = y.back /\ x.id = y.id /\ x.data = {y.ix} /\ x.task = y.task
      /\ y.back = "none" => x.data = y.data
      /\ y.back = "none" /\ y.task = "alias" => x.pc = "gate" /\ x.id = y.id /\ x.task = "none"
      /\ y.back = "none" /\ y.task = "new" => x.pc = "read" /\ x.id = y.id /\ x.task = "usage"
      /\ y.back = "none" /\ y.task \in {"usage", "outcome", "invalid"} =>
           x.pc \in {"save", "edit", "next"} /\ x.task = "none"
  BY <1>1, ResumedFields
<1> HIDE DEF x
<1>4. AtMostOne(x.data)
  BY <1>1, <1>3 DEF HookFits, AtMostOne
<1>5. x.pc \in Places \ {"write"} /\ x.task \in Tasks
  BY <1>1, <1>3 DEF Places, Tasks, Place, Loads, HookFits
<1>6. Knows(x) => x.advice \in Advices
  BY <1>1, <1>2, <1>3 DEF Knows, Logs, Saves, HookFits, Place, Loads
<1>7. \A k \in Kinds : Due(k, x) => Due(k, y)
  <2>1. CASE y.back # "none"
    BY <1>1, <1>3, <2>1 DEF Due, Logs, Seeking, Seeks, Saves, Kinds, News, Place, Loads
  <2>2. CASE y.back = "none" /\ y.task = "alias"
    <3>1. y.id # None /\ y.pc = "replace"
      BY <1>1, <2>2 DEF Place
    <3> QED
      BY <1>1, <1>3, <2>2, <3>1 DEF Due, Logs, Seeking, Seeks, Saves, Kinds, Place
  <2>3. CASE y.back = "none" /\ y.task # "alias"
    <3>1. y.pc = "read" => x.pc \in {"save", "edit"}
      BY <1>1, <1>3, <2>3, ResumedFields DEF Place, x
    <3>2. x.pc = "read" => y.pc = "replace" /\ y.task = "new"
      BY <1>1, <1>3, <2>3, <3>1 DEF Place
    <3>3. x.pc \in {"read", "save", "edit", "next"} /\ (x.pc = "read" => x.task = "usage")
      BY <1>1, <1>3, <2>3 DEF Place, Changes, News
    <3> QED
      BY <1>3, <2>3, <3>2, <3>3 DEF Due, Logs, Seeking, Seeks, Saves, Kinds
  <2> QED
    BY <2>1, <2>2, <2>3
<1>8. Allowed(p, x)
  BY <1>1, <1>2, <1>3, <1>4, <1>5, <1>6, <1>7, AllowedFrom DEF HookFits
<1> QED
  BY <1>8 DEF x

LEMMA AllowedReplace ==
  ASSUME TypesInv, Typed, NEW p \in Hooks, ReplaceIndex(p) \/ ReplaceFails(p)
  PROVE  AllowedMove(p)
<1>1. Whole(h[p]) /\ Place(h[p]) /\ h[p].pc = "replace"
  BY DEF Typed, HooksTyped, HookSound, ReplaceIndex, ReplaceFails
<1>2. h[p].back # "none" \/ h[p].task \in {"alias", "new", "usage", "outcome", "invalid", "baseline"}
  BY <1>1 DEF Place, Changes, News
<1>3. CASE ReplaceIndex(p)
  <2> DEFINE ends == /\ h[p].back = "none"
                     /\ h[p].task = "baseline" \/ (h[p].task = "new" /\ ~h[p].shown)
             x == IF ends THEN Idle ELSE Resumed(h[p])
  <2>1. h' = [h EXCEPT ![p] = x]
    BY <1>3 DEF ReplaceIndex, Become
  <2>2. Allowed(p, x)
    BY <1>1, <1>2, AllowedIdle, AllowedResumed
  <2> QED
    BY <2>1, <2>2 DEF AllowedMove
<1>4. CASE ReplaceFails(p)
  <2> DEFINE loads == h[p].back # "none"
             ends == ~loads /\ h[p].task \in {"baseline", "new"}
             y == Resumed(h[p])
             z == [y EXCEPT !.pc = "save", !.todo = {}, !.hits = {}]
  <2>1. CASE ends
    <3>1. Leave(p)
      BY <1>4, <2>1 DEF ReplaceFails
    <3> QED
      BY <3>1, AllowedLeave
  <2>2. CASE ~ends
    <3>1. h' = [h EXCEPT ![p] = IF h[p].task = "invalid" /\ ~loads THEN z ELSE y]
      BY <1>4, <2>2 DEF ReplaceFails, Become
    <3>2. Allowed(p, y) /\ HookSound(y, Len(packets))
      BY <1>1, <1>2, <2>2, AllowedResumed, ResumedSound, HookTyped DEF Changes
    <3>3. ASSUME h[p].task = "invalid", ~loads PROVE Allowed(p, z)
      <4>1. Whole(y) /\ y.task = "none" /\ y.back = "none"
        BY <1>1, <3>2, <3>3, ResumedFields DEF HookSound
      <4> HIDE DEF y
      <4>2. /\ z.pc = "save" /\ z.task = "none" /\ z.st = y.st /\ z.seen = y.seen /\ z.copy = y.copy
            /\ z.edited = y.edited /\ z.lines = y.lines /\ z.before = y.before /\ z.data = y.data
        BY <4>1 DEF Whole, Names
      <4> HIDE DEF z
      <4>3. HookFits(z)
        BY <3>2, <4>2 DEF Allowed, HookFits, Knows, Logs, Saves, Places, Tasks
      <4>4. \A k : ~Due(k, z)
        BY <4>2 DEF Due, Logs, Seeking, Seeks, Saves
      <4> QED
        BY <3>2, <4>2, <4>3, <4>4 DEF Allowed
    <3> HIDE DEF y, z
    <3> QED
      BY <3>1, <3>2, <3>3 DEF AllowedMove
  <2> QED
    BY <2>1, <2>2
<1> QED
  BY <1>3, <1>4

LEMMA AllowedUnread ==
  ASSUME TypesInv, Typed, NEW p \in Hooks, PacketUnread(p) \/ PassOver(p)
  PROVE  AllowedMove(p)
<1>1. HookSound(h[p], Len(packets)) /\ HookFits(h[p])
  BY HookTyped DEF TypesInv
<1>2. CASE PacketUnread(p)
  <2>1. h' = [h EXCEPT ![p] = Resumed(h[p])] /\ h[p].pc = "read"
    BY <1>2 DEF PacketUnread, Become
  <2>2. h[p].task \in {"usage", "outcome"}
    BY <1>1, <2>1 DEF HookSound, Place
  <2> QED
    BY <2>1, <2>2, AllowedResumed DEF AllowedMove
<1>3. CASE PassOver(p)
  <2>1. PICK id : h' = [h EXCEPT ![p] = [h[p] EXCEPT !.todo = @ \ {id}]] /\ h[p].pc = "next"
    BY <1>3 DEF PassOver, Become
  <2> DEFINE x == [h[p] EXCEPT !.todo = @ \ {id}]
  <2>2. /\ x.pc = "next" /\ x.task = h[p].task /\ x.st = h[p].st /\ x.seen = h[p].seen
        /\ x.copy = h[p].copy /\ x.edited = h[p].edited /\ x.lines = h[p].lines
        /\ x.before = h[p].before /\ x.data = h[p].data
    BY <1>1, <2>1 DEF HookSound, Whole, Names
  <2>3. h' = [h EXCEPT ![p] = x]
    BY <2>1
  <2> HIDE DEF x
  <2>4. (\A k : ~Due(k, x)) /\ ~Knows(x)
    BY <2>2 DEF Due, Logs, Seeking, Seeks, Saves, Knows
  <2>5. Allowed(p, x)
    BY <1>1, <2>2, <2>4, AllowedFrom DEF HookFits, Places
  <2> QED
    BY <2>3, <2>5 DEF AllowedMove
<1> QED
  BY <1>2, <1>3

LEMMA StoredReal ==
  ASSUME TypesInv, NEW id \in Stored
  PROVE  packets[id] \in RealPackets /\ packets[id].advice \in Advices /\ Room(packets[id], h, calls)
<1>1. packets[id] \in RealPackets
  BY DEF TypesInv, FilesFit, Stored
<1> QED
  BY <1>1 DEF RealPackets, TypesInv, BudgetInv

\* A hook that has looked into the index, with another place, packet, advice
\* and index to write.
Looked(y, x) ==
  /\ x.task \in {y.task, "alias"} /\ x.back = y.back /\ x.st = y.st /\ x.seen = y.seen
  /\ x.copy = y.copy /\ x.edited = y.edited /\ x.lines = y.lines /\ x.before = y.before /\ x.data = {} /\ x.shown = y.shown

LEMMA AllowedLooked ==
  ASSUME TypesInv, Typed, NEW p \in Hooks, NEW x, Looked(h[p], x), h[p].pc \in Seeks,
         \/ /\ x.pc = "relaxed" /\ h[p].pc = "exact" /\ x.task = h[p].task
         \/ /\ x.pc \in {"gate", "alias"} /\ x.task = h[p].task /\ x.advice \in Advices
            /\ x.id # None \/ h[p].pc \in {"exact", "relaxed"}
         \/ x.pc = "tmp" /\ x.task = "alias" /\ x.advice \in Advices
         \/ x.pc = "save" /\ x.task = h[p].task
  PROVE  Allowed(p, x)
<1>1. Place(h[p]) /\ HookFits(h[p])
  BY DEF Typed, HooksTyped, HookSound, TypesInv
<1>2. ~h[p].shown /\ h[p].back = "none"
  BY <1>1 DEF Place, Seeks
<1>3. \A k \in Kinds : Due(k, x) => Due(k, h[p])
  BY <1>2 DEF Due, Logs, Seeking, Seeks, Saves, Kinds, Looked
<1>4. Knows(x) => x.advice \in Advices
  BY DEF Knows, Logs, Saves
<1>5. AtMostOne(x.data)
  BY DEF AtMostOne, Looked
<1>6. x.pc \in Places \ {"write"} /\ x.task \in Tasks
  BY <1>1 DEF Places, Tasks, Looked, HookFits
<1> QED
  BY <1>1, <1>3, <1>4, <1>5, <1>6, AllowedFrom DEF Looked, HookFits

LEMMA AllowedExact ==
  ASSUME TypesInv, Typed, NEW p \in Hooks, LookupExact(p)
  PROVE  AllowedMove(p)
<1> DEFINE id == Loaded(p).exact[Key(p)]
           y == [h[p] EXCEPT !.data = {}]
           f == [y EXCEPT !.pc = "gate", !.id = id, !.advice = packets[id].advice]
           r == [y EXCEPT !.pc = "relaxed"]
<1>1. HookSound(h[p], Len(packets)) /\ h[p].pc = "exact" /\ Len(packets) \in Nat
  BY HookTyped DEF LookupExact
<1>2. Key(p) \in Keys
  BY <1>1 DEF HookSound, Fields, Place, Key, Keys
<1>3. id \in 0..Len(packets)
  BY <1>2, LoadedTyped DEF AnyIndexes
<1>4. \/ h' = [h EXCEPT ![p] = f] /\ id # None
      \/ h' = [h EXCEPT ![p] = r]
  BY DEF LookupExact, Become, Using, Found
<1>5. id # None => packets[id].advice \in Advices
  <2> HIDE DEF id
  <2> QED
    BY <1>1, <1>3, StoredReal DEF Stored, None
<1> HIDE DEF id
<1>6. Whole(h[p])
  BY <1>1 DEF HookSound
<1>7. /\ Looked(h[p], f) /\ f.pc = "gate" /\ f.task = h[p].task /\ f.advice = packets[id].advice
      /\ f.id = id
  BY <1>6 DEF Whole, Names, Looked
<1>8. Looked(h[p], r) /\ r.pc = "relaxed" /\ r.task = h[p].task
  BY <1>6 DEF Whole, Names, Looked
<1> HIDE DEF f, r
<1>9. (id # None => Allowed(p, f)) /\ Allowed(p, r)
  BY <1>1, <1>5, <1>7, <1>8, AllowedLooked DEF Seeks
<1> QED
  BY <1>4, <1>9 DEF AllowedMove

LEMMA AllowedRelaxed ==
  ASSUME TypesInv, Typed, NEW p \in Hooks, LookupRelaxed(p)
  PROVE  AllowedMove(p)
<1> DEFINE ix == Loaded(p)
           y == [h[p] EXCEPT !.data = {}]
           f(id, pc) == [y EXCEPT !.pc = pc, !.id = id, !.advice = packets[id].advice]
           n(a) == [y EXCEPT !.pc = "gate", !.advice = a]
           z == [y EXCEPT !.pc = "save"]
<1>1. HookSound(h[p], Len(packets)) /\ h[p].pc = "relaxed" /\ Len(packets) \in Nat
  BY HookTyped DEF LookupRelaxed
<1>2. ix.fresh \subseteq Stored
  BY LoadedTyped DEF AnyIndexes, Stored
<1>3. \/ \E id \in ix.fresh : \E pc \in {"gate", "alias"} : h' = [h EXCEPT ![p] = f(id, pc)]
      \/ \E a \in Advices : h' = [h EXCEPT ![p] = n(a)]
      \/ h' = [h EXCEPT ![p] = z]
  BY DEF LookupRelaxed, Become, Using, Found
<1>4. Whole(h[p])
  BY <1>1 DEF HookSound
<1>5. ASSUME NEW id \in ix.fresh, NEW pc \in {"gate", "alias"} PROVE Allowed(p, f(id, pc))
  <2>1. packets[id].advice \in Advices /\ id # None
    BY <1>2, StoredReal DEF Stored, None
  <2>2. /\ Looked(h[p], f(id, pc)) /\ f(id, pc).pc = pc /\ f(id, pc).task = h[p].task
        /\ f(id, pc).advice = packets[id].advice /\ f(id, pc).id = id
    BY <1>4 DEF Whole, Names, Looked
  <2> HIDE DEF f
  <2> QED
    BY <1>1, <2>1, <2>2, AllowedLooked DEF Seeks
<1>6. ASSUME NEW a \in Advices PROVE Allowed(p, n(a))
  <2>1. Looked(h[p], n(a)) /\ n(a).pc = "gate" /\ n(a).task = h[p].task /\ n(a).advice = a
    BY <1>4 DEF Whole, Names, Looked
  <2> HIDE DEF n
  <2> QED
    BY <1>1, <2>1, AllowedLooked DEF Seeks
<1>7. Allowed(p, z)
  <2>1. Looked(h[p], z) /\ z.pc = "save" /\ z.task = h[p].task
    BY <1>4 DEF Whole, Names, Looked
  <2> HIDE DEF z
  <2> QED
    BY <1>1, <2>1, AllowedLooked DEF Seeks
<1> HIDE DEF f, n, z
<1> QED
  BY <1>3, <1>5, <1>6, <1>7 DEF AllowedMove

LEMMA AllowedAlias ==
  ASSUME TypesInv, Typed, NEW p \in Hooks, Alias(p)
  PROVE  AllowedMove(p)
<1> DEFINE y == [h[p] EXCEPT !.data = {}]
           g == [y EXCEPT !.pc = "gate"]
           w(ix) == [y EXCEPT !.pc = "tmp", !.task = "alias", !.ix = ix]
<1>1. /\ Whole(h[p]) /\ h[p].pc = "alias" /\ h[p].id # None /\ h[p].advice \in Advices
  BY DEF Alias, Typed, HooksTyped, HookSound, Place, TypesInv, HookFits, Knows, Logs
<1>2. h' = [h EXCEPT ![p] = g] \/ \E ix : h' = [h EXCEPT ![p] = w(ix)]
  BY DEF Alias, Become, Using
<1>3. /\ Looked(h[p], g) /\ g.pc = "gate" /\ g.task = h[p].task /\ g.advice = h[p].advice
      /\ g.id = h[p].id
  BY <1>1 DEF Whole, Names, Looked
<1>4. \A ix : Looked(h[p], w(ix)) /\ w(ix).pc = "tmp" /\ w(ix).task = "alias" /\ w(ix).advice = h[p].advice
  BY <1>1 DEF Whole, Names, Looked
<1> HIDE DEF g, w
<1>5. Allowed(p, g) /\ \A ix : Allowed(p, w(ix))
  BY <1>1, <1>3, <1>4, AllowedLooked DEF Seeks
<1> QED
  BY <1>2, <1>5 DEF AllowedMove

\* The gate and the log of recent advice.
LEMMA AllowedGate ==
  ASSUME TypesInv, Typed, NEW p \in Hooks, GateBlocks(p) \/ Dedupe(p) \/ RepeatBlocks(p)
  PROVE  AllowedMove(p)
<1> DEFINE u == [h[p] EXCEPT !.pc = "read", !.task = "usage"]
           m(pc) == [h[p] EXCEPT !.pc = pc]
<1>1. /\ Whole(h[p]) /\ HookFits(h[p]) /\ h[p].pc \in {"gate", "emit"} /\ ~h[p].shown
      /\ h[p].advice \in Advices
  BY DEF GateBlocks, Dedupe, RepeatBlocks, Typed, HooksTyped, HookSound, Place, TypesInv, HookFits, Knows, Logs
<1>2. \/ h' = [h EXCEPT ![p] = u]
      \/ h' = [h EXCEPT ![p] = m("save")]
      \/ h' = [h EXCEPT ![p] = m("emit")]
  BY DEF GateBlocks, Dedupe, RepeatBlocks, Goto, Become, Suppressed
<1>3. /\ u.pc = "read" /\ u.task = "usage" /\ u.st = h[p].st /\ u.seen = h[p].seen /\ u.copy = h[p].copy
      /\ u.edited = h[p].edited /\ u.lines = h[p].lines /\ u.before = h[p].before /\ u.data = h[p].data /\ u.shown = h[p].shown
  BY <1>1 DEF Whole, Names
<1>4. \A pc : /\ m(pc).pc = pc /\ m(pc).task = h[p].task /\ m(pc).st = h[p].st /\ m(pc).seen = h[p].seen
              /\ m(pc).copy = h[p].copy /\ m(pc).edited = h[p].edited /\ m(pc).lines = h[p].lines /\ m(pc).before = h[p].before
              /\ m(pc).data = h[p].data /\ m(pc).shown = h[p].shown /\ m(pc).advice = h[p].advice
              /\ m(pc).id = h[p].id
  BY <1>1 DEF Whole, Names
<1> HIDE DEF u, m
<1>5. Allowed(p, u)
  <2>1. \A k \in Kinds : ~Due(k, u)
    BY <1>1, <1>3 DEF Due, Logs, Seeking, Seeks, Saves, Kinds
  <2>2. ~Knows(u)
    BY <1>3 DEF Knows, Logs, Saves
  <2> QED
    BY <1>1, <1>3, <2>1, <2>2, AllowedFrom DEF HookFits, Places, Tasks
<1>6. ASSUME NEW pc \in {"save", "emit"} PROVE Allowed(p, m(pc))
  <2>1. \A k \in Kinds : Due(k, m(pc)) => Due(k, h[p])
    BY <1>1, <1>4 DEF Due, Logs, Seeking, Seeks, Saves, Kinds
  <2> QED
    BY <1>1, <1>4, <2>1, AllowedFrom DEF HookFits, Places
<1> QED
  BY <1>2, <1>5, <1>6 DEF AllowedMove

\* What was shown is noted in the log, and new advice stored.
LEMMA AllowedBuilt ==
  ASSUME TypesInv, Typed, NEW p \in Hooks, h[p].pc \in {"emit"} \cup Logs, h[p].id = None,
         NEW x, x.pc = "write", x.task = "new", x.copy = NewPacket(Key(p), h[p].advice),
         x.st.shown = h[p].st.shown, x.seen = h[p].seen, x.edited = h[p].edited,
         x.lines \in {h[p].lines, {}}, x.before = h[p].before, x.data = h[p].data,
         x.shown = h[p].shown
  PROVE  Allowed(p, x)
<1> DEFINE c == NewPacket(Key(p), h[p].advice)
<1>1. HookSound(h[p], Len(packets)) /\ HookFits(h[p])
  BY HookTyped DEF TypesInv
<1>2. /\ h[p].advice \in Advices /\ h[p].s \in Sessions /\ h[p].t \in Tools \cup {"*"}
      /\ h[p].pc = "emit" => ~h[p].shown
  BY <1>1 DEF HookSound, Fields, Place, HookFits, Knows, Logs
<1>3. c \in RealPackets /\ c.emits = 0 /\ c.outcomes = 0
  BY <1>2 DEF NewPacket, RealPackets, Key, Keys
<1>4. x.copy = c
  OBVIOUS
<1> HIDE DEF c
<1>5. HookFits(x)
  BY <1>1, <1>3, <1>4 DEF HookFits, Knows, Logs, Saves, Places, Tasks
<1>6. \A k \in Kinds : Due(k, x) => Due(k, h[p])
  BY <1>2 DEF Due, Logs, Seeking, Seeks, Saves, Kinds
<1>7. Room(x.seen, h, calls) /\ Room(x.copy, h, calls)
  BY <1>3, <1>4, EmptyRoom DEF TypesInv, BudgetInv
<1> QED
  BY <1>5, <1>6, <1>7 DEF Allowed

LEMMA AllowedNoted ==
  ASSUME TypesInv, Typed, NEW p \in Hooks, h[p].pc \in Logs
  PROVE  Allowed(p, Noted(p)) /\ Allowed(p, [Noted(p) EXCEPT !.lines = {}])
<1> DEFINE y == Noted(p)
           z == [y EXCEPT !.lines = {}]
<1>1. HookSound(h[p], Len(packets)) /\ HookFits(h[p]) /\ h[p].st \in AnyStates(Len(packets))
  BY HookTyped DEF HookSound, Fields, TypesInv
<1>2. /\ y.pc = (IF h[p].id = None THEN "write" ELSE "read")
      /\ y.task = (IF h[p].id = None THEN "new" ELSE "usage")
      /\ y.lines = h[p].lines /\ z.lines = {}
      /\ z.pc = y.pc /\ z.task = y.task /\ z.st = y.st /\ z.copy = y.copy
      /\ \A x \in {y, z} :
           /\ x.id = h[p].id /\ x.shown = h[p].shown /\ x.seen = h[p].seen
           /\ x.data = h[p].data /\ x.edited = h[p].edited /\ x.before = h[p].before
  BY NotedStep
<1>3. /\ y.st.shown = h[p].st.shown
      /\ y.copy = IF h[p].id = None THEN NewPacket(Key(p), h[p].advice) ELSE h[p].copy
  <2>1. Whole(h[p])
    BY <1>1 DEF HookSound
  <2>2. CASE h[p].id = None
    <3> DEFINE c == NewPacket(Key(p), h[p].advice)
    <3>1. y = [h[p] EXCEPT !.pc = "write", !.task = "new", !.copy = c]
      BY <2>2, NotedIs DEF Built
    <3> HIDE DEF c, y
    <3>2. y.st = h[p].st /\ y.copy = c
      BY <2>1, <3>1 DEF Whole, Names
    <3> QED
      BY <2>2, <3>2 DEF c
  <2>3. CASE h[p].id # None
    <3>1. y = Told(h[p])
      BY <2>3, NotedIs
    <3> HIDE DEF y
    <3>2. /\ y.st = [[h[p].st EXCEPT !.last = h[p].id] EXCEPT !.tool = h[p].t]
          /\ y.copy = h[p].copy
      BY <2>1, <3>1 DEF Told, Whole, Names
    <3>3. \A st \in AnyStates(Len(packets)) :
            [[st EXCEPT !.last = h[p].id] EXCEPT !.tool = h[p].t].shown = st.shown
      BY DEF AnyStates
    <3> QED
      BY <1>1, <2>3, <3>2, <3>3
  <2> QED
    BY <2>2, <2>3
<1> HIDE DEF y, z
<1>4. ASSUME NEW x \in {y, z} PROVE Allowed(p, x)
  <2>1. /\ x.pc = y.pc /\ x.task = y.task /\ x.st.shown = h[p].st.shown /\ x.copy = y.copy
        /\ x.lines \in {h[p].lines, {}} /\ x.shown = h[p].shown /\ x.seen = h[p].seen
        /\ x.data = h[p].data /\ x.edited = h[p].edited /\ x.before = h[p].before
    BY <1>2, <1>3, <1>4
  <2>2. CASE h[p].id = None
    BY <1>2, <1>3, <2>1, <2>2, AllowedBuilt
  <2>3. CASE h[p].id # None
    <3>1. x.pc = "read" /\ x.task = "usage" /\ x.copy = h[p].copy
      BY <1>2, <1>3, <2>1, <2>3
    <3>2. \A k \in Kinds : Due(k, x) => Due(k, h[p])
      BY <2>1, <3>1 DEF Due, Logs, Seeking, Seeks, Saves, Kinds
    <3>3. ~Knows(x)
      BY <3>1 DEF Knows, Logs, Saves
    <3> QED
      BY <1>1, <2>1, <3>1, <3>2, <3>3, AllowedFrom DEF HookFits, Places, Tasks
  <2> QED
    BY <2>2, <2>3
<1> QED
  BY <1>4 DEF y, z

LEMMA AllowedShown ==
  ASSUME TypesInv, Typed, NEW p \in Hooks, EmitFails(p) \/ LogAdvice(p) \/ EmptyLog(p) \/ FillLog(p)
  PROVE  AllowedMove(p)
<1>1. Whole(h[p]) /\ HookFits(h[p]) /\ log \subseteq Advices
  BY DEF Typed, HooksTyped, HookSound, TypesInv, FilesFit
<1>2. CASE EmitFails(p) /\ h[p].id # None
  BY <1>2, AllowedLeave DEF EmitFails
<1>3. CASE EmitFails(p) /\ h[p].id = None
  <2> DEFINE c == NewPacket(Key(p), h[p].advice)
             b == [h[p] EXCEPT !.pc = "write", !.task = "new", !.copy = c]
  <2>1. h' = [h EXCEPT ![p] = b] /\ h[p].pc = "emit"
    BY <1>3 DEF EmitFails, Become, Built
  <2>2. c = NewPacket(Key(p), h[p].advice)
    OBVIOUS
  <2> HIDE DEF c
  <2>3. /\ b.pc = "write" /\ b.task = "new" /\ b.copy = c /\ b.st = h[p].st /\ b.seen = h[p].seen
        /\ b.edited = h[p].edited /\ b.lines = h[p].lines /\ b.before = h[p].before
        /\ b.data = h[p].data /\ b.shown = h[p].shown
    BY <1>1 DEF Whole, Names
  <2> HIDE DEF b
  <2> QED
    BY <1>3, <2>1, <2>2, <2>3, AllowedBuilt DEF AllowedMove
<1>4. ASSUME NEW x, h' = [h EXCEPT ![p] = x], h[p].pc \in Logs, x.pc \in {"cap", "fill"},
             x.task = h[p].task, x.st = h[p].st, x.seen = h[p].seen, x.copy = h[p].copy,
             x.edited = h[p].edited, x.lines \subseteq Advices, x.before = h[p].before,
             x.data = h[p].data, x.id = h[p].id, x.advice = h[p].advice, x.shown = h[p].shown
      PROVE  AllowedMove(p)
  <2>1. \A k \in Kinds : Due(k, x) => Due(k, h[p])
    BY <1>4 DEF Due, Logs, Seeking, Seeks, Saves, Kinds
  <2>2. x.advice \in Advices
    BY <1>1, <1>4 DEF HookFits, Knows
  <2>3. Allowed(p, x)
    BY <1>1, <1>4, <2>1, <2>2, AllowedFrom DEF HookFits, Places
  <2> QED
    BY <1>4, <2>3 DEF AllowedMove
<1>5. CASE LogAdvice(p)
  <2> DEFINE x == [h[p] EXCEPT !.pc = "cap"]
  <2>1. h[p].pc = "log" /\ (h' = [h EXCEPT ![p] = Noted(p)] \/ h' = [h EXCEPT ![p] = x])
    BY <1>5 DEF LogAdvice, Become, Goto
  <2>2. /\ x.pc = "cap" /\ x.task = h[p].task /\ x.st = h[p].st /\ x.seen = h[p].seen
        /\ x.copy = h[p].copy /\ x.edited = h[p].edited /\ x.lines = h[p].lines
        /\ x.before = h[p].before /\ x.data = h[p].data /\ x.id = h[p].id
        /\ x.advice = h[p].advice /\ x.shown = h[p].shown
    BY <1>1 DEF Whole, Names
  <2> HIDE DEF x
  <2>3. CASE h' = [h EXCEPT ![p] = Noted(p)]
    BY <2>1, <2>3, AllowedNoted DEF AllowedMove, Logs
  <2>4. CASE h' = [h EXCEPT ![p] = x]
    BY <1>1, <1>4, <2>1, <2>2, <2>4 DEF HookFits, Logs
  <2> QED
    BY <2>1, <2>3, <2>4
<1>6. CASE EmptyLog(p)
  <2> DEFINE x == [h[p] EXCEPT !.pc = "fill", !.lines = log]
  <2>1. h[p].pc = "cap" /\ h' = [h EXCEPT ![p] = x]
    BY <1>6 DEF EmptyLog, Become
  <2>2. /\ x.pc = "fill" /\ x.task = h[p].task /\ x.st = h[p].st /\ x.seen = h[p].seen
        /\ x.copy = h[p].copy /\ x.edited = h[p].edited /\ x.lines = log
        /\ x.before = h[p].before /\ x.data = h[p].data /\ x.id = h[p].id
        /\ x.advice = h[p].advice /\ x.shown = h[p].shown
    BY <1>1 DEF Whole, Names
  <2> HIDE DEF x
  <2> QED
    BY <1>1, <1>4, <2>1, <2>2 DEF Logs
<1>7. CASE FillLog(p)
  <2>1. h[p].pc = "fill" /\ h' = [h EXCEPT ![p] = [Noted(p) EXCEPT !.lines = {}]]
    BY <1>7 DEF FillLog, Become
  <2> QED
    BY <2>1, AllowedNoted DEF AllowedMove, Logs
<1> QED
  BY <1>2, <1>3, <1>5, <1>6, <1>7

LEMMA AllowedPrompt ==
  ASSUME TypesInv, Typed, NEW p \in Hooks, SavePrompt(p)
  PROVE  AllowedMove(p)
<1> DEFINE c == NewPacket(Key(p), Baseline)
           b == [h[p] EXCEPT !.pc = "write", !.task = "baseline", !.copy = c]
<1>1. HookSound(h[p], Len(packets)) /\ HookFits(h[p]) /\ h[p].pc = "prompt"
  BY HookTyped DEF SavePrompt, TypesInv
<1>2. Whole(h[p]) /\ h[p].s \in Sessions /\ h[p].t \in Tools \cup {"*"}
  BY <1>1 DEF HookSound, Fields, Place
<1>3. c \in RealPackets /\ c.emits = 0 /\ c.outcomes = 0
  BY <1>2, AdvisoryAssumption DEF AdvisoryAssumption, NewPacket, RealPackets, Key, Keys
<1>4. h' = [h EXCEPT ![p] = b]
  BY DEF SavePrompt, Become
<1> HIDE DEF c
<1>5. /\ b.pc = "write" /\ b.task = "baseline" /\ b.copy = c /\ b.st = h[p].st /\ b.seen = h[p].seen
      /\ b.edited = h[p].edited /\ b.lines = h[p].lines /\ b.before = h[p].before /\ b.data = h[p].data
  BY <1>2 DEF Whole, Names
<1> HIDE DEF b
<1>6. HookFits(b)
  BY <1>1, <1>3, <1>5 DEF HookFits, Knows, Logs, Saves, Places, Tasks
<1>7. \A k \in Kinds : Due(k, b) => Due(k, h[p])
  BY <1>1, <1>5 DEF Due, Logs, Seeking, Seeks, Saves, Kinds
<1>8. Room(b.seen, h, calls) /\ Room(b.copy, h, calls)
  BY <1>3, <1>5, EmptyRoom DEF TypesInv, BudgetInv
<1> QED
  BY <1>4, <1>6, <1>7, <1>8 DEF Allowed, AllowedMove

\* An edit that has found its packets or is done.
LEMMA AllowedEdit ==
  ASSUME TypesInv, Typed, NEW p \in Hooks, FindEdited(p) \/ AllInvalidated(p)
  PROVE  AllowedMove(p)
<1> DEFINE y == [h[p] EXCEPT !.data = {}]
           f(hits, todo) == [y EXCEPT !.pc = "next", !.edited = {}, !.hits = hits, !.todo = todo]
           n == [y EXCEPT !.pc = "save"]
           a == [h[p] EXCEPT !.pc = "save", !.hits = {}]
<1>1. Whole(h[p]) /\ HookFits(h[p])
  BY DEF Typed, HooksTyped, HookSound, TypesInv
<1>2. (\E hits, todo : h' = [h EXCEPT ![p] = f(hits, todo)]) \/ h' = [h EXCEPT ![p] = n] \/ h' = [h EXCEPT ![p] = a]
  BY DEF FindEdited, AllInvalidated, Become, Using
<1>3. ASSUME NEW x, x.pc \in {"next", "save"}, x.task = h[p].task, x.st = h[p].st, x.seen = h[p].seen,
             x.copy = h[p].copy, x.edited \in {h[p].edited, {}}, x.lines = h[p].lines /\ x.before = h[p].before,
             x.data \in {h[p].data, {}}
      PROVE  Allowed(p, x)
  <2>1. \A k : ~Due(k, x)
    BY <1>3 DEF Due, Logs, Seeking, Seeks, Saves
  <2>2. ~Knows(x) /\ AtMostOne(x.data)
    BY <1>1, <1>3 DEF Knows, Logs, Saves, AtMostOne, HookFits
  <2>3. x.pc \in Places \ {"write"} /\ x.task \in Tasks
    BY <1>1, <1>3 DEF Places, HookFits
  <2> QED
    BY <1>1, <1>3, <2>1, <2>2, <2>3, AllowedFrom DEF HookFits
<1>4. \A hits, todo : Allowed(p, f(hits, todo))
  <2> SUFFICES ASSUME NEW hits, NEW todo PROVE Allowed(p, f(hits, todo))
    OBVIOUS
  <2>1. /\ f(hits, todo).pc = "next" /\ f(hits, todo).task = h[p].task /\ f(hits, todo).st = h[p].st
        /\ f(hits, todo).seen = h[p].seen /\ f(hits, todo).copy = h[p].copy /\ f(hits, todo).edited = {}
        /\ f(hits, todo).lines = h[p].lines /\ f(hits, todo).before = h[p].before /\ f(hits, todo).data = {}
    BY <1>1 DEF Whole, Names
  <2> HIDE DEF f
  <2> QED
    BY <1>3, <2>1
<1>5. Allowed(p, n)
  <2>1. /\ n.pc = "save" /\ n.task = h[p].task /\ n.st = h[p].st /\ n.seen = h[p].seen
        /\ n.copy = h[p].copy /\ n.edited = h[p].edited /\ n.lines = h[p].lines /\ n.before = h[p].before /\ n.data = {}
    BY <1>1 DEF Whole, Names
  <2> HIDE DEF n
  <2> QED
    BY <1>3, <2>1
<1>6. Allowed(p, a)
  <2>1. /\ a.pc = "save" /\ a.task = h[p].task /\ a.st = h[p].st /\ a.seen = h[p].seen
        /\ a.copy = h[p].copy /\ a.edited = h[p].edited /\ a.lines = h[p].lines /\ a.before = h[p].before
        /\ a.data = h[p].data
    BY <1>1 DEF Whole, Names
  <2> HIDE DEF a
  <2> QED
    BY <1>3, <2>1
<1> HIDE DEF f, n, a
<1> QED
  BY <1>2, <1>4, <1>5, <1>6 DEF AllowedMove

LEMMA AllowedInvalidate ==
  ASSUME TypesInv, Typed, NEW p \in Hooks, InvalidateNext(p)
  PROVE  AllowedMove(p)
<1>1. PICK id \in h[p].todo :
        h' = [h EXCEPT ![p] = [h[p] EXCEPT !.pc = "write", !.task = "invalid", !.id = id,
                                 !.todo = @ \ {id}, !.seen = packets[id],
                                 !.copy = [packets[id] EXCEPT !.invalid = TRUE]]]
  BY DEF InvalidateNext, Become
<1> DEFINE c == [packets[id] EXCEPT !.invalid = TRUE]
           x == [h[p] EXCEPT !.pc = "write", !.task = "invalid", !.id = id, !.todo = @ \ {id},
                             !.seen = packets[id], !.copy = c]
<1>2. HookSound(h[p], Len(packets)) /\ Len(packets) \in Nat /\ HookFits(h[p])
  BY HookTyped DEF TypesInv
<1>3. id \in Stored
  BY <1>2 DEF HookSound, Fields, Stored
<1>4. packets[id] \in RealPackets /\ Room(packets[id], h, calls)
  BY <1>3, StoredReal
<1>5. c \in RealPackets /\ c.emits = packets[id].emits /\ c.outcomes = packets[id].outcomes
  BY <1>4 DEF RealPackets
<1>6. Room(c, h, calls)
  BY <1>4, <1>5 DEF Room
<1>7. h' = [h EXCEPT ![p] = x]
  BY <1>1
<1> HIDE DEF c
<1>8. /\ x.pc = "write" /\ x.task = "invalid" /\ x.seen = packets[id] /\ x.copy = c /\ x.st = h[p].st
      /\ x.edited = h[p].edited /\ x.lines = h[p].lines /\ x.before = h[p].before /\ x.data = h[p].data
  BY <1>2 DEF HookSound, Whole, Names
<1> HIDE DEF x
<1>9. HookFits(x)
  BY <1>2, <1>4, <1>5, <1>8 DEF HookFits, Knows, Logs, Saves, Places, Tasks
<1>10. \A k : ~Due(k, x)
  BY <1>8 DEF Due, Logs, Seeking, Seeks, Saves, News
<1> QED
  BY <1>4, <1>6, <1>7, <1>8, <1>9, <1>10 DEF Allowed, AllowedMove

\* The steps that store, show or count.
LEMMA TypesRead ==
  ASSUME TypesInv, Typed, Typed', NEW p \in Hooks, ReadPacket(p)
  PROVE  BudgetInv' /\ \A q \in Hooks : HookFits(h'[q])
<1> DEFINE packet == packets[h[p].id]
           c == Changed(h[p], packet)
           x == [h[p] EXCEPT !.pc = "write", !.seen = packet, !.copy = c]
<1>1. /\ h' = [h EXCEPT ![p] = x] /\ UNCHANGED <<packets, shows, calls, kills>> /\ h[p].pc = "read"
  BY DEF ReadPacket, Become, files, history
<1>2. HookSound(h[p], Len(packets)) /\ Len(packets) \in Nat /\ HookFits(h[p])
  BY HookTyped DEF TypesInv
<1>3. /\ h[p].task \in {"usage", "outcome"} /\ h[p].id \in Stored /\ h[p].shown \in BOOLEAN
      /\ h[p].shown => h[p].task = "usage"
  BY <1>1, <1>2 DEF HookSound, Fields, Place, None, Stored
<1>4. packet \in RealPackets /\ Room(packet, h, calls)
  BY <1>3, StoredReal
<1>5. packet.emits \in Nat /\ packet.outcomes \in Nat
  BY <1>4 DEF RealPackets
<1>6. /\ c \in RealPackets
      /\ c.emits = packet.emits + (IF h[p].task = "usage" /\ h[p].shown THEN 1 ELSE 0)
      /\ c.outcomes = packet.outcomes + (IF h[p].task = "outcome" THEN 1 ELSE 0)
  BY <1>3, <1>4, <1>5 DEF Changed, RealPackets
<1> HIDE DEF c, packet
<1>7. /\ x.pc = "write" /\ x.task = h[p].task /\ x.seen = packet /\ x.copy = c /\ x.st = h[p].st
      /\ x.edited = h[p].edited /\ x.lines = h[p].lines /\ x.before = h[p].before /\ x.data = h[p].data
  BY <1>2 DEF HookSound, Whole, Names
<1> HIDE DEF x
<1>8. HookFits(x)
  BY <1>2, <1>4, <1>6, <1>7 DEF HookFits, Knows, Logs, Saves, Places
<1>9. \A k : ~Due(k, x)
  BY <1>3, <1>7 DEF Due, Logs, Seeking, Seeks, Saves, News
<1>10. h' = [q \in Hooks |-> IF q = p THEN x ELSE h[q]] /\ calls \in Nat
  BY <1>1, CountsAre DEF TypesInv, BudgetInv
<1> DEFINE e == Cardinality(Users(h, "emit"))
           o == Cardinality(Users(h, "outcome"))
           f == Cardinality(Users(h', "emit"))
           r == Cardinality(Users(h', "outcome"))
<1>11. e \in Nat /\ o \in Nat /\ f \in Nat /\ r \in Nat
  BY UsersCount
<1>12. f <= e /\ r <= o
  BY <1>9, <1>10, UsersAfter
<1>13. h[p].task = "usage" /\ h[p].shown => f + 1 <= e
  <2>1. h[p].task = "usage" /\ h[p].shown => Due("emit", h[p])
    BY <1>1 DEF Due, Logs
  <2> QED
    BY <1>9, <1>10, <2>1, UsersAfter
<1>14. h[p].task = "outcome" => r + 1 <= o
  <2>1. h[p].task = "outcome" => Due("outcome", h[p])
    BY <1>1 DEF Due, Logs
  <2> QED
    BY <1>9, <1>10, <2>1, UsersAfter
<1>15. packet.emits + e <= calls /\ packet.outcomes + o <= calls
  BY <1>4 DEF Room
<1>16. c.emits + f <= calls /\ c.outcomes + r <= calls
  <2> HIDE DEF e, o, f, r
  <2> QED
    BY <1>3, <1>5, <1>6, <1>10, <1>11, <1>12, <1>13, <1>14, <1>15
<1>17. packet.emits + f <= calls /\ packet.outcomes + r <= calls
  <2> HIDE DEF e, o, f, r
  <2> QED
    BY <1>5, <1>10, <1>11, <1>12, <1>15
<1>18. Room(x.seen, h', calls) /\ Room(x.copy, h', calls)
  BY <1>7, <1>16, <1>17 DEF Room
<1>19. kills' \in 0..MaxKills /\ calls + kills' <= MaxCalls
  BY <1>1 DEF TypesInv, BudgetInv
<1>20. BudgetInv'
  BY <1>1, <1>9, <1>18, <1>19, QuietBudget
<1> QED
  BY <1>8, <1>10, <1>20 DEF TypesInv

LEMMA TypesWrite ==
  ASSUME TypesInv, Typed, Typed', NEW p \in Hooks, WritePacket(p)
  PROVE  /\ BudgetInv' /\ packets' \in Seq(RealPackets) /\ torn' \subseteq Stored'
         /\ \A q \in Hooks : HookFits(h'[q])
<1> DEFINE new == h[p].task \in {"new", "baseline"}
           id == IF new THEN Len(packets) + 1 ELSE h[p].id
           x == [h[p] EXCEPT !.pc = "index", !.id = id, !.seen = NoCopy]
<1>1. /\ packets' = IF new THEN Append(packets, h[p].copy) ELSE [packets EXCEPT ![id] = h[p].copy]
      /\ shows' = IF new THEN Append(shows, IF h[p].shown THEN 1 ELSE 0) ELSE shows
      /\ h' = [h EXCEPT ![p] = x] /\ h[p].pc = "write" /\ UNCHANGED <<calls, kills>>
  BY DEF WritePacket, Become, News
<1>2. HookSound(h[p], Len(packets)) /\ Len(packets) \in Nat /\ HookFits(h[p])
  BY HookTyped DEF TypesInv
<1>3. /\ x.pc = "index" /\ x.task = h[p].task /\ x.seen = NoCopy /\ x.copy = h[p].copy
      /\ x.st = h[p].st /\ x.edited = h[p].edited /\ x.lines = h[p].lines /\ x.before = h[p].before /\ x.data = h[p].data
      /\ x.shown = h[p].shown
  BY <1>2 DEF HookSound, Whole, Names
<1> HIDE DEF x
<1>4. \A k \in Kinds : Due(k, x) => Due(k, h[p])
  BY <1>1, <1>3 DEF Due, Logs, Seeking, Seeks, Saves, Kinds
<1>5. HookFits(x)
  BY <1>2, <1>3 DEF HookFits, Knows, Logs, Saves, Places
<1>6. h' = [q \in Hooks |-> IF q = p THEN x ELSE h[q]] /\ calls \in Nat
  BY <1>1, CountsAre DEF TypesInv, BudgetInv
<1>7. \A k \in Kinds : Cardinality(Users(h', k)) <= Cardinality(Users(h, k))
  BY <1>4, <1>6, UsersAfter
<1>8. Room(x.seen, h', calls) /\ Room(x.copy, h', calls)
  <2>1. Room(NoCopy, h, calls) /\ Room(h[p].copy, h, calls)
    BY EmptyRoom DEF NoCopy, TypesInv, BudgetInv
  <2>2. NoCopy.emits = 0 /\ NoCopy.outcomes = 0
    BY DEF NoCopy
  <2> QED
    BY <1>3, <1>6, <1>7, <2>1, <2>2, CountsAre, FewerUsers
<1>9. \A k : Cardinality(Users(h', k)) \in Nat /\ Cardinality(Users(h, k)) \in Nat
  BY UsersCount
<1>10. /\ packets \in Seq(RealPackets) /\ shows \in Seq(Nat) /\ Len(shows) = Len(packets)
       /\ h[p].copy \in RealPackets
  BY <1>1, <1>2 DEF Typed, FilesTyped, TypesInv, FilesFit, HookFits
<1> DEFINE s == Cardinality(Users(h, "show"))
           t == Cardinality(Users(h', "show"))
           b == Cardinality(Users(h, "packet"))
           d == Cardinality(Users(h', "packet"))
<1>11. s \in Nat /\ t \in Nat /\ b \in Nat /\ d \in Nat
  BY <1>9
<1>12. t <= s /\ d <= b
  <2>1. "packet" \in Kinds /\ "show" \in Kinds
    BY DEF Kinds
  <2> QED
    BY <1>7, <2>1
<1>13. s <= calls /\ Len(packets) + b <= calls
  BY DEF TypesInv, BudgetInv, Kinds
<1>14. \A j \in Stored : shows[j] \in Nat /\ shows[j] + s <= calls
  BY CountsAre DEF TypesInv, BudgetInv
<1>15. torn \subseteq Stored /\ torn' \subseteq torn \cup (IF new THEN {} ELSE {h[p].id})
  BY DEF WritePacket, News, TypesInv, FilesFit
<1>16. CASE new
  <2>1. /\ packets' = Append(packets, h[p].copy)
        /\ shows' = Append(shows, IF h[p].shown THEN 1 ELSE 0)
    BY <1>1, <1>16
  <2>2. d + 1 <= b
    <3>1. Due("packet", h[p]) /\ ~Due("packet", x)
      BY <1>1, <1>3, <1>16 DEF Due, Logs, News, Saves
    <3> QED
      BY <1>6, <3>1, UsersAfter
  <2>3. h[p].shown => t + 1 <= s
    <3>1. h[p].shown => h[p].task = "new"
      BY <1>1, <1>2, <1>16 DEF HookSound, Place
    <3>2. h[p].shown => Due("show", h[p]) /\ ~Due("show", x)
      BY <1>1, <1>3, <3>1 DEF Due, Logs, Seeking, Seeks, Saves
    <3> QED
      BY <1>6, <3>2, UsersAfter
  <2> HIDE DEF s, t, b, d
  <2>4. Len(packets') = Len(packets) + 1 /\ packets' \in Seq(RealPackets)
    BY <1>10, <2>1
  <2>5. Len(packets') + d <= calls
    BY <1>2, <1>6, <1>11, <1>13, <2>2, <2>4
  <2>6. ASSUME NEW j \in Stored'
        PROVE  /\ shows'[j] + t <= calls
               /\ packets'[j] = h[p].copy \/ (j \in Stored /\ packets'[j] = packets[j])
    <3>1. CASE j \in Stored
      <4>1. shows'[j] = shows[j] /\ packets'[j] = packets[j]
        BY <1>10, <2>1, <3>1 DEF Stored
      <4>2. shows[j] \in Nat /\ shows[j] + s <= calls
        BY <1>14, <3>1
      <4>3. shows[j] + t <= calls
        BY <1>6, <1>11, <1>12, <4>2
      <4> QED
        BY <3>1, <4>1, <4>3
    <3>2. CASE j \notin Stored
      <4>1. j = Len(packets) + 1
        BY <1>2, <2>4, <3>2 DEF Stored
      <4>2. shows'[j] = (IF h[p].shown THEN 1 ELSE 0) /\ packets'[j] = h[p].copy
        BY <1>10, <2>1, <4>1
      <4>3. (IF h[p].shown THEN 1 ELSE 0) + t <= calls
        BY <1>6, <1>11, <1>12, <1>13, <2>3
      <4> QED
        BY <4>2, <4>3
    <3> QED
      BY <3>1, <3>2
  <2>7. torn' \subseteq Stored'
    BY <1>2, <1>15, <1>16, <2>4 DEF Stored
  <2> QED
    BY <1>1, <1>4, <1>5, <1>6, <1>8, <2>4, <2>5, <2>6, <2>7, BudgetStep DEF TypesInv, BudgetInv, t, d
<1>17. CASE ~new
  <2>1. packets' = [packets EXCEPT ![h[p].id] = h[p].copy] /\ shows' = shows
    BY <1>1, <1>17
  <2>2. packets' \in Seq(RealPackets) /\ Len(packets') = Len(packets) /\ torn' \subseteq Stored'
    <3>1. h[p].id \in 1..Len(packets)
      BY <1>1, <1>2, <1>17 DEF HookSound, Fields, Place, News, Changes, None
    <3>2. packets' \in Seq(RealPackets) /\ Len(packets') = Len(packets)
      BY <1>10, <2>1, <3>1
    <3> QED
      BY <1>15, <1>17, <3>1, <3>2 DEF Stored
  <2>3. \A j \in Stored' : packets'[j] = h[p].copy \/ (j \in Stored /\ packets'[j] = packets[j])
    BY <1>10, <2>1, <2>2 DEF Stored
  <2> HIDE DEF s, t, b, d
  <2>4. Len(packets') + d <= calls
    BY <1>2, <1>6, <1>11, <1>12, <1>13, <2>2
  <2>5. ASSUME NEW j \in Stored' PROVE shows'[j] + t <= calls
    <3>1. j \in Stored
      BY <2>2 DEF Stored
    <3>2. shows[j] \in Nat /\ shows[j] + s <= calls
      BY <1>14, <3>1
    <3>3. shows[j] + t <= calls
      BY <1>6, <1>11, <1>12, <3>2
    <3> QED
      BY <2>1, <3>3
  <2> QED
    BY <1>1, <1>4, <1>5, <1>6, <1>8, <2>2, <2>3, <2>4, <2>5, BudgetStep DEF TypesInv, BudgetInv, t, d
<1> QED
  BY <1>16, <1>17

LEMMA TypesEmit ==
  ASSUME TypesInv, Typed, Typed', NEW p \in Hooks, Emit(p)
  PROVE  BudgetInv' /\ \A q \in Hooks : HookFits(h'[q])
<1> DEFINE a == h[p].advice
           id == h[p].id
           x == [h[p] EXCEPT !.pc = "log", !.shown = TRUE, !.st.shown = @ \cup {a}]
<1>1. /\ h' = [h EXCEPT ![p] = x] /\ UNCHANGED <<packets, calls, kills>> /\ h[p].pc = "emit"
      /\ shows' = IF id = None THEN shows ELSE [shows EXCEPT ![id] = @ + 1]
  BY DEF Emit, Become, files
<1>2. HookSound(h[p], Len(packets)) /\ Len(packets) \in Nat /\ HookFits(h[p])
  BY HookTyped DEF TypesInv
<1>3. Whole(h[p]) /\ a \in Advices /\ id \in 0..Len(packets) /\ h[p].st \in AnyStates(Len(packets))
  BY <1>1, <1>2 DEF HookSound, Fields, HookFits, Knows, Logs
<1>4. /\ x.pc = "log" /\ x.task = h[p].task /\ x.seen = h[p].seen /\ x.copy = h[p].copy
      /\ x.edited = h[p].edited /\ x.lines = h[p].lines /\ x.before = h[p].before /\ x.data = h[p].data /\ x.id = id
      /\ x.advice = a /\ x.st = [h[p].st EXCEPT !.shown = @ \cup {a}]
  BY <1>3 DEF Whole, Names
<1>5. x.st.shown = h[p].st.shown \cup {a}
  <2>1. \A st \in AnyStates(Len(packets)) : [st EXCEPT !.shown = @ \cup {a}].shown = st.shown \cup {a}
    BY DEF AnyStates
  <2> HIDE DEF x
  <2> QED
    BY <1>3, <1>4, <2>1
<1> HIDE DEF x
<1>6. \A k \in Kinds : Due(k, x) => Due(k, h[p])
  BY <1>1, <1>4 DEF Due, Logs, Seeking, Seeks, Saves, Kinds
<1>7. HookFits(x)
  BY <1>2, <1>3, <1>4, <1>5 DEF HookFits, Knows, Logs, Saves, Places
<1>8. h' = [q \in Hooks |-> IF q = p THEN x ELSE h[q]] /\ calls \in Nat
  BY <1>1, CountsAre DEF TypesInv, BudgetInv
<1>9. \A k \in Kinds : Cardinality(Users(h', k)) <= Cardinality(Users(h, k))
  BY <1>6, <1>8, UsersAfter
<1>10. Room(x.seen, h', calls) /\ Room(x.copy, h', calls)
  <2>1. Room(h[p].seen, h, calls) /\ Room(h[p].copy, h, calls)
    BY DEF TypesInv, BudgetInv
  <2> QED
    BY <1>4, <1>8, <1>9, <2>1, CountsAre, FewerUsers
<1> DEFINE s == Cardinality(Users(h, "show"))
           t == Cardinality(Users(h', "show"))
           b == Cardinality(Users(h, "packet"))
           d == Cardinality(Users(h', "packet"))
<1>11. s \in Nat /\ t \in Nat /\ b \in Nat /\ d \in Nat
  BY UsersCount
<1>12. t <= s /\ d <= b
  <2>1. "packet" \in Kinds /\ "show" \in Kinds
    BY DEF Kinds
  <2> QED
    BY <1>9, <2>1
<1>13. id # None => t + 1 <= s
  <2>1. id # None => Due("show", h[p]) /\ ~Due("show", x)
    BY <1>1, <1>4 DEF Due, Logs, Seeking, Seeks, Saves
  <2> QED
    BY <1>8, <2>1, UsersAfter
<1>14. Len(packets) + b <= calls
  BY DEF TypesInv, BudgetInv
<1>15. /\ shows \in Seq(Nat) /\ Len(shows) = Len(packets)
       /\ \A j \in Stored : shows[j] \in Nat /\ shows[j] + s <= calls
  BY CountsAre DEF TypesInv, BudgetInv, Typed, FilesTyped
<1> HIDE DEF s, t, b, d
<1>16. Len(packets') + d <= calls
  BY <1>1, <1>2, <1>8, <1>11, <1>12, <1>14
<1>17. ASSUME NEW j \in Stored' PROVE shows'[j] + t <= calls
  <2>1. j \in Stored /\ j \in 1..Len(shows)
    BY <1>1, <1>15 DEF Stored
  <2>2. shows[j] \in Nat /\ shows[j] + s <= calls
    BY <1>15, <2>1
  <2>3. CASE j = id /\ id # None
    <3>1. shows'[j] = shows[j] + 1
      BY <1>1, <1>15, <2>1, <2>3
    <3> HIDE DEF id
    <3> QED
      BY <1>8, <1>11, <1>13, <2>2, <2>3, <3>1
  <2>4. CASE j # id \/ id = None
    <3>1. shows'[j] = shows[j]
      BY <1>1, <1>15, <2>1, <2>4
    <3> HIDE DEF id
    <3> QED
      BY <1>8, <1>11, <1>12, <2>2, <3>1
  <2> QED
    BY <2>3, <2>4
<1>18. \A j \in Stored' : packets'[j] = h[p].copy \/ (j \in Stored /\ packets'[j] = packets[j])
  BY <1>1 DEF Stored
<1>19. BudgetInv'
  BY <1>1, <1>6, <1>10, <1>16, <1>17, <1>18, BudgetStep DEF TypesInv, BudgetInv, t, d
<1> QED
  BY <1>7, <1>8, <1>19 DEF TypesInv

\* A hook that begins takes one of the calls.
LEMMA TypesBegin ==
  ASSUME TypesInv, Typed, Typed', NEW p \in Hooks, NEW s \in Sessions, NEW hook, Whole(hook),
         hook.pc \in Places \ {"write", "alias", "gate", "emit", "log", "cap", "fill", "tmp", "replace"},
         hook.task \in Tasks, hook.lines = {}, hook.seen = NoCopy, hook.copy = NoCopy, hook.edited \subseteq Advices,
         hook.data = {}, Begin(p, s, hook)
  PROVE  BudgetInv' /\ \A q \in Hooks : HookFits(h'[q])
<1> DEFINE x == [hook EXCEPT !.s = s, !.st = state[s], !.before = retired]
<1>1. /\ h' = [h EXCEPT ![p] = x] /\ UNCHANGED <<packets, shows, kills>> /\ calls' = calls + 1
      /\ calls + kills < MaxCalls
  BY DEF Begin, Become, files
<1>2. /\ x.pc = hook.pc /\ x.task = hook.task /\ x.seen = NoCopy /\ x.copy = NoCopy
      /\ x.edited = hook.edited /\ x.lines = {} /\ x.data = {} /\ x.st = state[s] /\ x.before = retired
  BY DEF Whole, Names
<1> HIDE DEF x
<1>3. h' = [q \in Hooks |-> IF q = p THEN x ELSE h[q]] /\ calls \in Nat /\ kills \in Nat
  <2>1. calls \in Nat /\ kills \in 0..MaxKills
    BY DEF TypesInv, BudgetInv
  <2>2. h' = [q \in Hooks |-> IF q = p THEN x ELSE h[q]]
    BY <1>1, CountsAre
  <2>3. kills \in Nat
    BY <2>1
  <2> QED
    BY <2>1, <2>2, <2>3
<1>4. MaxCalls \in Nat /\ Len(packets) \in Nat /\ Len(shows) = Len(packets)
  BY CountsAre, AdvisoryAssumption DEF AdvisoryAssumption
<1>5. \A k : Cardinality(Users(h', k)) \in Nat /\ Cardinality(Users(h, k)) \in Nat
  BY UsersCount
<1>6. \A k : Cardinality(Users(h', k)) <= Cardinality(Users(h, k)) + 1
  BY <1>3, UsersAfter
<1>7. \A n \in Nat : \A k : n + Cardinality(Users(h, k)) <= calls =>
        n + Cardinality(Users(h', k)) <= calls + 1
  <2> SUFFICES ASSUME NEW n \in Nat, NEW k, n + Cardinality(Users(h, k)) <= calls
               PROVE  n + Cardinality(Users(h', k)) <= calls + 1
    OBVIOUS
  <2>1. /\ Cardinality(Users(h', k)) \in Nat /\ Cardinality(Users(h, k)) \in Nat
        /\ Cardinality(Users(h', k)) <= Cardinality(Users(h, k)) + 1
    BY <1>5, <1>6
  <2> QED
    BY <1>3, <2>1
<1>8. ASSUME NEW k \in Kinds PROVE Cardinality(Users(h', k)) <= calls + 1
  <2>1. Cardinality(Users(h, k)) <= calls
    BY DEF TypesInv, BudgetInv
  <2>2. /\ Cardinality(Users(h', k)) \in Nat /\ Cardinality(Users(h, k)) \in Nat
        /\ Cardinality(Users(h', k)) <= Cardinality(Users(h, k)) + 1
    BY <1>5, <1>6
  <2> QED
    BY <1>3, <2>1, <2>2
<1>9. Len(packets) + Cardinality(Users(h', "packet")) <= calls + 1
  BY <1>4, <1>7 DEF TypesInv, BudgetInv
<1>10. \A id \in Stored : shows[id] + Cardinality(Users(h', "show")) <= calls + 1
  BY <1>7, CountsAre DEF TypesInv, BudgetInv
<1>11. ASSUME NEW c, c.emits \in Nat, c.outcomes \in Nat, Room(c, h, calls)
       PROVE  Room(c, h', calls + 1)
  BY <1>7, <1>11 DEF Room
<1>12. \A id \in Stored : Room(packets[id], h', calls + 1)
  BY <1>11, CountsAre DEF TypesInv, BudgetInv
<1>13. \A q \in Hooks : Room(h[q].seen, h', calls + 1) /\ Room(h[q].copy, h', calls + 1)
  BY <1>11, CountsAre DEF TypesInv, BudgetInv
<1>14. Room(NoCopy, h', calls + 1)
  <2>1. NoCopy.emits = 0 /\ NoCopy.outcomes = 0
    BY DEF NoCopy
  <2> QED
    BY <1>11, <2>1, EmptyRoom
<1>15. \A q \in Hooks : Room(h'[q].seen, h', calls + 1) /\ Room(h'[q].copy, h', calls + 1)
  BY <1>2, <1>3, <1>13, <1>14
<1>16. kills \in 0..MaxKills /\ (calls + 1) + kills <= MaxCalls /\ calls + 1 \in Nat
  BY <1>1, <1>3, <1>4 DEF TypesInv, BudgetInv
<1>17. BudgetInv'
  BY <1>1, <1>8, <1>9, <1>10, <1>12, <1>15, <1>16 DEF BudgetInv, Stored
<1>18. retired \subseteq Ids
  <2>1. Len(packets) <= MaxCalls
    <3>1. Len(packets) + Cardinality(Users(h, "packet")) <= calls /\ calls + kills <= MaxCalls
      BY DEF TypesInv, BudgetInv
    <3>2. Cardinality(Users(h, "packet")) \in Nat
      BY UsersCount
    <3> QED
      BY <1>3, <1>4, <3>1, <3>2
  <2> QED
    BY <1>4, <2>1 DEF Typed, FilesTyped, Stored, Ids
<1>19. HookFits(x)
  BY <1>2, <1>18 DEF HookFits, Knows, Logs, Saves, AtMostOne, TypesInv, FilesFit
<1> QED
  BY <1>3, <1>17, <1>19 DEF TypesInv

\* The files and the history.
LEMMA CachesFit ==
  ASSUME TypesInv, Typed, NEW p \in Hooks, NEW ix,
         \/ UNCHANGED cache
         \/ Keep(p, ix)
         \/ cache' = [cache EXCEPT ![p] = {}]
         \/ cache' = [cache EXCEPT ![p] = {ix}]
         \/ \A q \in Hooks : cache'[q] \subseteq {ix}
  PROVE  \A q \in Hooks : AtMostOne(cache'[q])
<1>1. \A q \in Hooks : AtMostOne(cache[q])
  BY DEF TypesInv, FilesFit
<1>2. cache = [q \in Hooks |-> cache[q]]
  BY DEF Typed, CachesTyped
<1>3. \A q \in Hooks : cache'[q] = cache[q] \/ cache'[q] \subseteq {ix}
  BY <1>2 DEF Keep
<1>4. \A S : S \subseteq {ix} => AtMostOne(S)
  BY DEF AtMostOne
<1> QED
  BY <1>1, <1>3, <1>4

LEMMA WorkCaches ==
  ASSUME TypesInv, Typed, NEW p \in Hooks, Work(p) \/ Kill(p)
  PROVE  \A q \in Hooks : AtMostOne(cache'[q])
<1>1. \/ UNCHANGED cache
      \/ \E ix : Keep(p, ix)
      \/ cache' = [cache EXCEPT ![p] = {}]
      \/ \E ix : cache' = [cache EXCEPT ![p] = {ix}]
      \/ \E ix : \A q \in Hooks : cache'[q] \subseteq {ix}
  <2>1. CASE \/ Tidy(p) \/ ReadPacket(p) \/ PacketUnread(p) \/ EmptyPacket(p) \/ WritePacket(p)
          \/ ChangeIndex(p) \/ WriteTmp(p)
    BY <2>1 DEF Tidy, ReadPacket, PacketUnread, EmptyPacket, WritePacket, ChangeIndex, WriteTmp
  <2>2. CASE ReplaceIndex(p)
    <3>1. \A q \in Hooks : cache'[q] \subseteq {h[p].ix}
      BY <2>2 DEF ReplaceIndex
    <3> QED
      BY <3>1
  <2>3. CASE ReplaceFails(p)
    BY <2>3 DEF ReplaceFails, Leave
  <2>4. CASE LookupExact(p) \/ LookupRelaxed(p) \/ Alias(p)
    BY <2>4 DEF LookupExact, LookupRelaxed, Alias
  <2>5. CASE \/ GateBlocks(p) \/ Dedupe(p) \/ RepeatBlocks(p) \/ Emit(p) \/ EmitFails(p)
          \/ LogAdvice(p) \/ EmptyLog(p) \/ FillLog(p)
    BY <2>5 DEF GateBlocks, Dedupe, RepeatBlocks, Emit, EmitFails, LogAdvice, EmptyLog, FillLog, Leave
  <2>6. CASE \/ SaveState(p) \/ FindEdited(p) \/ InvalidateNext(p) \/ PassOver(p)
          \/ AllInvalidated(p) \/ SavePrompt(p) \/ Kill(p)
    BY <2>6 DEF SaveState, FindEdited, InvalidateNext, PassOver, AllInvalidated, SavePrompt, Kill, Leave
  <2> QED
    BY <2>1, <2>2, <2>3, <2>4, <2>5, <2>6 DEF Work
<1> QED
  BY <1>1, CachesFit

LEMMA WorkFiles ==
  ASSUME TypesInv, Typed, NEW p \in Hooks, Work(p) \/ Kill(p), packets' \in Seq(RealPackets),
         torn' \subseteq Stored'
  PROVE  FilesFit'
<1>1. \A q \in Hooks : AtMostOne(cache'[q])
  BY WorkCaches
<1>2. /\ HookFits(h[p]) /\ AtMostOne(tmp) /\ log \subseteq Advices
      /\ state \in [Sessions -> AnyStates(Len(packets))]
      /\ \A s \in Sessions : state[s].shown \subseteq Advices
  BY DEF TypesInv, FilesFit, Typed, FilesTyped
<1>3. AtMostOne({}) /\ \A e : AtMostOne({e})
  BY DEF AtMostOne
<1>4. /\ UNCHANGED tmp \/ tmp' = {h[p].ix} \/ tmp' = {}
      /\ \/ UNCHANGED log
         \/ log' = log \cup {h[p].advice} /\ h[p].pc = "log"
         \/ log' \in {{}, h[p].lines}
      /\ UNCHANGED state \/ state' = [state EXCEPT ![h[p].s] = h[p].st]
  <2>1. CASE \/ Tidy(p) \/ ReadPacket(p) \/ PacketUnread(p) \/ EmptyPacket(p) \/ WritePacket(p)
          \/ ChangeIndex(p) \/ WriteTmp(p) \/ ReplaceIndex(p) \/ ReplaceFails(p)
    BY <2>1 DEF Tidy, ReadPacket, PacketUnread, EmptyPacket, WritePacket, ChangeIndex, WriteTmp,
       ReplaceIndex, ReplaceFails, files
  <2>2. CASE \/ LookupExact(p) \/ LookupRelaxed(p) \/ Alias(p) \/ GateBlocks(p) \/ Dedupe(p)
          \/ RepeatBlocks(p) \/ Emit(p) \/ EmitFails(p) \/ LogAdvice(p) \/ EmptyLog(p) \/ FillLog(p)
    BY <2>2 DEF LookupExact, LookupRelaxed, Alias, GateBlocks, Dedupe, RepeatBlocks, Emit,
       EmitFails, LogAdvice, EmptyLog, FillLog, files
  <2>3. CASE \/ SaveState(p) \/ FindEdited(p) \/ InvalidateNext(p) \/ PassOver(p)
          \/ AllInvalidated(p) \/ SavePrompt(p) \/ Kill(p)
    BY <2>3 DEF SaveState, FindEdited, InvalidateNext, PassOver, AllInvalidated, SavePrompt, Kill, files
  <2> QED
    BY <2>1, <2>2, <2>3 DEF Work
<1>5. AtMostOne(tmp')
  BY <1>2, <1>3, <1>4
<1>6. log' \subseteq Advices
  BY <1>2, <1>4 DEF HookFits, Knows, Logs
<1>7. \A s \in Sessions : state'[s].shown \subseteq Advices
  BY <1>2, <1>4 DEF HookFits
<1> QED
  BY <1>1, <1>5, <1>6, <1>7 DEF FilesFit

LEMMA WorkHistory ==
  ASSUME TypesInv, Typed, NEW p \in Hooks, Work(p) \/ Kill(p)
  PROVE  HistoryFits'
<1>1. HistoryFits /\ HookFits(h[p]) /\ (h[p].pc # "idle" => h[p].s \in Sessions)
  BY DEF TypesInv, Typed, HooksTyped, HookSound, Place
<1>2. CASE Emit(p)
  <2>1. h[p].advice \in Advices /\ h[p].pc = "emit"
    BY <1>1, <1>2 DEF HookFits, Knows, Emit
  <2>2. UNCHANGED <<logged, raced, clash, parallel, unsaved>>
    BY <1>2 DEF Emit
  <2>3. told' = [told EXCEPT ![h[p].s] = @ \cup {h[p].advice}]
    BY <1>2 DEF Emit
  <2>4. told' \in [Sessions -> SUBSET Advices]
    BY <1>1, <2>1, <2>3 DEF HistoryFits
  <2>5. repeated' \subseteq Advices
    BY <1>1, <1>2, <2>1 DEF Emit, HistoryFits
  <2>6. stale' \in BOOLEAN
    BY <1>1, <1>2 DEF Emit, HistoryFits
  <2> QED
    BY <1>1, <2>2, <2>4, <2>5, <2>6 DEF HistoryFits
<1>3. CASE Dedupe(p) \/ Kill(p)
  <2>1. UNCHANGED <<told, logged, repeated, stale, clash, parallel, unsaved>>
    BY <1>3 DEF Dedupe, Kill
  <2>2. raced' \subseteq raced \cup {h[p].advice} /\ (raced' = raced \/ h[p].pc \in {"gate", "log"})
    BY <1>3 DEF Dedupe, Kill
  <2>3. raced' \subseteq Advices
    BY <1>1, <2>2 DEF HookFits, Knows, Logs, HistoryFits
  <2> QED
    BY <1>1, <2>1, <2>3 DEF HistoryFits
<1>4. CASE ReplaceFails(p)
  <2>1. UNCHANGED <<told, logged, repeated, raced, stale, parallel>> /\ clash' = TRUE /\ h[p].pc = "replace"
    BY <1>4 DEF ReplaceFails
  <2>2. unsaved' \subseteq unsaved \cup {h[p].s}
    BY <1>4 DEF ReplaceFails
  <2> QED
    BY <1>1, <2>1, <2>2 DEF HistoryFits
<1>5. CASE WritePacket(p) \/ ChangeIndex(p) \/ ReplaceIndex(p) \/ FindEdited(p) \/ PassOver(p)
  <2>1. UNCHANGED <<told, logged, repeated, raced, stale, parallel, unsaved>> /\ clash' \in BOOLEAN
    BY <1>1, <1>5 DEF WritePacket, ChangeIndex, ReplaceIndex, FindEdited, PassOver, HistoryFits
  <2> QED
    BY <1>1, <2>1 DEF HistoryFits
<1>6. CASE LogAdvice(p)
  <2>1. UNCHANGED <<told, repeated, raced, stale, clash, parallel, unsaved>>
    BY <1>6 DEF LogAdvice
  <2>2. logged' = logged \cup {h[p].advice} /\ h[p].pc = "log"
    BY <1>6 DEF LogAdvice
  <2>3. logged' \subseteq Advices
    BY <1>1, <2>2 DEF HookFits, Knows, Logs, HistoryFits
  <2> QED
    BY <1>1, <2>1, <2>3 DEF HistoryFits
<1>7. CASE UNCHANGED <<told, logged, repeated, raced, stale, clash, parallel, unsaved>>
  BY <1>1, <1>7 DEF HistoryFits
<1>8. \/ Emit(p) \/ Dedupe(p) \/ Kill(p) \/ ReplaceFails(p) \/ WritePacket(p) \/ ChangeIndex(p)
      \/ ReplaceIndex(p) \/ FindEdited(p) \/ PassOver(p) \/ LogAdvice(p)
      \/ UNCHANGED <<told, logged, repeated, raced, stale, clash, parallel, unsaved>>
  BY DEF Work, Tidy, ReadPacket, PacketUnread, EmptyPacket, WriteTmp, LookupExact, LookupRelaxed,
     Alias, GateBlocks, RepeatBlocks, EmitFails, EmptyLog, FillLog, SaveState, InvalidateNext,
     AllInvalidated, SavePrompt, history
<1> QED
  BY <1>2, <1>3, <1>4, <1>5, <1>6, <1>7, <1>8

\* The beginnings: on_pre_tool, on_post_tool and on_user_prompt.
LEMMA StartTypes ==
  ASSUME TypesInv, Typed, Typed', NEW p \in Hooks, NEW s \in Sessions, NEW hook, Whole(hook),
         hook.pc \in Places \ {"write", "alias", "gate", "emit", "log", "cap", "fill", "tmp", "replace"},
         hook.task \in Tasks, hook.lines = {}, hook.seen = NoCopy, hook.copy = NoCopy, hook.edited \subseteq Advices,
         hook.data = {}, Begin(p, s, hook)
  PROVE  TypesInv'
<1>1. BudgetInv' /\ \A q \in Hooks : HookFits(h'[q])
  BY TypesBegin
<1>2. FilesFit'
  BY DEF Begin, files, TypesInv, FilesFit, Stored
<1>3. parallel' \subseteq Sessions /\ UNCHANGED <<told, logged, repeated, raced, stale, clash, unsaved>>
  BY DEF Begin, TypesInv, HistoryFits
<1>4. HistoryFits'
  BY <1>3 DEF TypesInv, HistoryFits
<1> QED
  BY <1>1, <1>2, <1>4 DEF TypesInv

LEMMA StartsTypes ==
  ASSUME TypesInv, Typed, Typed', NEW p \in Hooks, NEW s \in Sessions,
         \/ \E t \in Tools : PreTool(p, s, t) \/ \E edited \in Edits(t) : PostTool(p, s, t, edited)
         \/ Prompt(p, s)
  PROVE  TypesInv'
<1>1. /\ Whole(Idle) /\ Idle.seen = NoCopy /\ Idle.copy = NoCopy /\ Idle.edited = {} /\ Idle.data = {}
      /\ Idle.lines = {}
      /\ Idle.task = "none"
  BY DEF Idle, Whole, Names
<1>2. ASSUME NEW t \in Tools, PreTool(p, s, t) PROVE TypesInv'
  <2> DEFINE x == [Idle EXCEPT !.pc = "exact", !.t = t]
  <2>1. Begin(p, s, x)
    BY <1>2 DEF PreTool
  <2> HIDE DEF Idle
  <2>2. /\ Whole(x) /\ x.pc = "exact" /\ x.task = "none" /\ x.seen = NoCopy /\ x.copy = NoCopy
        /\ x.edited = {} /\ x.data = {} /\ x.lines = {}
    BY <1>1 DEF Whole, Names
  <2> HIDE DEF x
  <2> QED
    BY <2>1, <2>2, StartTypes DEF Places, Tasks
<1>3. ASSUME NEW t \in Tools, NEW edited \in Edits(t), PostTool(p, s, t, edited) PROVE TypesInv'
  <2>1. edited \subseteq Advices
    BY <1>3 DEF Edits
  <2> DEFINE on == state[s].last # None /\ state[s].tool = t
             pc == IF on THEN "read" ELSE "edit"
             task == IF on THEN "outcome" ELSE "none"
             id == IF on THEN state[s].last ELSE None
             x == [Idle EXCEPT !.t = t, !.edited = edited, !.pc = pc, !.id = id, !.task = task]
  <2>2. Begin(p, s, x)
    BY <1>3 DEF PostTool
  <2>3. pc \in {"read", "edit"} /\ task \in {"outcome", "none"}
    OBVIOUS
  <2> HIDE DEF pc, task, id, Idle
  <2>4. /\ Whole(x) /\ x.pc = pc /\ x.task = task /\ x.seen = NoCopy /\ x.copy = NoCopy
        /\ x.edited = edited /\ x.data = {} /\ x.lines = {}
    BY <1>1 DEF Whole, Names
  <2> HIDE DEF x
  <2> QED
    BY <2>1, <2>2, <2>3, <2>4, StartTypes DEF Places, Tasks
<1>4. ASSUME Prompt(p, s) PROVE TypesInv'
  <2> DEFINE x == [Idle EXCEPT !.pc = "prompt", !.t = "*"]
  <2>1. Begin(p, s, x)
    BY <1>4 DEF Prompt
  <2>2. /\ Whole(x) /\ x.pc = "prompt" /\ x.task = "none" /\ x.seen = NoCopy /\ x.copy = NoCopy
        /\ x.edited = {} /\ x.data = {} /\ x.lines = {}
    BY <1>1 DEF Whole, Names
  <2> HIDE DEF x
  <2> QED
    BY <2>1, <2>2, StartTypes DEF Places, Tasks
<1> QED
  BY <1>2, <1>3, <1>4

LEMMA TypesInit == Init => TypesInv
<1> SUFFICES ASSUME Init PROVE TypesInv
  OBVIOUS
<1>1. /\ packets = <<>> /\ torn = {} /\ tmp = {} /\ log = {} /\ logged = {} /\ calls = 0 /\ kills = 0 /\ shows = <<>>
      /\ state = [s \in Sessions |-> NewState] /\ h = [p \in Hooks |-> Idle]
      /\ cache = [p \in Hooks |-> {}] /\ told = [s \in Sessions |-> {}] /\ repeated = {} /\ raced = {}
      /\ stale = FALSE /\ clash = FALSE /\ parallel = {} /\ unsaved = {}
  BY DEF Init
<1>2. MaxCalls \in Nat /\ MaxKills \in Nat
  BY AdvisoryAssumption DEF AdvisoryAssumption
<1>3. \A k : Users(h, k) = {}
  BY <1>1 DEF Users, Due, Logs, Seeking, Seeks, Saves, Idle
<1>4. \A k : Cardinality(Users(h, k)) = 0
  BY <1>3, FS_EmptySet
<1>5. Stored = {}
  BY <1>1 DEF Stored
<1>6. Room(NoCopy, h, 0)
  BY <1>4 DEF Room, NoCopy
<1>7. BudgetInv
  <2>1. \A p \in Hooks : h[p].seen = NoCopy /\ h[p].copy = NoCopy
    BY <1>1 DEF Idle
  <2>2. Len(packets) + Cardinality(Users(h, "packet")) <= calls
    BY <1>1, <1>4
  <2>3. kills \in 0..MaxKills /\ calls \in Nat /\ calls + kills <= MaxCalls
    BY <1>1, <1>2
  <2>4. \A k \in Kinds : Cardinality(Users(h, k)) <= calls
    BY <1>1, <1>4
  <2> QED
    BY <1>1, <1>5, <1>6, <2>1, <2>2, <2>3, <2>4 DEF BudgetInv
<1>8. \A p \in Hooks : HookFits(h[p])
  BY <1>1 DEF HookFits, Idle, NewState, Places, Tasks, Knows, Logs, Saves, AtMostOne
<1>9. FilesFit
  BY <1>1 DEF FilesFit, AtMostOne, NewState
<1>10. HistoryFits
  BY <1>1 DEF HistoryFits
<1> QED
  BY <1>7, <1>8, <1>9, <1>10 DEF TypesInv

LEMMA TypesNext == TypesInv /\ Typed /\ [Next]_vars => TypesInv'
<1> SUFFICES ASSUME TypesInv, Typed, [Next]_vars PROVE TypesInv'
  OBVIOUS
<1>0. Typed'
  BY TypedNext
<1>1. CASE UNCHANGED vars
  BY <1>1 DEF vars, files, history, TypesInv, BudgetInv, FilesFit, HistoryFits, Stored
<1>2. ASSUME NEW p \in Hooks, Work(p) \/ Kill(p) PROVE TypesInv'
  <2>1. CASE WritePacket(p)
    BY <1>0, <1>2, <2>1, TypesWrite, WorkFiles, WorkHistory DEF TypesInv
  <2>2. CASE EmptyPacket(p)
    <3>1. UNCHANGED <<packets, shows, h, calls, kills>>
      BY <2>2 DEF EmptyPacket, history
    <3>2. h[p].id \in Stored
      <4>1. /\ h[p].task \in Changes /\ h[p].id # None /\ h[p].id \in 0..Len(packets)
            /\ Len(packets) \in Nat
        BY <2>2, HookTyped DEF EmptyPacket, HookSound, Fields, Place, Changes, News
      <4> QED
        BY <4>1 DEF Stored, None
    <3>3. torn' = torn \cup {h[p].id} /\ torn \subseteq Stored /\ packets \in Seq(RealPackets)
      BY <2>2 DEF EmptyPacket, TypesInv, FilesFit
    <3>4. packets' \in Seq(RealPackets) /\ torn' \subseteq Stored'
      BY <3>1, <3>2, <3>3 DEF Stored
    <3>5. FilesFit' /\ HistoryFits'
      BY <1>2, <3>4, WorkFiles, WorkHistory
    <3>6. BudgetInv' /\ \A q \in Hooks : HookFits(h'[q])
      BY <3>1 DEF TypesInv, BudgetInv, Stored
    <3> QED
      BY <3>5, <3>6 DEF TypesInv
  <2>3. CASE ~WritePacket(p) /\ ~EmptyPacket(p)
    <3>1. UNCHANGED <<packets, torn>>
      <4>1. CASE \/ Tidy(p) \/ ReadPacket(p) \/ PacketUnread(p) \/ ChangeIndex(p) \/ WriteTmp(p)
              \/ ReplaceIndex(p) \/ ReplaceFails(p) \/ LookupExact(p) \/ LookupRelaxed(p) \/ Alias(p)
        BY <4>1 DEF Tidy, ReadPacket, PacketUnread, ChangeIndex, WriteTmp, ReplaceIndex,
           ReplaceFails, LookupExact, LookupRelaxed, Alias, files
      <4>2. CASE \/ GateBlocks(p) \/ Dedupe(p) \/ RepeatBlocks(p) \/ Emit(p) \/ EmitFails(p)
              \/ LogAdvice(p) \/ EmptyLog(p) \/ FillLog(p)
        BY <4>2 DEF GateBlocks, Dedupe, RepeatBlocks, Emit, EmitFails, LogAdvice, EmptyLog,
           FillLog, files
      <4>3. CASE \/ SaveState(p) \/ FindEdited(p) \/ InvalidateNext(p) \/ PassOver(p)
              \/ AllInvalidated(p) \/ SavePrompt(p) \/ Kill(p)
        BY <4>3 DEF SaveState, FindEdited, InvalidateNext, PassOver, AllInvalidated, SavePrompt,
           Kill, files
      <4> QED
        BY <1>2, <2>3, <4>1, <4>2, <4>3 DEF Work
    <3>2. FilesFit' /\ HistoryFits'
      <4>1. packets' \in Seq(RealPackets) /\ torn' \subseteq Stored'
        BY <3>1 DEF TypesInv, FilesFit, Stored
      <4> QED
        BY <1>2, <4>1, WorkFiles, WorkHistory
    <3>3. CASE ReadPacket(p) \/ Emit(p)
      BY <1>0, <3>2, <3>3, TypesRead, TypesEmit DEF TypesInv
    <3>4. CASE ~ReadPacket(p) /\ ~Emit(p)
      <4>1. UNCHANGED <<shows, calls>> /\ (UNCHANGED kills \/ Kill(p))
        <5>1. CASE \/ Tidy(p) \/ PacketUnread(p) \/ ChangeIndex(p) \/ WriteTmp(p)
                \/ ReplaceIndex(p) \/ ReplaceFails(p) \/ LookupExact(p) \/ LookupRelaxed(p) \/ Alias(p)
          BY <5>1 DEF Tidy, PacketUnread, ChangeIndex, WriteTmp, ReplaceIndex, ReplaceFails,
             LookupExact, LookupRelaxed, Alias, history
        <5>2. CASE \/ GateBlocks(p) \/ Dedupe(p) \/ RepeatBlocks(p) \/ EmitFails(p) \/ LogAdvice(p)
                \/ EmptyLog(p) \/ FillLog(p)
          BY <5>2 DEF GateBlocks, Dedupe, RepeatBlocks, EmitFails, LogAdvice, EmptyLog, FillLog,
             history
        <5>3. CASE \/ SaveState(p) \/ FindEdited(p) \/ InvalidateNext(p) \/ PassOver(p)
                \/ AllInvalidated(p) \/ SavePrompt(p) \/ Kill(p)
          BY <5>3 DEF SaveState, FindEdited, InvalidateNext, PassOver, AllInvalidated, SavePrompt,
             Kill, history
        <5> QED
          BY <1>2, <2>3, <3>4, <5>1, <5>2, <5>3 DEF Work
      <4>2. kills' \in 0..MaxKills /\ calls + kills' <= MaxCalls
        <5>1. /\ calls \in Nat /\ kills \in 0..MaxKills /\ calls + kills <= MaxCalls
              /\ MaxKills \in Nat /\ MaxCalls \in Nat
          BY AdvisoryAssumption DEF AdvisoryAssumption, TypesInv, BudgetInv
        <5>2. CASE Kill(p)
          <6>1. kills' = kills + 1 /\ kills < MaxKills /\ calls + kills < MaxCalls
            BY <5>2 DEF Kill
          <6> QED
            BY <5>1, <6>1
        <5> QED
          BY <4>1, <5>1, <5>2
      <4>3. AllowedMove(p)
        <5>1. CASE SaveState(p) \/ Kill(p)
          BY <5>1, AllowedLeave DEF SaveState, Kill
        <5> QED
          BY <1>2, <2>3, <3>4, <5>1, AllowedTidy, AllowedChange, AllowedReplace, AllowedUnread,
             AllowedExact, AllowedRelaxed, AllowedAlias, AllowedGate, AllowedShown, AllowedPrompt,
             AllowedEdit, AllowedInvalidate DEF Work
      <4> QED
        BY <1>0, <3>1, <3>2, <4>1, <4>2, <4>3, AllowedBudget DEF TypesInv
    <3> QED
      BY <3>3, <3>4
  <2> QED
    BY <2>1, <2>2, <2>3
<1>3. ASSUME NEW p \in Hooks, NEW s \in Sessions,
             \/ \E t \in Tools : PreTool(p, s, t) \/ \E edited \in Edits(t) : PostTool(p, s, t, edited)
             \/ Prompt(p, s)
      PROVE  TypesInv'
  BY <1>0, <1>3, StartsTypes
<1> QED
  BY <1>1, <1>2, <1>3 DEF Next

\* Memory and files keep their types, and the packets, their showings and
\* their counts stay within the calls a run may make, whoever overwrites whom.
THEOREM TypesHold == Spec => []TypeOK
<1>1. Init => Typed /\ TypesInv
  BY TypedInit, TypesInit
<1>2. Typed /\ TypesInv /\ [Next]_vars => (Typed /\ TypesInv)'
  BY TypedNext, TypesNext
<1>3. Typed /\ TypesInv => TypeOK
  BY TypesImply
<1> QED
  BY <1>1, <1>2, <1>3, PTL DEF Spec
=============================================================================
