-------------------------------- MODULE Recall --------------------------------
(***************************************************************************)
(* What falda_recall and POST /recall do: assembleContext of               *)
(* src/distill/context.ts fills a character budget from four tiers, the    *)
(* trace of what was admitted is filed (src/recall/traces.ts), and later   *)
(* requests report on its items, look at it again and count them           *)
(* (usage.ts, reconstruct.ts, metrics.ts) until the worker prunes it.      *)
(*                                                                         *)
(*  - A recall reads the memory three times: the pinned atoms when it      *)
(*    starts, the ranked atoms once the query is embedded, the scenes and  *)
(*    the core once it is embedded again.  Whatever changes at these       *)
(*    awaits is a step of the memory.                                      *)
(*  - Text is its length.  An atom's content never changes                 *)
(*    (AtomImmutabilityError), nor, here, the length of a scene's text.    *)
(*  - The memory and the traces are those of one store: to a caller of     *)
(*    another one a trace that is not its own is a trace that is missing.  *)
(***************************************************************************)
EXTENDS Integers, FiniteSets, FiniteSetsExt, Sequences, SequencesExt, Functions

CONSTANTS
  Atoms, Topics, Episodes,   \* ids of atoms and of the two kinds of scenes
  Length(_),                 \* the length of an atom's content or a scene's text
  Ends,                      \* how atoms may go out of service
  CoreLengths,               \* the lengths a synthesized core may have
  Asked,                     \* budgets that callers ask for
  DefaultBudget, AutoBudget, MaxBudget, MinBudget,
  AtomItemCap, SceneItemCap,
  PinnedPercent, AtomsPercent, ScenesPercent,
  MinAtomLimit, MinSceneLimit, CoreFloor,
  RetentionDays,
  MaxRecalls, MaxWrites, MaxDays,  \* bounds of the model
  MaxReports, MaxReported          \* bounds: reports, and the items a list names

Scenes == Topics \cup Episodes

ASSUME RecallAssumption ==
  /\ IsFiniteSet(Atoms) /\ IsFiniteSet(Topics) /\ IsFiniteSet(Episodes)
  /\ Topics \cap Episodes = {} /\ Atoms \cap Scenes = {}
  /\ \A x \in Atoms \cup Scenes : Length(x) \in Nat
  /\ Ends \subseteq {"absent", "superseded", "merged", "archived"}
  /\ CoreLengths \subseteq Nat \ {0}
  /\ Asked \subseteq Nat
  /\ {DefaultBudget, AutoBudget, MaxBudget, MinBudget} \subseteq Nat
  /\ {AtomItemCap, SceneItemCap} \subseteq Nat
  /\ {PinnedPercent, AtomsPercent, ScenesPercent} \subseteq Nat
  /\ PinnedPercent + AtomsPercent + ScenesPercent <= 100
  /\ {MinAtomLimit, MinSceneLimit, CoreFloor} \subseteq Nat
  /\ RetentionDays \in Int
  /\ {MaxRecalls, MaxWrites, MaxDays, MaxReports, MaxReported} \subseteq Nat
  /\ MaxRecalls > 0

VARIABLES
  status, pinned,   \* of atoms; "absent" if there is no row
  scene,            \* the status of scenes; "absent" if there is no row
  core,             \* the length of core.md, 0 if there is none
  req,              \* the recall in flight, or the last one
  traces,           \* recall_traces with their recall_trace_items
  recalls,          \* recalls so far: the id of a trace is its number
  day,              \* what new Date() says
  writes,           \* changes of the memory so far
  reports           \* reports that changed a trace so far

memoryVars == <<status, pinned, scene, core, writes>>
vars == <<status, pinned, scene, core, req, traces, recalls, day, writes, reports>>

AtomStatus == {"absent", "active", "superseded", "merged", "archived"}
SceneStatus == {"absent", "active", "retired"}
Usage == {"unknown", "used", "unused"}

\* There is one core, and its id is its name.
Refs == {<<"T1", a>> : a \in Atoms} \cup {<<"T2", s>> : s \in Scenes}
          \cup {<<"T3", "core">>}

Item == [ref : Refs, source : {"pinned", "ranked", "scene", "core"}, chars : Nat]
TraceItem == [ref : Refs, source : {"pinned", "ranked", "scene", "core"},
              usage : Usage]

Live == {a \in Atoms : status[a] = "active"}
LiveScenes == {s \in Scenes : scene[s] = "active"}

----------------------------------------------------------------------------
(* The budget.                                                             *)

AtMost(m, n) == IF m <= n THEN m ELSE n
AtLeast(m, n) == IF m >= n THEN m ELSE n
Ceil(n, d) == (n + d - 1) \div d

\* truncate.  slice(0, limit - 3) counts from the end when limit is below 3, and
\* the text is then longer than the limit.
Truncated(len, limit) ==
  IF len <= limit THEN len
  ELSE IF limit >= 3 THEN limit ELSE AtLeast(len - (3 - limit), 0) + 3

\* The budget of a request, which names one or leaves it to its mode, explicit or
\* auto: MCP refuses one outside its range, HTTP cuts one above it.  HTTP checks
\* nothing else: what is not a natural number there is no member of Asked.
Defaults == {DefaultBudget, AutoBudget}
McpBudgets == Defaults \cup {n \in Asked : MinBudget <= n /\ n <= MaxBudget}
HttpBudgets == {AtMost(n, MaxBudget) : n \in Asked \cup Defaults}

\* norm and the allowances: what is lost by rounding goes to the core.
Share(budget, percent) == (budget * percent) \div 100
PinnedShare(budget) == Share(budget, PinnedPercent)
AtomsShare(budget) == Share(budget, AtomsPercent)
ScenesShare(budget) == Share(budget, ScenesPercent)
CoreShare(budget) ==
  budget - PinnedShare(budget) - AtomsShare(budget) - ScenesShare(budget)

AtomLimit(cap) == AtLeast(MinAtomLimit, Ceil(3 * cap, 200))
SceneLimit(cap) == AtLeast(MinSceneLimit, Ceil(3 * cap, 600))

\* The characters of the items from these sources.
Chars(items, sources) ==
  LET sum[n \in 0..Len(items)] ==
        IF n = 0 THEN 0
        ELSE sum[n - 1] + (IF items[n].source \in sources THEN items[n].chars ELSE 0)
  IN sum[Len(items)]

----------------------------------------------------------------------------
(* Admission.  acc holds what a tier has used, the items, and whether one  *)
(* was left out.                                                           *)

Admitted(acc, tier, source, id, chars) ==
  [acc EXCEPT !.used = @ + chars,
              !.items = Append(@, [ref |-> <<tier, id>>, source |-> source,
                                   chars |-> chars])]

Empty(items) == [used |-> 0, items |-> items, full |-> FALSE]

\* The pinned tier ends at the first atom that does not fit.
Pin(acc, cap, a) ==
  LET t == Truncated(Length(a), AtomItemCap)
  IN IF acc.full THEN acc
     ELSE IF acc.used + t > cap THEN [acc EXCEPT !.full = TRUE]
     ELSE Admitted(acc, "T1", "pinned", a, t)

AdmitPinned(cap, atoms) ==
  LET tier[n \in 0..Len(atoms)] ==
        IF n = 0 THEN Empty(<<>>) ELSE Pin(tier[n - 1], cap, atoms[n])
  IN tier[Len(atoms)]

\* Mutant: the other tiers end at the first item that does not fit, too.
RankThenBreak(acc, tier, source, itemCap, cap, x) ==
  LET t == Truncated(Length(x), itemCap)
  IN IF acc.full \/ acc.used + t > cap THEN [acc EXCEPT !.full = TRUE]
     ELSE Admitted(acc, tier, source, x, t)

\* The other two go on to the items behind it.
Rank(acc, tier, source, itemCap, cap, x) ==
  LET t == Truncated(Length(x), itemCap)
  IN IF acc.used + t > cap THEN [acc EXCEPT !.full = TRUE]
     ELSE Admitted(acc, tier, source, x, t)

AdmitRanked(tier, source, itemCap, cap, items, ids, passed) ==
  LET acc[n \in 0..Len(ids)] ==
        IF n = 0 THEN Empty(items)
        ELSE IF ids[n] \in passed THEN acc[n - 1]
        ELSE Rank(acc[n - 1], tier, source, itemCap, cap, ids[n])
  IN acc[Len(ids)]

\* hybridAtoms and hybridScenes: the indexes keep the rows out of service, which
\* are dropped only after the best `limit' were taken; the rest in any order.
Hits(rows, live, limit) ==
  UNION {SetToSeqs(top \cap live) : top \in kSubset(AtMost(limit, Cardinality(rows)), rows)}

----------------------------------------------------------------------------
(* A recall.                                                               *)

Idle == [phase |-> "idle", budget |-> 0, first |-> {},
         found |-> {}, scenes |-> {}, core |-> 0, items |-> <<>>,
         truncated |-> FALSE, id |-> 0]

\* resolveTopicQuery, which only asks for a query: it needs an active topic.
TopicMatches == \E s \in Topics : scene[s] = "active"

\* The pinned atoms in the order in which SQLite gives them; then the query is
\* embedded.
Start(budget, order) ==
  LET tier == AdmitPinned(PinnedShare(budget), order)
  IN /\ req.phase \in {"idle", "done"}
     /\ recalls < MaxRecalls
     /\ recalls' = recalls + 1
     /\ req' = [Idle EXCEPT !.phase = "embed_atoms", !.budget = budget,
                            !.first = ToSet(order),
                            !.items = tier.items, !.truncated = tier.full,
                            !.id = recalls']
     /\ UNCHANGED <<memoryVars, traces, day, reports>>

PinnedOrders == SetToSeqs({a \in Live : pinned[a]})

McpRecall ==
  \E budget \in McpBudgets, order \in PinnedOrders : Start(budget, order)

HttpRecall ==
  \E budget \in HttpBudgets, order \in PinnedOrders : Start(budget, order)

TopicRecall ==
  /\ TopicMatches
  /\ \E budget \in HttpBudgets, order \in PinnedOrders : Start(budget, order)

AtomsCap == PinnedShare(req.budget) + AtomsShare(req.budget)
              - Chars(req.items, {"pinned"})

\* Mutant: pinned atoms are passed over by the mark they bear now.
PassedNow == {a \in Atoms : pinned[a]}

\* Pinned atoms are passed over by the ids of the first read.
Passed == req.first

RankAtoms(hits) ==
  LET tier == AdmitRanked("T1", "ranked", AtomItemCap, AtomsCap, req.items, hits, Passed)
  IN /\ req.phase = "embed_atoms"
     /\ req' = [req EXCEPT !.phase = "embed_scenes", !.items = tier.items,
                           !.found = ToSet(hits),
                           !.truncated = @ \/ tier.full]
     /\ UNCHANGED <<memoryVars, traces, recalls, day, reports>>

SearchAtoms ==
  \E hits \in Hits({a \in Atoms : status[a] # "absent"}, Live, AtomLimit(AtomsCap)) :
    RankAtoms(hits)

ScenesCap == PinnedShare(req.budget) + AtomsShare(req.budget)
               + ScenesShare(req.budget) - Chars(req.items, {"pinned", "ranked"})

\* What is left for the core, when the scenes have been admitted to items.
CoreCap(items) == req.budget - Chars(items, {"pinned", "ranked", "scene"})

WithCore(items) ==
  IF core > 0 /\ CoreCap(items) > CoreFloor
  THEN Append(items, [ref |-> <<"T3", "core">>, source |-> "core",
                      chars |-> Truncated(core, CoreCap(items))])
  ELSE items

CoreIsCut(items) ==
  core > 0 /\ ~(CoreCap(items) > CoreFloor /\ Truncated(core, CoreCap(items)) >= core)

\* Mutant: the items are inserted without a value for usage.
TraceUnset(r) ==
  [day |-> day,
   items |-> [i \in DOMAIN r.items |->
                [ref |-> r.items[i].ref, source |-> r.items[i].source,
                 usage |-> "null"]]]

\* createRecallTrace: a row and its items, in one transaction.
Trace(r) ==
  [day |-> day,
   items |-> [i \in DOMAIN r.items |->
                [ref |-> r.items[i].ref, source |-> r.items[i].source,
                 usage |-> "unknown"]]]

\* The rest of the recall runs without an await.  It is answered, with an id if
\* the trace could be written.
Finish(hits) ==
  LET tier == AdmitRanked("T2", "scene", SceneItemCap, ScenesCap, req.items, hits, {})
      answer == [req EXCEPT !.phase = "done", !.items = WithCore(tier.items),
                            !.scenes = ToSet(hits), !.core = core,
                            !.truncated = @ \/ tier.full \/ CoreIsCut(tier.items)]
  IN /\ req.phase = "embed_scenes"
     /\ \/ /\ traces' = [r \in DOMAIN traces \cup {req.id} |->
                           IF r = req.id THEN Trace(answer) ELSE traces[r]]
           /\ req' = answer
        \/ /\ req' = [answer EXCEPT !.id = 0]
           /\ UNCHANGED traces
     /\ UNCHANGED <<memoryVars, recalls, day, reports>>

SearchScenes ==
  \E hits \in Hits({s \in Scenes : scene[s] # "absent"}, LiveScenes, SceneLimit(ScenesCap)) :
    Finish(hits)

\* The embedder fails, or the server dies: no answer, and no trace.
RecallFails ==
  /\ req.phase \in {"embed_atoms", "embed_scenes"}
  /\ req' = Idle
  /\ UNCHANGED <<memoryVars, traces, recalls, day, reports>>

----------------------------------------------------------------------------
(* What is done with a trace.                                              *)

\* reportRecallUsage.  A report that names an item the trace has not, an item
\* twice over, or the opposite of what was reported, changes nothing at all.
Usages(t, ref) == {t.items[i].usage : i \in {j \in DOMAIN t.items : t.items[j].ref = ref}}

\* Mutant: a report overwrites an earlier one.
NoConflicts(t, used, unused) == FALSE

Conflicts(t, used, unused) ==
  \/ \E ref \in used : "unused" \in Usages(t, ref)
  \/ \E ref \in unused : "used" \in Usages(t, ref)

Reported(t, used, unused) ==
  [t EXCEPT !.items =
     [i \in DOMAIN t.items |->
        [t.items[i] EXCEPT !.usage = IF t.items[i].ref \in used THEN "used"
                                     ELSE IF t.items[i].ref \in unused THEN "unused"
                                     ELSE @]]]

Lists == {refs \in SUBSET Refs : Cardinality(refs) <= MaxReported}

ReportUsage(r, used, unused) ==
  /\ r \in DOMAIN traces
  /\ \A ref \in used \cup unused : Usages(traces[r], ref) # {}
  /\ used \cap unused = {}
  /\ ~Conflicts(traces[r], used, unused)
  /\ reports < MaxReports
  /\ reports' = reports + 1
  /\ traces' = [traces EXCEPT ![r] = Reported(@, used, unused)]
  /\ UNCHANGED <<memoryVars, req, recalls, day>>

\* pruneRecallTraces, on a timer of the worker; a retention of 0 keeps all.
Expired == {r \in DOMAIN traces : traces[r].day < day - RetentionDays}

PruneTraces ==
  /\ RetentionDays > 0
  /\ traces' = Restrict(traces, DOMAIN traces \ Expired)
  /\ UNCHANGED <<memoryVars, req, recalls, day, reports>>

\* Mutant: a row that is there is in service.
InServiceByRow(ref) ==
  CASE ref[1] = "T1" -> status[ref[2]] # "absent"
    [] ref[1] = "T2" -> scene[ref[2]] # "absent"
    [] OTHER -> core > 0

\* reconstructRecallTrace, item by item: what is in service is shown, the rest is
\* marked stale.  A core is shown whether or not it is the one of the recall.
InService(ref) ==
  CASE ref[1] = "T1" -> ref[2] \in Live
    [] ref[1] = "T2" -> ref[2] \in LiveScenes
    [] OTHER -> core > 0

StaleReason(ref) ==
  CASE ref[1] = "T1" -> IF status[ref[2]] = "absent" THEN "not_found" ELSE status[ref[2]]
    [] ref[1] = "T2" -> IF scene[ref[2]] = "absent" THEN "not_found" ELSE "retired"
    [] OTHER -> "deleted"

Look(seen, ref) ==
  IF InService(ref) THEN [seen EXCEPT !.shown = Append(@, ref)]
  ELSE [seen EXCEPT !.stale = Append(@, [ref |-> ref, reason |-> StaleReason(ref)])]

Reconstructed(items) ==
  LET seen[n \in 0..Len(items)] ==
        IF n = 0 THEN [shown |-> <<>>, stale |-> <<>>] ELSE Look(seen[n - 1], items[n].ref)
  IN seen[Len(items)]

\* computeRecallMetrics counts rows of the join of items and traces.
ItemRows == UNION {{r} \X DOMAIN traces[r].items : r \in DOMAIN traces}
ItemOf(p) == traces[p[1]].items[p[2]]

UsageRate(rows) ==
  [u \in Usage |-> Cardinality({p \in rows : ItemOf(p).usage = u})]

Metrics ==
  [item_count |-> Cardinality(ItemRows),
   by_tier |-> [k \in {"T1", "T2", "T3"} |->
                  UsageRate({p \in ItemRows : ItemOf(p).ref[1] = k})],
   by_source |-> [k \in {"pinned", "ranked", "scene", "core"} |->
                  UsageRate({p \in ItemRows : ItemOf(p).source = k})],
   by_rank |-> [k \in 1..Cardinality(Refs) |-> UsageRate({p \in ItemRows : p[2] = k})]]

----------------------------------------------------------------------------
(* The memory, and time.                                                   *)

Written ==
  /\ writes < MaxWrites
  /\ writes' = writes + 1
  /\ UNCHANGED <<req, traces, recalls, day, reports>>

\* upsertAtom: a new atom, or new metadata of one that is there.
Remember(a, pin) ==
  /\ Written
  /\ status' = [status EXCEPT ![a] = IF @ = "absent" THEN "active" ELSE @]
  /\ pinned' = [pinned EXCEPT ![a] = pin]
  /\ UNCHANGED <<scene, core>>

\* supersedeAtom and mergeAtoms set the status of any row, archiveAtom that of
\* an active one; hardDeleteAtomsUnsafe takes the row away.
Forget(a, st) ==
  /\ Written
  /\ status[a] # "absent"
  /\ st = "archived" => status[a] = "active"
  /\ status' = [status EXCEPT ![a] = st]
  /\ pinned' = IF st = "absent" THEN [pinned EXCEPT ![a] = FALSE] ELSE pinned
  /\ UNCHANGED <<scene, core>>

\* upsertScene, of the distiller or a caller, and removeScene.
WriteScene(s, st) ==
  /\ Written
  /\ scene[s] # st
  /\ scene' = [scene EXCEPT ![s] = st]
  /\ UNCHANGED <<status, pinned, core>>

\* writeCore.
WriteCore(n) ==
  /\ Written
  /\ core' = n
  /\ UNCHANGED <<status, pinned, scene>>

MemoryChanges ==
  \/ \E a \in Atoms, pin \in BOOLEAN : Remember(a, pin)
  \/ \E a \in Atoms, st \in Ends : Forget(a, st)
  \/ \E s \in Scenes, st \in SceneStatus : WriteScene(s, st)
  \/ \E n \in CoreLengths \cup {0} : WriteCore(n)

\* A recall takes less than a day.
DayPasses ==
  /\ req.phase \in {"idle", "done"}
  /\ day < MaxDays
  /\ day' = day + 1
  /\ UNCHANGED <<memoryVars, req, traces, recalls, reports>>

\* A trace that an earlier process may have left: a recall that found the core,
\* which was reported as used.
Earlier ==
  [r \in {1} |-> [day |-> 0, items |-> <<[ref |-> <<"T3", "core">>, source |-> "core",
                                           usage |-> "used"]>>]]

Init ==
  /\ status = [a \in Atoms |-> "active"]
  /\ pinned \in [Atoms -> BOOLEAN]
  /\ scene = [s \in Scenes |-> "active"]
  /\ core \in CoreLengths \cup {0}
  /\ req = Idle
  /\ traces \in {<<>>, Earlier}
  /\ recalls = 1
  /\ day = 0
  /\ writes = 0
  /\ reports = 0

Next ==
  \/ McpRecall \/ HttpRecall \/ TopicRecall
  \/ SearchAtoms \/ SearchScenes \/ RecallFails
  \/ \E r \in DOMAIN traces, used, unused \in Lists : ReportUsage(r, used, unused)
  \/ PruneTraces
  \/ MemoryChanges
  \/ DayPasses

Spec == Init /\ [][Next]_vars

----------------------------------------------------------------------------
(* Properties.                                                             *)

ItemRefs(items) == {items[i].ref : i \in DOMAIN items}
AllSources == {"pinned", "ranked", "scene", "core"}

\* The rows of both databases and the recall keep their types (src/recall/types.ts,
\* the schemas of src/recall/schema.ts and src/store/schema.ts).
TypeOK ==
  /\ status \in [Atoms -> AtomStatus] /\ pinned \in [Atoms -> BOOLEAN]
  /\ scene \in [Scenes -> SceneStatus]
  /\ core \in CoreLengths \cup {0}
  /\ req \in [phase : {"idle", "embed_atoms", "embed_scenes", "done"},
              budget : Nat, first : SUBSET Atoms, found : SUBSET Atoms,
              scenes : SUBSET Scenes, core : CoreLengths \cup {0},
              items : Seq(Item), truncated : BOOLEAN, id : 0..MaxRecalls]
  /\ DOMAIN traces \subseteq 1..recalls
  /\ traces \in [DOMAIN traces -> [day : 0..day, items : Seq(TraceItem)]]
  /\ recalls \in 0..MaxRecalls /\ day \in 0..MaxDays /\ writes \in 0..MaxWrites
  /\ reports \in 0..MaxReports

\* For any budget that is a natural number, and whatever the tiers find, the items
\* a recall returns fit it (the headings they are rendered under are not counted,
\* and gateway.ts:224 lets a budget below zero or none at all, NaN, through, which
\* bounds nothing); no tier takes what is reserved for the next ones (context.ts:8-13),
\* what is left out of a tier would not fit in what is left of it (context.ts:154-157),
\* and it says truncated exactly if something that was found is missing or the
\* core is cut (context.ts:91).
AssemblyWithinBudget ==
  req.phase = "done" =>
    /\ Chars(req.items, {"pinned"}) <= PinnedShare(req.budget)
    /\ Chars(req.items, {"pinned", "ranked"})
         <= PinnedShare(req.budget) + AtomsShare(req.budget)
    /\ Chars(req.items, {"pinned", "ranked", "scene"}) <= req.budget - CoreShare(req.budget)
    /\ Chars(req.items, AllSources) <= req.budget
    /\ \A a \in req.found \ req.first :
         <<"T1", a>> \notin ItemRefs(req.items) =>
           Chars(req.items, {"pinned", "ranked"}) + Truncated(Length(a), AtomItemCap)
             > PinnedShare(req.budget) + AtomsShare(req.budget)
    /\ req.truncated <=>
         \/ \E a \in req.first \cup req.found : <<"T1", a>> \notin ItemRefs(req.items)
         \/ \E s \in req.scenes : <<"T2", s>> \notin ItemRefs(req.items)
         \/ Chars(req.items, {"core"}) < req.core

\* A trace is what was answered, and it names no item twice though atoms are pinned
\* and unpinned between the reads of a recall (context.ts:143-152): a report on an item
\* sets the usage of all rows that bear its id (usage.ts:81-83), and means one.
TraceIsTheAnswer ==
  \A r \in DOMAIN traces :
    LET items == traces[r].items
    IN /\ \A i, j \in DOMAIN items : items[i].ref = items[j].ref => i = j
       /\ req.phase = "done" /\ req.id = r => ItemRefs(items) = ItemRefs(req.items)

\* What a recall could find now.
Served ==
  ({"T1"} \X Live) \cup ({"T2"} \X LiveScenes)
    \cup {ref \in {<<"T3", "core">>} : core > 0}

Counted(rate) == rate["used"] + rate["unused"] + rate["unknown"]

CountedAll(rates, keys) ==
  LET total[n \in 0..Len(keys)] ==
        IF n = 0 THEN 0 ELSE total[n - 1] + Counted(rates[keys[n]])
  IN total[Len(keys)]

Ranks == [k \in 1..Cardinality(Refs) |-> k]

\* A trace can be accounted for, whatever became of the memory since.  Looked at
\* again, it shows those of its items, and only those, that a recall could find
\* now, and marks the others stale (reconstruct.ts:53-79): nothing superseded,
\* merged, archived, retired or removed passes for what is known.  Of the core that
\* says only that there is one: one synthesized since is shown without a mark,
\* though reconstruct.ts:11-14 has it among the stale items.  And the three
\* breakdowns of the metrics count every item once (metrics.ts).
TraceIsAccountable ==
  /\ \A r \in DOMAIN traces :
       LET items == traces[r].items
           now == Reconstructed(items)
       IN /\ Range(now.shown) = ItemRefs(items) \cap Served
          /\ ItemRefs(now.stale) = ItemRefs(items) \ Served
          /\ Len(now.shown) + Len(now.stale) = Len(items)
  /\ CountedAll(Metrics.by_tier, <<"T1", "T2", "T3">>) = Metrics.item_count
  /\ CountedAll(Metrics.by_source, <<"pinned", "ranked", "scene", "core">>)
       = Metrics.item_count
  /\ CountedAll(Metrics.by_rank, Ranks) = Metrics.item_count

\* What was reported of an item stays reported: whatever reports, recalls and
\* changes of the memory come later, usage only leaves "unknown" (usage.ts:10-16),
\* and a trace goes as a whole, and not before its time.
FeedbackIsFinal ==
  [][\A r \in DOMAIN traces :
       \/ r \notin DOMAIN traces' /\ RetentionDays \in 1..(day - traces[r].day - 1)
       \/ /\ r \in DOMAIN traces' /\ DOMAIN traces'[r].items = DOMAIN traces[r].items
          /\ \A i \in DOMAIN traces[r].items :
               LET old == traces[r].items[i]  new == traces'[r].items[i]
               IN /\ new.ref = old.ref
                  /\ old.usage # "unknown" => new.usage = old.usage]_vars
=============================================================================
