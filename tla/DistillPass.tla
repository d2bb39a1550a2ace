----------------------------- MODULE DistillPass -----------------------------
(***************************************************************************)
(* One distillation pass over one store: distillOnce of                    *)
(* src/distill/core.ts.  A pass reads the turns above the watermark, asks  *)
(* the model for candidate atoms and for a decision on each, commits atoms,*)
(* evidence and watermark in one transaction (L1), brings the episode      *)
(* scenes to the atoms there now are and narrates the changed ones (L2),   *)
(* and synthesizes the core when its input changed (L3).                   *)
(*                                                                         *)
(*  - A step is the code between two awaits.  Requests run between steps,  *)
(*    the process may die between any two, and calls of the model and the  *)
(*    embedder may fail.                                                   *)
(*  - A text the model wrote is named by the set of atoms it was written   *)
(*    from, and so is the content hash that gates writing it anew.         *)
(*  - Topic scenes, the audit tables and the search indexes are left out.  *)
(***************************************************************************)
EXTENDS FaldaStore

CONSTANTS
  WindowSize,     \* turns a pass reads at most
  MaxCandidates,  \* bound: candidates extracted from one window
  Overlap,        \* whether atoms and turns may be rewritten during a pass
  Faults          \* which of "llm", "embed" and "crash" occur

ASSUME PassAssumption ==
  /\ WindowSize \in Nat \ {0}
  /\ MaxCandidates \in Nat
  /\ Overlap \in BOOLEAN
  /\ Faults \subseteq {"llm", "embed", "crash"}
  /\ "unwritten" \notin Atoms

VARIABLES
  watermark,  \* last_processed_seq; 0 without a row
  episodes,   \* the episode scene of each session
  core,       \* what the core was written from: core.md and core_state
  pc,         \* where the pass is; "idle" between passes
  window,     \* the turns it read
  plan,       \* the L1 writes it decided on
  todo,       \* sessions the current loop has still to visit
  scene,      \* the scene being narrated
  failed,     \* l2FailureCount > 0
  coreIn,     \* the core's input when its synthesis was asked for
  distilled   \* history: ids of the turns that some L1 commit covered

passVars == <<pc, window, plan, todo, scene, failed, coreIn>>
vars == <<storeVars, passVars, watermark, episodes, core, distilled>>

\* A column that holds no text yet.
NoText == {"unwritten"}

Text == (SUBSET Atoms) \cup {NoText}

Scene == [status : {"absent", "active", "retired"}, members : SUBSET Atoms,
          title : Text, summary : Text, hash : Text, rendered : BOOLEAN]

NoScene == [status |-> "absent", members |-> {}, title |-> NoText,
            summary |-> NoText, hash |-> NoText, rendered |-> FALSE]

NotNarrating == [session |-> "none", live |-> {}]

Op == [action : {"store", "update", "merge", "skip"}, new : Candidates,
       targets : SUBSET Atoms]

Yielded == pc # "committed"

\* Control is back with the worker and what the pass held in memory is gone.
Leave ==
  /\ pc' = "idle"
  /\ window' = {}
  /\ plan' = <<>>
  /\ todo' = {}
  /\ scene' = NotNarrating
  /\ failed' = FALSE
  /\ coreIn' = {}

-----------------------------------------------------------------------------
\* L0: the window.

FirstOf(turns) ==
  {t \in turns : Cardinality({u \in turns : u.seq < t.seq}) < WindowSize}

\* queryStreamSeq: in order of seq, after the watermark.
Window == FirstOf({t \in stream : t.seq > watermark})

\* A pass begins: there are new turns.
BeginExtract ==
  /\ pc = "idle"
  /\ Window # {}
  /\ pc' = "planning"
  /\ window' = Window
  /\ UNCHANGED <<storeVars, watermark, episodes, core, distilled,
                 plan, todo, scene, failed, coreIn>>

\* Mutant: without new turns there is nothing to do.
BeginReconcileNever == FALSE /\ UNCHANGED vars

\* A pass begins: nothing new, but the store is marked.  There is nothing to
\* ask or to commit before the scenes.
BeginReconcile ==
  /\ pc = "idle"
  /\ Window = {}
  /\ dirty
  /\ pc' = "committed"
  /\ todo' = EvidencedSessions
  /\ UNCHANGED <<storeVars, watermark, episodes, core, distilled,
                 window, plan, scene, failed, coreIn>>

-----------------------------------------------------------------------------
\* L1: the plan.

\* consumedByDecision: what applying a decision takes out of service.
ConsumedBy(op) ==
  IF op.action \in {"update", "merge"} THEN op.targets \ {op.new} ELSE {}

ConsumedBefore(p, i) == UNION {ConsumedBy(p[j]) : j \in 1..(i - 1)}

\* Decisions that pass validation: no target to store or skip, one to update,
\* two or more to merge, all of them shown to the model.
OpsOn(shown) ==
  {op \in [action : {"store", "update", "merge", "skip"}, new : Candidates,
           targets : SUBSET shown] :
     CASE op.action \in {"store", "skip"} -> op.targets = {}
       [] op.action = "update" -> Cardinality(op.targets) = 1
       [] op.action = "merge"  -> Cardinality(op.targets) >= 2}

\* One decision for each of n candidates; one that names a target an earlier
\* one consumed is made anew without it.
PlansOn(shown, n) ==
  {p \in [1..n -> OpsOn(shown)] :
     \A i \in 1..n : p[i].targets \cap ConsumedBefore(p, i) = {}}

\* Extraction, retrieval and consolidation.
Plan ==
  /\ pc = "planning"
  /\ pc' = "planned"
  /\ \E n \in 0..MaxCandidates : plan' \in PlansOn(Active, n)
  /\ UNCHANGED <<storeVars, watermark, episodes, core, distilled,
                 window, todo, scene, failed, coreIn>>

\* A reply is malformed or does not come, or a winner cannot be embedded.
PlanningFails ==
  /\ \/ pc = "planning" /\ "llm" \in Faults
     \/ pc \in {"planning", "planned"} /\ "embed" \in Faults
  /\ Leave
  /\ UNCHANGED <<storeVars, watermark, episodes, core, distilled>>

-----------------------------------------------------------------------------
\* L1: the transaction.

Winners == {op.new : op \in {plan[i] : i \in {j \in DOMAIN plan :
                                                 plan[j].action # "skip"}}}

\* Phase A: a winner without a row gets one; one that has a row keeps it.
Ensured ==
  [a \in Atoms |-> IF a \in Winners /\ status[a] = "absent" THEN "active"
                                                            ELSE status[a]]

WindowIds == {t.id : t \in window}

\* The winner has the evidence of the window and inherits its targets'.
EvidenceAfter(op, ev) ==
  IF op.action = "skip" THEN ev
  ELSE ev \cup ({op.new} \X (WindowIds \cup
                               {e[2] : e \in {f \in ev : f[1] \in op.targets}}))

\* Mutant: a status that is not one, the action's name.
StatusAfterNamed(op, st) ==
  [a \in Atoms |-> IF a \in ConsumedBy(op) THEN op.action ELSE st[a]]

StatusAfter(op, st) ==
  [a \in Atoms |->
     IF a \in ConsumedBy(op)
       THEN IF op.action = "update" THEN "superseded" ELSE "merged"
       ELSE st[a]]

\* Phase B: the operations in order.  Applied[i] is the state after i of them.
Applied ==
  LET after[i \in 0..Len(plan)] ==
        IF i = 0 THEN [status |-> Ensured, evidence |-> evidence]
        ELSE [status   |-> StatusAfter(plan[i], after[i - 1].status),
              evidence |-> EvidenceAfter(plan[i], after[i - 1].evidence)]
  IN after

\* Mutant: a target is only looked for, its status is not.
StaleIfMissing ==
  \E i \in DOMAIN plan : \E a \in plan[i].targets : status[a] = "absent"

\* assertTargetsActive, before anything is written and before each operation.
Stale ==
  \E i \in DOMAIN plan : \E a \in plan[i].targets :
     status[a] # "active" \/ Applied[i - 1].status[a] # "active"

\* A turn of the window was deleted: its evidence edge violates a foreign key.
Dangling == Winners # {} /\ ~(window \subseteq stream)

\* Mutant: the watermark goes to the head of the stream.
NextWatermarkHead == HeadSeq(stream)

NextWatermark == HeadSeq(window)

CommitL1 ==
  /\ pc = "planned"
  /\ ~Stale
  /\ ~Dangling
  /\ status' = Applied[Len(plan)].status
  /\ evidence' = Applied[Len(plan)].evidence
  /\ dirty' = (dirty \/ \E i \in DOMAIN plan : ConsumedBy(plan[i]) # {})
  /\ watermark' = NextWatermark
  /\ distilled' = distilled \cup WindowIds
  /\ window' = {}
  /\ plan' = <<>>
  /\ pc' = "committed"
  /\ UNCHANGED <<stream, appended, writes, episodes, core,
                 scene, failed, coreIn>>
  /\ todo' = EvidencedSessions'

\* The transaction throws and is rolled back.
CommitAborts ==
  /\ pc = "planned"
  /\ Stale \/ Dangling
  /\ Leave
  /\ UNCHANGED <<storeVars, watermark, episodes, core, distilled>>

-----------------------------------------------------------------------------
\* upsertScene: the row first, then index and embedding.

TextChanged(old, new) == <<old.title, old.summary>> # <<new.title, new.summary>>

NeedsEmbedding(s, new) == ~episodes[s].rendered \/ TextChanged(episodes[s], new)

\* The members' rows are there: scene_atoms refers to them.
Linked(new) == \A a \in new.members : status[a] # "absent"

UpsertDone(s, new) ==
  /\ Linked(new)
  /\ episodes' = [episodes EXCEPT ![s] = [new EXCEPT !.rendered = TRUE]]
  /\ todo' = todo \ {s}

\* The row is written and then the call throws out of the pass.
UpsertThrows(s, new) ==
  /\ \/ ~Linked(new)
     \/ NeedsEmbedding(s, new) /\ Faults \cap {"embed", "crash"} # {}
  /\ episodes' = [episodes EXCEPT ![s] =
                    [new EXCEPT !.rendered = ~NeedsEmbedding(s, new)]]
  /\ Leave

-----------------------------------------------------------------------------
\* L2: the episode scenes, one for every session with evidence.

EpisodeOf(s) ==
  IF ActiveAtomsOf(s) = {}
    THEN [episodes[s] EXCEPT !.status = "retired", !.members = {}]
    ELSE [episodes[s] EXCEPT !.status = "active", !.members = ActiveAtomsOf(s)]

NoEpisode(s) == ActiveAtomsOf(s) = {} /\ episodes[s].status = "absent"

\* Nothing to derive for this session: on to the next one.
SkipEpisode(s) ==
  /\ pc \in {"committed", "episodes"}
  /\ s \in todo
  /\ NoEpisode(s)
  /\ todo' = todo \ {s}
  /\ UNCHANGED <<storeVars, watermark, episodes, core, distilled,
                 pc, window, plan, scene, failed, coreIn>>

Episode(s) ==
  /\ pc \in {"committed", "episodes"}
  /\ s \in todo
  /\ ~NoEpisode(s)
  /\ \/ /\ UpsertDone(s, EpisodeOf(s))
        /\ pc' = "episodes"
        /\ UNCHANGED <<window, plan, scene, failed, coreIn>>
     \/ UpsertThrows(s, EpisodeOf(s))
  /\ UNCHANGED <<storeVars, watermark, core, distilled>>

ActiveEpisodes == {s \in Sessions : episodes[s].status = "active"}

-----------------------------------------------------------------------------
\* L2: the narration of the active scenes.

ScenesToNarrate ==
  /\ pc \in {"committed", "episodes"}
  /\ todo = {}
  /\ todo' = ActiveEpisodes
  /\ pc' = "narrating"
  /\ UNCHANGED <<storeVars, watermark, episodes, core, distilled,
                 window, plan, scene, failed, coreIn>>

\* What computeSceneHash depends on.
Live(s) == episodes[s].members \cap Active

UpToDate(s) ==
  /\ pc = "narrating"
  /\ s \in todo
  /\ episodes[s].hash = Live(s)
  /\ todo' = todo \ {s}
  /\ UNCHANGED <<storeVars, watermark, episodes, core, distilled,
                 pc, window, plan, scene, failed, coreIn>>

\* No member is active any more: the text stays, the hash moves.
NarrateEmpty(s) ==
  /\ pc = "narrating"
  /\ s \in todo
  /\ Live(s) = {}
  /\ episodes[s].hash # {}
  /\ \/ /\ UpsertDone(s, [episodes[s] EXCEPT !.hash = {}])
        /\ UNCHANGED <<pc, window, plan, scene, failed, coreIn>>
     \/ UpsertThrows(s, [episodes[s] EXCEPT !.hash = {}])
  /\ UNCHANGED <<storeVars, watermark, core, distilled>>

\* Hash and members are read, and the title asked for.
AskTitle(s) ==
  /\ pc = "narrating"
  /\ s \in todo
  /\ Live(s) \notin {{}, episodes[s].hash}
  /\ scene' = [session |-> s, live |-> Live(s)]
  /\ pc' = "title"
  /\ UNCHANGED <<storeVars, watermark, episodes, core, distilled,
                 window, plan, todo, failed, coreIn>>

\* The title is there, and the summary asked for.
AskSummary ==
  /\ pc = "title"
  /\ pc' = "summary"
  /\ UNCHANGED <<storeVars, watermark, episodes, core, distilled,
                 window, plan, todo, scene, failed, coreIn>>

\* Mutant: the hash moves even though the narration failed.
HashAfterAlways(old, ok) == scene.live

HashAfter(old, ok) == IF ok THEN scene.live ELSE old.hash

\* The upsert after the two calls: to \in {"neither", "title", "both"} is
\* what the model delivered.
Narrated(to) ==
  LET old == episodes[scene.session]
      ok  == to = "both"
      new == [old EXCEPT
                !.title   = IF to # "neither" THEN scene.live ELSE @,
                !.summary = IF ok THEN scene.live ELSE @,
                !.hash    = HashAfter(old, ok)]
  IN  /\ \/ /\ UpsertDone(scene.session, new)
            /\ pc' = "narrating"
            /\ scene' = NotNarrating
            /\ failed' = (failed \/ ~ok)
            /\ UNCHANGED <<window, plan, coreIn>>
         \/ UpsertThrows(scene.session, new)
      /\ UNCHANGED <<storeVars, watermark, core, distilled>>

TitleFails == pc = "title" /\ "llm" \in Faults /\ Narrated("neither")

SummaryFails == pc = "summary" /\ "llm" \in Faults /\ Narrated("title")

Narrate == pc = "summary" /\ Narrated("both")

-----------------------------------------------------------------------------
\* L3: the core, and the end of the pass.

\* What computeCoreHash depends on: {} if there is no active scene.
CoreInput ==
  {[session |-> s, title |-> episodes[s].title, live |-> Live(s)] :
     s \in ActiveEpisodes}

\* The completeness gate: markDirty and throw, or clearDirty and return.
DirtyAfter(incomplete) == incomplete

\* No scene, then no core; or the input is that of the core there is.
CoreUpToDate ==
  /\ pc = "narrating"
  /\ todo = {}
  /\ CoreInput \in {{}, core}
  /\ core' = CoreInput
  /\ dirty' = DirtyAfter(failed)
  /\ Leave
  /\ UNCHANGED <<stream, appended, status, evidence, writes,
                 watermark, episodes, distilled>>

AskCore ==
  /\ pc = "narrating"
  /\ todo = {}
  /\ CoreInput \notin {{}, core}
  /\ coreIn' = CoreInput
  /\ pc' = "core"
  /\ UNCHANGED <<storeVars, watermark, episodes, core, distilled,
                 window, plan, todo, scene, failed>>

Synthesize ==
  /\ pc = "core"
  /\ core' = coreIn
  /\ dirty' = DirtyAfter(failed)
  /\ Leave
  /\ UNCHANGED <<stream, appended, status, evidence, writes,
                 watermark, episodes, distilled>>

SynthesisFails ==
  /\ pc = "core"
  /\ "llm" \in Faults
  /\ dirty' = DirtyAfter(TRUE)
  /\ Leave
  /\ UNCHANGED <<stream, appended, status, evidence, writes,
                 watermark, episodes, core, distilled>>

-----------------------------------------------------------------------------
\* The rest of the process.

Foreground ==
  /\ pc = "idle" \/ (Overlap /\ Yielded)
  /\ StoreWrite
  /\ UNCHANGED <<passVars, watermark, episodes, core, distilled>>

Capture ==
  /\ Yielded
  /\ \E s \in Sessions : AddStream(s)
  /\ UNCHANGED <<passVars, watermark, episodes, core, distilled>>

Crash ==
  /\ "crash" \in Faults
  /\ pc # "idle"
  /\ Leave
  /\ UNCHANGED <<storeVars, watermark, episodes, core, distilled>>

Init ==
  /\ StoreInit
  /\ watermark = 0
  /\ episodes = [s \in Sessions |-> NoScene]
  /\ core = {}
  /\ pc = "idle"
  /\ window = {}
  /\ plan = <<>>
  /\ todo = {}
  /\ scene = NotNarrating
  /\ failed = FALSE
  /\ coreIn = {}
  /\ distilled = {}

\* Steps of a pass that it takes by itself or with the model's answer.
Progress ==
  \/ BeginExtract \/ BeginReconcile \/ Plan \/ CommitL1 \/ CommitAborts
  \/ \E s \in Sessions : SkipEpisode(s) \/ Episode(s)
  \/ ScenesToNarrate
  \/ \E s \in Sessions : UpToDate(s) \/ NarrateEmpty(s) \/ AskTitle(s)
  \/ AskSummary \/ Narrate
  \/ CoreUpToDate \/ AskCore \/ Synthesize

Failure == PlanningFails \/ TitleFails \/ SummaryFails \/ SynthesisFails \/ Crash

Next == Progress \/ Failure \/ Foreground \/ Capture

Spec == Init /\ [][Next]_vars

-----------------------------------------------------------------------------
\* Properties.

\* Every variable keeps its type.
TypeOK ==
  /\ StoreTypeOK
  /\ watermark \in Nat
  /\ episodes \in [Sessions -> Scene]
  /\ core \subseteq [session : Sessions, title : Text, live : SUBSET Atoms]
  /\ pc \in {"idle", "planning", "planned", "committed", "episodes",
             "narrating", "title", "summary", "core"}
  /\ window \subseteq Turn
  /\ plan \in Seq(Op)
  /\ todo \subseteq Sessions
  /\ scene \in [session : Sessions \cup {"none"}, live : SUBSET Atoms]
  /\ failed \in BOOLEAN
  /\ coreIn \subseteq [session : Sessions, title : Text, live : SUBSET Atoms]
  /\ distilled \subseteq Nat

\* A turn is extracted at most once: a commit covers no turn that an earlier
\* one covered, whatever crashed or failed in between.
DistilledOnce ==
  [][CommitL1 => WindowIds # {} /\ WindowIds \cap distilled = {}]_vars

\* No turn is passed over: what is at or below the watermark was distilled.
NothingSkipped ==
  \A t \in stream : t.seq <= watermark => t.id \in distilled

\* A pass consumes only atoms that are active when it commits: an answer of
\* the model never overrides a status the atom got while it was thinking.
ConsumesOnlyActive ==
  [][CommitL1 =>
       \A a \in Atoms : status'[a] \notin {status[a], "active"} =>
                          status[a] = "active"]_vars

\* The evidence of a consumed atom lives on in the atom that consumed it.
ProvenanceInherited ==
  [][CommitL1 =>
       \A i \in DOMAIN plan : \A a \in ConsumedBy(plan[i]) :
          \A e \in evidence : e[1] = a =>
                                <<plan[i].new, e[2]>> \in evidence']_vars

\* No evidence dangles: every edge joins an atom and a turn that there are,
\* also when a turn is deleted while a pass that read it is under way.
EvidenceIsRooted ==
  \A e \in evidence :
    status[e[1]] # "absent" /\ \E t \in stream : t.id = e[2]

\* What L1 commits is sound, whatever requests, failures and crashes came before the
\* transaction (core.ts:946-1091): it extracts no turn twice, overrides no status that
\* a target got while the model was thinking, loses no evidence of what it consumes
\* and leaves none dangling.
CommitsAreSound ==
  /\ DistilledOnce
  /\ ConsumesOnlyActive
  /\ ProvenanceInherited
  /\ []EvidenceIsRooted

\* A scene's hash stands for a narration that took place: it never advances
\* past text that was not written, however calls failed or the process died.
HashIsNarrated ==
  \A s \in Sessions : episodes[s].hash \notin {NoText, {}} =>
                        episodes[s].summary = episodes[s].hash

\* No pass is owed: the store is not marked and has no new turns.
AtRest == pc = "idle" /\ ~dirty /\ Window = {}

\* When no pass is owed, the scene of every session that evidence traces to
\* has the active atoms it traces from for members.
EpisodesCurrent ==
  AtRest => \A s \in EvidencedSessions :
              /\ episodes[s].members = ActiveAtomsOf(s)
              /\ episodes[s].status = "active" <=> ActiveAtomsOf(s) # {}

\* When no pass is owed, every active scene is narrated from the members that
\* are active now, and that text is what the scene index holds.
NarrationCurrent ==
  AtRest => \A s \in ActiveEpisodes :
              /\ episodes[s].hash = Live(s)
              /\ Live(s) # {} => episodes[s].summary = Live(s)
              /\ episodes[s].rendered

\* When no pass is owed, the core was written from the scenes there are.
CoreCurrent == AtRest => core = CoreInput

\* When no pass is owed, no layer lags behind: scenes, narration and core are
\* functions of the active atoms (what the gate of core.ts:1470-1503 is for).
LayersCurrent == EpisodesCurrent /\ NarrationCurrent /\ CoreCurrent

\* Foreground traffic over, the store comes to rest with all layers current.
EventuallyCurrent == <>[](AtRest /\ LayersCurrent)

-----------------------------------------------------------------------------
\* What the documentation says and the code does not keep.

\* Turns at or below the watermark cannot appear after it passed them.
SeqIsMonotonic == [][\A t \in stream' \ stream : t.seq > watermark]_vars

-----------------------------------------------------------------------------
\* Fairness.  The worker starts a pass as long as one is owed, the event loop
\* runs what can run, and a call of the model that is repeated for ever gets
\* through in the end.
FairSpec ==
  /\ Spec
  /\ WF_vars(Progress)
  /\ SF_vars(Plan)
  /\ SF_vars(AskSummary)
  /\ SF_vars(Narrate)
  /\ SF_vars(Synthesize)
=============================================================================
