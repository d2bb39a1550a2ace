----------------------------- MODULE TopicScenes -----------------------------
(***************************************************************************)
(* The topic scenes of one store: the part of distillOncePass in           *)
(* src/distill/core.ts that clusters the active atoms by similarity, gives *)
(* each cluster a scene that was there before or a new one, retires the    *)
(* rest, and then writes the narrations from its snapshot of the scenes.   *)
(* A pass has something to do while turns are unread or the store is       *)
(* marked, and it has read the turns before it comes to the scenes.        *)
(*                                                                         *)
(*  - An atom is its place in the order of ids.                            *)
(*  - A step is one upsertScene.  Requests run only where it had to embed  *)
(*    (awaited); the process may die after any step.                       *)
(*  - What episode scenes and the core hold is DistillPass's subject; here *)
(*    they are awaits and failures of the pass.                            *)
(***************************************************************************)
EXTENDS Integers, FiniteSets

CONSTANTS
  NumAtoms,
  Similarity,     \* cosine similarity of two atoms, in percent
  TopicPercent,   \* topicSimilarityThreshold
  MatchPercent,   \* sceneMatchThreshold
  ReorgPercent,   \* sceneReorgThreshold
  Initial,        \* bound: the sets of atoms the store may start with
  Edits,          \* bound: the sets of atoms requests give to a scene
  MaxScenes,      \* bound: scenes ever created
  MaxWrites,      \* bound: writes by requests
  MaxFaults       \* bound: failed embeddings and crashes

Atoms == 1..NumAtoms
Ids   == 1..MaxScenes

ASSUME TopicAssumption ==
  /\ NumAtoms \in Nat
  /\ Similarity \in [Atoms \X Atoms -> 0..100]
  /\ TopicPercent \in 0..100
  /\ MatchPercent \in 1..100
  /\ ReorgPercent \in Nat
  /\ Initial \subseteq SUBSET Atoms
  /\ Edits \subseteq SUBSET Atoms
  /\ MaxScenes \in Nat
  /\ MaxWrites \in Nat
  /\ MaxFaults \in Nat

VARIABLES
  known,      \* atoms that have a row
  active,     \* the active ones
  scenes,     \* the topic scenes
  born,       \* ids given out so far: an id is never given out twice
  writes,     \* writes by requests so far
  faults,     \* failed embeddings and crashes so far
  fresh,      \* turns are beyond the watermark
  dirty,      \* the store's dirty mark
  failed,     \* a narration of the pass failed
  pc,         \* where the pass is; "idle" between passes
  clusters,   \* clusters it has still to place
  seen,       \* the scenes its current loop read, by id
  visited,    \* those it is done with
  task,       \* what it does when the call it awaits returns
  awaited,    \* the last step of the pass embedded something
  disturbed,  \* history: a request wrote since the pass began
  clean       \* history: a pass reconciled the scenes, and nothing wrote since

storeVars == <<known, active, scenes, born, writes>>
passVars  == <<pc, clusters, seen, visited, task, awaited>>
owedVars  == <<fresh, dirty, failed>>
vars == <<storeVars, passVars, owedVars, faults, disturbed, clean>>

NoText == {0}

Scene == [status : {"absent", "active", "retired"}, members : SUBSET Atoms,
          from : SUBSET Ids, by : SUBSET Ids,    \* derived_from, superseded_by
          hash : (SUBSET Atoms) \cup {NoText}, rendered : BOOLEAN]

NoScene == [status |-> "absent", members |-> {}, from |-> {}, by |-> {},
            hash |-> NoText, rendered |-> FALSE]

\* The scene to write, the scene that supersedes it, the atoms narrated.
NoTask == [id |-> 0, heir |-> 0, live |-> {}]

ActiveScenes == {i \in Ids : scenes[i].status = "active"}

-----------------------------------------------------------------------------
\* clusterAtoms: greedy, in order of ids.

Near(a, f) == Similarity[<<a, f>>] >= TopicPercent

\* The founders of clusters among the first n atoms.
Founders(A) ==
  LET upTo[n \in 0..NumAtoms] ==
        IF n = 0 THEN {}
        ELSE upTo[n - 1] \cup
               {a \in {n} \cap A : \A f \in upTo[n - 1] : ~Near(a, f)}
  IN upTo[NumAtoms]

\* An atom joins the earlier founder most similar to it, the first if several
\* are.
Joins(a, f, founders) ==
  /\ f < a
  /\ Near(a, f)
  /\ \A g \in founders \ {f} :
       g < a => \/ Similarity[<<a, g>>] < Similarity[<<a, f>>]
                \/ Similarity[<<a, g>>] = Similarity[<<a, f>>] /\ f < g

Clusters(A) ==
  LET founders == Founders(A)
  IN {{f} \cup {a \in A \ founders : Joins(a, f, founders)} : f \in founders}

-----------------------------------------------------------------------------
\* Matching.

Overlap(M, N) == Cardinality(M \cap N)
Union(M, N)   == Cardinality(M \cup N)

\* The Jaccard overlap of M with c is at least that of N.
CloserTo(c, M, N) == Overlap(c, M) * Union(c, N) >= Overlap(c, N) * Union(c, M)

Matches(c, M) == 100 * Overlap(c, M) >= MatchPercent * Union(c, M)

Churn(old, new) == Cardinality(new \ old) + Cardinality(old \ new)

\* churnFraction against the reorganization threshold.
Reorganizes(old, new) == 100 * Churn(old, new) >= ReorgPercent * Cardinality(old)

\* Mutant: the first scene that shares an atom is taken for the best.
BestForFirst(c) ==
  {i \in DOMAIN seen \ visited :
     /\ Overlap(c, seen[i].members) > 0
     /\ \A k \in DOMAIN seen \ visited : Overlap(c, seen[k].members) > 0 => i <= k}

\* The scenes not yet matched that overlap c most; in any order of rows.
BestFor(c) ==
  {i \in DOMAIN seen \ visited :
     /\ Overlap(c, seen[i].members) > 0
     /\ \A k \in DOMAIN seen \ visited : CloserTo(c, seen[i].members, seen[k].members)}

\* A loop over scenes takes them as they were created.
NextRow(i) ==
  /\ i \in DOMAIN seen \ visited
  /\ \A k \in DOMAIN seen \ visited : i <= k

\* Map order: by founder, the least member of a cluster.
FirstCluster(c) ==
  /\ c \in clusters
  /\ \E f \in c : \A d \in clusters : \A a \in d : f <= a

-----------------------------------------------------------------------------
\* upsertScene.

\* Columns a write leaves out keep what the row has.
Row(i, status, members) ==
  [scenes[i] EXCEPT !.status = status, !.members = members]

NeedsEmbedding(i, retitled) == retitled \/ ~scenes[i].rendered

Linked(row) == row.members \subseteq known

\* Control is back with the worker and what the pass held in memory is gone.
Leave ==
  /\ pc' = "idle"
  /\ clusters' = {}
  /\ seen' = <<>>
  /\ visited' = {}
  /\ task' = NoTask
  /\ awaited' = FALSE
  /\ failed' = FALSE

Fault ==
  /\ faults < MaxFaults
  /\ faults' = faults + 1

UpsertDone(i, row, retitled) ==
  /\ Linked(row)
  /\ scenes' = [scenes EXCEPT ![i] = [row EXCEPT !.rendered = TRUE]]
  /\ awaited' = NeedsEmbedding(i, retitled)
  /\ UNCHANGED faults

\* Mutant: a member without a row rolls the write back.
UpsertRollsBack(i, row, retitled) ==
  /\ ~Linked(row)
  /\ UNCHANGED <<scenes, faults>>
  /\ Leave

\* The row is written; a member without a row, the embedder or a crash then
\* takes the call out of the pass.
UpsertThrows(i, row, retitled) ==
  /\ \/ ~Linked(row) /\ UNCHANGED faults
     \/ NeedsEmbedding(i, retitled) /\ Fault
  /\ scenes' = [scenes EXCEPT ![i] =
                  [row EXCEPT !.rendered = ~NeedsEmbedding(i, retitled)]]
  /\ Leave

-----------------------------------------------------------------------------
\* Reconciliation.

\* Mutant: without the filter on status.
SnapshotOfAll == [i \in {k \in Ids : scenes[k].status # "absent"} |-> scenes[i]]

Snapshot == [i \in ActiveScenes |-> scenes[i]]

Owed == fresh \/ dirty

\* distillOnce returns early with nothing to do.  Otherwise the turns it read are
\* behind the watermark once L1 commits, and L2 begins with the episodes' scenes.
CommitL1 ==
  /\ pc = "idle"
  /\ Owed
  /\ fresh' = FALSE
  /\ pc' = "episodes"
  /\ awaited' = TRUE
  /\ UNCHANGED <<storeVars, clusters, seen, visited, task, dirty, failed, faults,
                 disturbed, clean>>

\* Atoms, clusters and scenes are read in one segment.  Without an active atom
\* there are no clusters, and every scene is retired.
Begin ==
  /\ pc = "episodes"
  /\ pc' = "placing"
  /\ clusters' = Clusters(active)
  /\ seen' = Snapshot
  /\ visited' = {}
  /\ disturbed' = FALSE
  /\ awaited' = FALSE
  /\ UNCHANGED <<storeVars, owedVars, task, faults, clean>>

\* The cluster goes to a scene it matches, whose members change.
Keep(c, i) ==
  /\ pc = "placing"
  /\ FirstCluster(c)
  /\ i \in BestFor(c)
  /\ Matches(c, seen[i].members)
  /\ ~Reorganizes(seen[i].members, c)
  /\ \/ /\ UpsertDone(i, Row(i, "active", c), FALSE)
        /\ clusters' = clusters \ {c}
        /\ visited' = visited \cup {i}
        /\ UNCHANGED <<pc, seen, task, failed>>
     \/ UpsertThrows(i, Row(i, "active", c), FALSE)
  /\ UNCHANGED <<known, active, born, writes, fresh, dirty, disturbed>>
  /\ clean' = FALSE

\* A scene for c under a new id.
Create(c, from) ==
  [NoScene EXCEPT !.status = "active", !.members = c, !.from = from]

\* No scene matches: the cluster gets a new one.
Spawn(c) ==
  /\ pc = "placing"
  /\ FirstCluster(c)
  /\ \A i \in BestFor(c) : ~Matches(c, seen[i].members)
  /\ born < MaxScenes
  /\ born' = born + 1
  /\ \/ /\ UpsertDone(born', Create(c, {}), TRUE)
        /\ clusters' = clusters \ {c}
        /\ UNCHANGED <<pc, seen, visited, task, failed>>
     \/ UpsertThrows(born', Create(c, {}), TRUE)
  /\ UNCHANGED <<known, active, writes, fresh, dirty, disturbed>>
  /\ clean' = FALSE

\* The match changed too much: a new scene derived from it.
Reorganize(c, i) ==
  /\ pc = "placing"
  /\ FirstCluster(c)
  /\ i \in BestFor(c)
  /\ Matches(c, seen[i].members)
  /\ Reorganizes(seen[i].members, c)
  /\ born < MaxScenes
  /\ born' = born + 1
  /\ \/ /\ UpsertDone(born', Create(c, {i}), TRUE)
        /\ clusters' = clusters \ {c}
        /\ task' = [id |-> i, heir |-> born', live |-> {}]
        /\ pc' = "superseding"
        /\ UNCHANGED <<seen, visited, failed>>
     \/ UpsertThrows(born', Create(c, {i}), TRUE)
  /\ UNCHANGED <<known, active, writes, fresh, dirty, disturbed>>
  /\ clean' = FALSE

\* Mutant: the scene it replaces is named, and stays in service.
SupersedeOnlyNames ==
  LET row == [Row(task.id, "active", seen[task.id].members) EXCEPT !.by = {task.heir}]
  IN  /\ pc = "superseding"
      /\ \/ /\ UpsertDone(task.id, row, FALSE)
            /\ visited' = visited \cup {task.id}
            /\ pc' = "placing"
            /\ task' = NoTask
            /\ UNCHANGED <<clusters, seen, failed>>
         \/ UpsertThrows(task.id, row, FALSE)
      /\ UNCHANGED <<known, active, born, writes, fresh, dirty, disturbed, clean>>

\* The scene it replaces is retired.
Supersede ==
  LET row == [Row(task.id, "retired", seen[task.id].members) EXCEPT !.by = {task.heir}]
  IN  /\ pc = "superseding"
      /\ \/ /\ UpsertDone(task.id, row, FALSE)
            /\ visited' = visited \cup {task.id}
            /\ pc' = "placing"
            /\ task' = NoTask
            /\ UNCHANGED <<clusters, seen, failed>>
         \/ UpsertThrows(task.id, row, FALSE)
      /\ UNCHANGED <<known, active, born, writes, fresh, dirty, disturbed, clean>>

\* Every cluster is placed: a scene that got none is retired.
Retire(i) ==
  /\ pc = "placing"
  /\ clusters = {}
  /\ NextRow(i)
  /\ \/ /\ UpsertDone(i, Row(i, "retired", seen[i].members), FALSE)
        /\ visited' = visited \cup {i}
        /\ UNCHANGED <<pc, clusters, seen, task, failed>>
     \/ UpsertThrows(i, Row(i, "retired", seen[i].members), FALSE)
  /\ UNCHANGED <<known, active, born, writes, fresh, dirty, disturbed>>
  /\ clean' = FALSE

\* Nothing is left to reconcile: the active scenes are read for narration.
Reconciled ==
  /\ pc = "placing"
  /\ clusters = {}
  /\ DOMAIN seen \subseteq visited
  /\ pc' = "narrating"
  /\ seen' = Snapshot
  /\ visited' = {}
  /\ clean' = ~disturbed
  /\ UNCHANGED <<storeVars, owedVars, clusters, task, awaited, faults, disturbed>>

-----------------------------------------------------------------------------
\* Narration, from the snapshot.

Live(i) == seen[i].members \cap active

\* content_hash as the snapshot has it, against the members alive now.
UpToDate(i) ==
  /\ pc = "narrating"
  /\ NextRow(i)
  /\ seen[i].hash = Live(i)
  /\ visited' = visited \cup {i}
  /\ UNCHANGED <<storeVars, owedVars, pc, clusters, seen, task, awaited, faults,
                 disturbed, clean>>

AskNarration(i) ==
  /\ pc = "narrating"
  /\ NextRow(i)
  /\ seen[i].hash # Live(i)
  /\ task' = [id |-> i, heir |-> 0, live |-> Live(i)]
  /\ pc' = "asked"
  /\ awaited' = (Live(i) # {})
  /\ UNCHANGED <<storeVars, owedVars, clusters, seen, visited, faults, disturbed,
                 clean>>

\* The row is written back as the snapshot has it, and active; its title may be
\* a new one though the call for its summary failed.
Narrated(ok, retitled) ==
  LET row == [Row(task.id, "active", seen[task.id].members) EXCEPT
                !.hash = IF ok THEN task.live ELSE seen[task.id].hash]
  IN  /\ pc = "asked"
      /\ \/ /\ UpsertDone(task.id, row, retitled)
            /\ visited' = visited \cup {task.id}
            /\ pc' = "narrating"
            /\ task' = NoTask
            /\ failed' = (failed \/ ~ok)
            /\ UNCHANGED <<clusters, seen>>
         \/ UpsertThrows(task.id, row, retitled)
      /\ UNCHANGED <<known, active, born, writes, fresh, dirty, disturbed, clean>>

Narrate == Narrated(TRUE, task.live # {})

NarrationFails == task.live # {} /\ \E retitled \in BOOLEAN : Narrated(FALSE, retitled)

\* The core is written, which may await the model.
AskCore ==
  /\ pc = "narrating"
  /\ DOMAIN seen \subseteq visited
  /\ pc' = "core"
  /\ seen' = <<>>
  /\ visited' = {}
  /\ awaited' = TRUE
  /\ UNCHANGED <<storeVars, owedVars, clusters, task, faults, disturbed, clean>>

\* The completeness gate: the mark is cleared, or set where a narration, of an
\* episode too, or the core failed.
PassEnds ==
  /\ pc = "core"
  /\ dirty' \in (IF failed THEN {TRUE} ELSE BOOLEAN)
  /\ Leave
  /\ UNCHANGED <<storeVars, fresh, faults, disturbed, clean>>

\* A crash anywhere, or a throw from an episode's scene: no mark is set.
Crash ==
  /\ pc # "idle"
  /\ Fault
  /\ Leave
  /\ UNCHANGED <<storeVars, fresh, dirty, disturbed, clean>>

-----------------------------------------------------------------------------
\* Requests, and what the pass does to atoms before it comes to topics.

\* Turns arrive, or some are deleted, the unread ones too; that marks the store
\* if an atom had one for evidence.  A pass that runs does not read them again,
\* so that they come after it.
TurnsChange ==
  /\ pc = "idle"
  /\ \/ fresh' = TRUE /\ UNCHANGED dirty
     \/ fresh' \in {FALSE, fresh} /\ dirty' \in {dirty, TRUE}
  /\ UNCHANGED <<storeVars, passVars, failed, faults, disturbed, clean>>

Write ==
  /\ pc = "idle" \/ awaited
  /\ writes < MaxWrites
  /\ writes' = writes + 1
  /\ disturbed' = TRUE
  /\ clean' = FALSE
  /\ UNCHANGED <<passVars, fresh, failed, faults>>

StoreAtom(a) ==
  /\ Write
  /\ a \notin known
  /\ known' = known \cup {a}
  /\ active' = active \cup {a}
  /\ UNCHANGED <<scenes, born, dirty>>

\* Archived, superseded or merged, which marks the store.
DropAtom(a) ==
  /\ Write
  /\ a \in active
  /\ active' = active \ {a}
  /\ dirty' = TRUE
  /\ UNCHANGED <<known, scenes, born>>

\* hardDeleteAtomsUnsafe takes the atom out of the join table, and leaves it in
\* the scenes' atom_ids.
DeleteAtom(a) ==
  /\ Write
  /\ a \in known
  /\ known' = known \ {a}
  /\ active' = active \ {a}
  /\ dirty' = TRUE
  /\ UNCHANGED <<scenes, born>>

\* A scene is removed or edited without a mark.
RemoveScene(i) ==
  /\ Write
  /\ scenes[i].status # "absent"
  /\ scenes' = [scenes EXCEPT ![i] = NoScene]
  /\ UNCHANGED <<known, active, born, dirty>>

\* /scenes/upsert on a scene that is there: its status, its atoms or both.
EditScene(i, M, status) ==
  /\ Write
  /\ scenes[i].status # "absent"
  /\ M \in Edits \cup {scenes[i].members}
  /\ M \subseteq known
  /\ \E drawn \in {TRUE, scenes[i].rendered} :
       scenes' = [scenes EXCEPT ![i] =
                    [Row(i, status, M) EXCEPT !.rendered = drawn]]
  /\ UNCHANGED <<known, active, born, dirty>>

Init ==
  /\ known \in Initial
  /\ active = known
  /\ scenes = [i \in Ids |-> NoScene]
  /\ born = 0
  /\ writes = 0
  /\ faults = 0
  /\ fresh = TRUE
  /\ dirty = FALSE
  /\ failed = FALSE
  /\ pc = "idle"
  /\ clusters = {}
  /\ seen = <<>>
  /\ visited = {}
  /\ task = NoTask
  /\ awaited = FALSE
  /\ disturbed = FALSE
  /\ clean = FALSE

Step ==
  \/ CommitL1 \/ Begin
  \/ \E c \in clusters :
       \/ \E i \in DOMAIN seen : Keep(c, i) \/ Reorganize(c, i)
       \/ Spawn(c)
  \/ Supersede
  \/ \E i \in DOMAIN seen : Retire(i) \/ UpToDate(i) \/ AskNarration(i)
  \/ Reconciled \/ Narrate \/ NarrationFails \/ AskCore \/ PassEnds

Next ==
  \/ Step
  \/ Crash
  \/ TurnsChange
  \/ \E a \in Atoms : StoreAtom(a) \/ DropAtom(a) \/ DeleteAtom(a)
  \/ \E i \in Ids : \/ RemoveScene(i)
                  \/ \E M \in SUBSET Atoms, status \in {"active", "retired"} :
                       EditScene(i, M, status)

\* A pass that has begun goes on; the worker runs one again where it threw, or
\* at the next wake or sweep, and it begins if there is something to do.
Spec == Init /\ [][Next]_vars /\ WF_vars(Step)

-----------------------------------------------------------------------------
\* The type invariant: rows, snapshot and task are what the code's types say,
\* and a scene's id was given out before the scene is there.
TypeOK ==
  /\ known \subseteq Atoms
  /\ active \subseteq known
  /\ scenes \in [Ids -> Scene]
  /\ born \in 0..MaxScenes
  /\ writes \in 0..MaxWrites
  /\ faults \in 0..MaxFaults
  /\ \A i \in Ids : i > born => scenes[i] = NoScene
  /\ fresh \in BOOLEAN /\ dirty \in BOOLEAN /\ failed \in BOOLEAN
  /\ pc \in {"idle", "episodes", "placing", "superseding", "narrating", "asked",
             "core"}
  /\ clusters \subseteq SUBSET Atoms
  /\ DOMAIN seen \subseteq 1..born
  /\ \A i \in DOMAIN seen : seen[i] \in Scene /\ seen[i].status = "active"
  /\ visited \subseteq DOMAIN seen
  /\ task \in [id : 0..MaxScenes, heir : 0..MaxScenes, live : SUBSET Atoms]
  /\ awaited \in BOOLEAN /\ disturbed \in BOOLEAN /\ clean \in BOOLEAN

\* Once a pass has reconciled a store that stood still, the scenes in service
\* are the clusters of its active atoms: each has one scene, no scene shares an
\* atom with another and none is left over, whatever failed passes, removed
\* scenes and edited members the pass started from.
TopicsMatchClusters ==
  clean => /\ {scenes[i].members : i \in ActiveScenes} = Clusters(active)
           /\ \A i, k \in ActiveScenes :
                i # k => scenes[i].members \cap scenes[k].members = {}

\* A topic keeps its id: where most of the union of a cluster and a scene is
\* shared, the scene has the cluster's members when the pass has reconciled, or
\* it changed beyond the threshold and a scene that names it, and that it names,
\* has them.  The order of clusters and rows never gives it to another.
InheritsFrom(h, i) ==
  /\ i \in scenes[h].from
  /\ scenes[i].by = {h}
  /\ scenes[i].status = "retired"

KeepsIdentity(c, i) ==
  \E h \in ActiveScenes :
    /\ scenes[h].members = c
    /\ IF Reorganizes(seen[i].members, c) THEN InheritsFrom(h, i) ELSE h = i

SeenApart ==
  \A i, k \in DOMAIN seen : i # k => seen[i].members \cap seen[k].members = {}

MostlyShared(c, M) == 2 * Overlap(c, M) > Union(c, M)

TopicsKeepIdentity ==
  [][Reconciled /\ ~disturbed /\ SeenApart =>
       \A c \in Clusters(active), i \in DOMAIN seen :
         MostlyShared(c, seen[i].members) => KeepsIdentity(c, i)]_vars

\* A retired topic stays retired: no pass brings it back from what it read,
\* unless a request wrote to the store while the pass ran.
RetirementIsFinal ==
  [][\A i \in Ids :
       ~disturbed' /\ scenes[i].status = "retired"
         => scenes'[i].status = "retired"]_vars

\* The id of a topic scene goes on to mean its topic: it neither passes to another
\* while the topic is mostly the same, nor comes back once it is retired
\* (core.ts:1205-1290, :1373).
TopicIdsAreStable == TopicsKeepIdentity /\ RetirementIsFinal

\* Whatever was deleted, edited or half written: passes come to reconcile the
\* scenes again once writes and failures end, provided that passes with something
\* to do begin time and again (core.ts:641-646).  Removing or editing a scene
\* gives them nothing, and neither does a throw over a scene in an unmarked
\* store, so that what these leave stays until a pass finds new turns or a mark.
Reconciles == []<>(pc = "episodes") => []<>clean
=============================================================================
