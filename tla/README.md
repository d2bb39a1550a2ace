# A TLA+ development of FALDA

FALDA (`src/`) is a memory service for agents.  Conversations are captured as
turns (T0), a background worker distils them with a language model into atoms
(T1), atoms are grouped into scenes with a narration (T2), and the scenes are
condensed into a core (T3).  Everything lives in SQLite files, one per tenant
or pool, plus one queue database, in a single Node.js process.

This directory holds TLA+ models of the parts in which order matters, the TLC
configurations that check them, and TLAPS proofs.  `PROJECT.json` maps every
definition to the lines it stands for, gives each property a mutant of the code
that breaks it, and lists the hazards with the properties that cover them.

Contents: 1 inventory, 2 modules and their correspondence to the code, 3 runs,
4 fairness, 5 proofs, 6 where the code and its documentation differ, 7 what is
not modelled, 8 plan.

## 1. Inventory

| part | source | state it keeps | operations |
|------|--------|----------------|------------|
| job queue | `src/src/distill/queue.ts` | table `distill_jobs` | enqueue (coalescing), claimNext, completeJob, failJob, recoverStaleJobs |
| worker | `src/src/distill/worker.ts` | `inFlight`, `wakeRequested`, `stopping`, timers | drain, wake, sweep, stop, boot recovery |
| store | `src/src/falda.ts`, `src/src/store/` | `stream`, `atoms`, `atom_evidence`, `scenes`, `scene_atoms`, `store_dirty`, vector and text indexes | capture, lifecycle writes, deletion, scene writes, search |
| distillation pass | `src/src/distill/core.ts`, `watermark.ts` | watermark, dirty mark, core state; in memory a window, a plan, a loop position | extract, consolidate, commit, derive scenes, narrate, synthesize |
| model replies | `core.ts` (parsers, packing, the decision loops), `llm.ts`, `prompts.ts` | none that lasts: candidates, neighbours, decisions of one pass | extract, look up, decide in batches and alone, decide anew |
| topic scenes | `core.ts`, clusterAtoms and the loops after the episodes | `scenes` of kind topic | cluster, match, reorganize, retire, narrate |
| pools | `src/src/pools.ts` | `pools.json`, cache of open stores | declare, update, grant, resolve |
| gateway, MCP | `src/src/gateway.ts`, `src/src/mcp/` | none | route a request to a store or to the queue |
| server | `server.ts`, `runtime.ts`, `boot.ts` | sockets, the worker's handle, EMBEDDING.json | start, close with a grace period |
| recall | `src/src/distill/context.ts`, `src/src/recall/`, the searches of `falda.ts` | `recall_traces`, `recall_trace_items` | assemble a context under budgets, file its trace, take reports on it, reconstruct it, count, prune |
| capture hooks | `src/integrations/` | pending texts, settled roles, flushed ids; the notes of automatic recall, in memory (opencode) or in a file (Claude Code); memoized credentials | accumulate, flush, retry; recall at a prompt, note a compaction, ask for a pass |
| root and its commands | `boot.ts`, `backup.ts`, `restore.ts`, `reembed.ts` | EMBEDDING.json, the store files, a backup directory | lock, snapshot, copy back, rebuild vectors |

**Interaction.**  A hook calls the gateway, which calls the store directly:
every method that does not embed runs without interruption in the event loop.
`/distill` writes a queue row and calls `wake()`.  Timers drain the queue and
sweep the self stores.  The worker runs one pass at a time over a store that
foreground requests keep using: a pass yields at each await (model, embedder),
so a request may come between any two of its steps.  SQLite is durable and the
process's memory is not: the process may die at each await too.

**What makes each part correct, and hard.**

- *Queue and worker.*  One pass at a time; a request is never satisfied by a
  pass that began before it; no request, wake or row of a dead process is
  forgotten; rows of a store do not pile up; attempts are bounded and every row
  is settled in the end.  Hard: coalescing against a running pass, the wake
  that comes while the lane is being released, recovery beside leases.
- *Store and pass.*  Every turn is distilled exactly once; an answer of the
  model never overrides what a request did meanwhile; evidence always leads to
  turns that exist and survives consolidation; scenes, narrations and core are
  current whenever no pass is owed.  Hard: a plan made from a snapshot and
  applied after a wait; L1 committed and L2/L3 not; partial narrations; the
  dirty mark; sequence numbers after deletions.
- *Model replies.*  A plan can be carried out as it was made; every decision is
  the one the model gave for that candidate; nothing that was extracted is lost.
  Hard: replies in any shape, positions counted per batch, batches that differ in
  length, individual retries between them, decisions that exclude each other.
- *Topic scenes.*  The scenes in service are the clusters of the active atoms;
  a topic that changed little keeps its id; a retired one stays retired; passes
  get there whatever broke off before, if they find something to do.  Hard: greedy clustering and matching
  with ties, writes of several rows without a transaction, hard-deleted
  members, narration written back from a snapshot.
- *Capture.*  The text of a settled message reaches the stream once, however
  reports, credentials, flushes and failing calls interleave.  Hard: state read
  before two awaits and restored after the second.
- *Prompts and compactions.*  A session gets one recall at its first prompt and one
  after a compaction, and its host is never held up.  Hard: processes that replace
  one file, credentials that several hooks wait for, a server that does not answer.
- *Root.*  The vectors a server answers from come from the embedder it embeds
  with; a backup is as coherent as the root it was taken from; a re-embedding
  can be repeated until it is complete.  Hard: files written one after the other
  by processes that die in between, a manifest that is written in place, logs
  that outlive their process.
- *Pools and gateway.*  A store bears traces only of tenants that were granted
  it; a store that lags behind its atoms is found again.  Hard: grants and tokens
  that change while requests, rows and passes are under way; one cached handle for
  many tenants, and its key; bookkeeping by tenant in a store that is shared.
- *Recall.*  A context keeps its budget and each tier's share; its trace names what
  was answered, each item once, and can be explained and counted as long as it is
  kept; what was reported stays.  Hard: three reads with awaits in between, shares
  that are rounded and spill over, reports that repeat and contradict one another.

## 2. Modules

    DistillQueue ---> DistillWorker ---> MCDistillWorker     FaldaStore ---> DistillPass ---> MCDistillPass
                        |    \--------> DistillWorkerProofs                     \--> DistillPassProofs
                        +-- INSTANCE DistillService          TopicScenes --> MCTopicScenes, TopicScenesProofs
    Capture --------> Integrations ----> IntegrationsProofs  Recall -------> MCRecall, RecallProofs
                        +-- INSTANCE AutoRecall              Pools --------> MCPools, PoolsProofs
    FaldaRoot ------> MCFaldaRoot, FaldaRootProofs           Consolidation -> MCConsolidation, ConsolidationProofs

**DistillQueue** (operators, no state).  One operator per SQL statement of
`queue.ts`, from table to table: `Enqueued` coalesces into a pending row,
raising its priority but never taking over a running one; `Claimed` takes the
first eligible row by priority and age and starts its lease; `Completed`,
`Failed` (backoff or dead letter), `Recovered` (boot) and lease expiry.  A row
is a record; its place in the table is its age; audit columns are left out.
`Backoff` is a constant function and `ExponentialBackoff` the formula the runs
assign to it: the prover does not type exponentiation.

**DistillWorker** composes the queue with `worker.ts`.  `lanes` are promises
that run the claim loop; `inFlight` names the one that has the lane,
`wakeRequested` is the latch.  Actions: `Drain` (timer), `Request` (enqueue and
`wake()` in one turn of the event loop; it may claim at once), `LateRequest`
(while the server stops), `PassEnds`, `NextWake` (a wake drain goes on), `Release`
(the `finally`, which honours the latch), `Sweep`, `Tick` (time), `Boot` (with
recovery), `Stop`, `Exit` and `Crash`.  A pass is one step here: its end is success or
failure.  `Exit` needs no settled lane, for `shutdownGraceMs` bounds the wait;
it then leaves a running row behind, as a crash does.

**DistillService** is the abstract contract: a set of stores that are owed a
pass and the one whose pass is running.  Accepting a request adds a debt; only
beginning a pass settles it; the end of a pass may renew it; a death in the
middle leaves it owed.  `DistillWorker` implements it under the mapping
`OwedStores`, `ActiveStore`: a store is owed a pass while it has an unsettled row
nobody executes.

**FaldaStore**: the stream, atom lifecycle, evidence and dirty mark with the
requests that change them: capture, remember, supersede, merge, archive, hard
delete, delete turns.  An atom's id is derived from its content by the
distiller, so a candidate proposed again is the same atom; `remember` mints new
ids.

**DistillPass** extends it with `distillOnce`.  A step is the code between two
awaits, so the L1 transaction is atomic and the loop over episodes is not.
`BeginExtract`/`BeginReconcile` choose by window and dirty mark; `Plan` takes any
decisions the validation lets through; `CommitL1` or `CommitAborts` (a target
went stale, or hard-deleted) applies them; `Episode` brings one session's scene
to the atoms its evidence traces to; `AskTitle`, `AskSummary` and `Narrate` are the
narration's calls; the last step clears or keeps the mark.  A text is named by
the set of atoms it was written from, and so is the content hash, so "stale" is
"unequal".  `core` stands for core.md and its row in core_state together.
There is no await between the L1 commit and the first episode (`Yielded`).

**Consolidation** is what `Plan` of DistillPass stands for: from the extraction reply
to a plan.  A reply is what its parser can tell apart: the objects in it, in order,
and which of them are valid.  `ParsedCandidates` is `parseCandidates` with its
tolerance of prose and of `[]`; `ParsedBatch` is `parseConsolidationBatch`, a fold
that accepts the first valid entry for each position; `Packed` is
`packConsolidationChunks` with the fixed stride and the greedy filling by length.
Actions: `Extract`, `Retrieve` (one candidate's neighbours, which an await separates
from the next one's), `DecideBatch`, `DecideAlone` (the candidates a batch left open,
before the next batch), `Settle` and `Replan` (the reconciliation of phase 2.5),
`Plan`, and `CallFails` wherever one of these waits.  `reply` and `said` are
history variables: what the model was asked and said last.  It implements the step that
DistillPass takes in its place: `Pass` is DistillPass with `pc` and `plan` read off the
phase and the decisions (`PassPc`, `PassPlan`) and the rest standing still, the atoms a
search may find being those that are active, and every step of the making of a plan is
`Pass!Plan`, `Pass!PlanningFails` or a stutter (`ImplementsPlan`).  `PlanIsSound` adds what
that step cannot see: the targets were shown with the very candidate they are named for.

**TopicScenes**: the topic half of the same pass, at a finer grain, one
`upsertScene` a step, because that method is not a transaction: it writes the
row, then awaits the embedder, then joins its atoms under a foreign key.  Requests run only
where it had to embed (`awaited`).  `Clusters` is the greedy algorithm over a
similarity matrix, with its order by id and its tie rule; `BestFor` the match
with Jaccard overlap and threshold; `Keep`, `Reorganize`/`Supersede`, `Spawn`,
`Retire` and the narration loop the branches.  What comes before and after is there as
far as it decides whether a pass comes at all: `fresh` and `dirty` are unread turns and the
store's mark, of which distillOnce wants one (`Owed`); `CommitL1` puts the turns behind
the watermark and goes on to the episodes, which `Crash` may break off as it may the rest;
`AskCore` and `PassEnds` are the core and the gate, which clears the mark or sets it
where a narration or the core `failed`; `TurnsChange` brings turns and deletions.  A narration
whose second call fails may have a new title (`NarrationFails`), which is embedded.
Every atom is assumed to have a
vector (one without is not clustered).  Scenes are visited in the order of
their creation; `BestFor` allows any winner of a tie.

**Capture**: one plugin process (`falda-capture.ts`, `capture-flush.ts`) and
`addStream`.  The host reports texts and that a message settled, in any order;
a flush awaits credentials and then the answer; a call may fail before the row
is written, while it is embedded, or on its way back, and what `flush` puts
back overwrites what came since.  `due` and `refused` are history variables.

**Integrations** puts the other hooks beside `Capture`, in a session of either host
(`host`).  In opencode they share memory with the queue of texts: `ChatMessage`,
`Compacting` and the flushes ask for the same memoized credentials (`GetCreds`), and
whoever waits resumes when they are there.  In Claude Code each hook is a process:
`PromptSubmit`, `ReadNotes`, `WriteNotes` are the steps of the one the host waits for,
`PostCompact`, `MarkReads`, `MarkWrites` those of the one it does not, and between
reading the file and replacing it anything may happen, a kill or a failed write
(`HookKilled`, `WriteFails`, `MarkFails`) and the pruning of an old file (`Prune`) among it.
`prompts`, `attempts` and `noted` are history variables.

**AutoRecall** is the contract of both: a session is due an attempt or is not; a prompt
takes the due, a compaction restores it, a fault may cost one of either.
`Integrations` implements it with `due <- Due(notes)`, so that one specification
covers the fields of an object in memory and the file many processes share.

**Recall**: `assembleContext` and what becomes of its trace.  `Start` reads the pinned
atoms, `SearchAtoms` and `SearchScenes` are the continuations after the two embeddings,
the latter with the core and the filing of the trace, which may fail
without failing the recall.  A text is its length.  `Truncated`, the shares, the limits and the
spilling over are the code's arithmetic.  A tier is a recursion over what was found
(`AdmitPinned`, `AdmitRanked`), whose steps are the bodies of the two loops: `Pin` stops at the first
item that does not fit, `Rank` goes on behind it.  `Hits` is a search: any order, but the limit
is taken before inactive rows are dropped.  `MemoryChanges` are the writes of requests
and passes, at each await.  `ReportUsage` is atomic, `PruneTraces` the timer; `Look`,
`Reconstructed` and `Metrics` are `reconstruct.ts` and `metrics.ts` as functions of the
state.  The two endpoints differ in the budgets they let through (`McpBudgets`, `HttpBudgets`);
what a caller asks for is a natural number (section 6).

**FaldaRoot**: one FALDA_ROOT on disk (`exists`, `lock` for EMBEDDING.json, `db`,
`wal` for stores whose write-ahead log is still there), the process that serves it
and one offline command at a time.  A store is the dimension of its vector tables
and its embedded rows, each named by the embedder its
vector came from, or bare.  An embedder is what `selectEmbedder` picks, local, onnx or an endpoint
with its settings; EMBEDDING.json records only the model's name and the dimension of one (`Name`, `Dim`),
and `Matches` compares no more, so that two embedders may look alike (`LooksAlike`).
`Boot`, `BootFirst`/`LockWritten` and `BootWithoutRoot`
are the branches of `enforceEmbeddingLock` in the order `buildRuntime` makes its
calls; the manifest is written in place, so there is a truncated one in
between (`Torn`), which counts as none.  `reembed` takes the selected stores one
by one: drop, create, one row at a time, close, and the manifest at the end.
`backup` may run beside the server; it reads the dimension, copies the stores,
then the manifest, and is complete with its own manifest.  `restore` copies the
root's files first and a store a step.  `CommandDies` and `Crash` may strike at each
step.  `trusted` is a history variable: nothing has happened that EMBEDDING.json
cannot tell (section 6 lists what that excludes).  `reembed` and `restore` run with
the server stopped, as `docs/OPERATIONS.md` requires; the code does not enforce it.
A store that is only read is not opened here, a restored file is whole or not there,
and a left-over log is replayed over a store as a whole or not at all.

**Pools**: `pools.json` (`reg`), the token file, the cached handles, and the stores
by path.  An address is a tenant and a pool; `PathOf` sends all members of a pool to
one store, `KeyOf` is the key its handle got from whoever opened it first.
Administration changes the files between any two steps; each request reads them
anew (`Authorized`, `Reads`, `Writes`).  `Read` opens a store without changing it,
`Remember`/`Remembered` has an await in between, `Distill` and `DistillTool` are
the two ways to ask for a pass, of which the tool resolves no store.  A pass is at the
grain of its layers: `CommitL1`, `UpdateScenes`, `UpdateCore`, each with its
failure, and requests between them; `PassBreaksOff` is the throw (or the end of the process)
after the L1 commit, which leaves scenes or texts half way `Between` and sets no mark.
What it remembers is filed under the key it runs for (`seen`, `hash`,
`marks`).  The queue is the set `owed`, which `DistillService` justifies.  `writers`,
`turns`, `notes` and `lost` are history variables; `lost` holds the stores that may lag with no mark
to say so, because a pass over a store without marks broke off or because a pass cleared the mark of a
change that came behind its scenes (`Overtaken`), until a pass has been through the scenes again.
A process that ends in a pass is `PassBreaksOff` or `ExtractFails` and then `Restart`.
Left to `DistillPass` and `TopicScenes`: what comes between two awaits of one layer, windows smaller
than the backlog.  Left out: titles in the core's hash, wildcard tokens, files that do not
parse.

The MC modules give values to constants only.

## 3. Runs

All bounds are CONSTANTS or named in the cfg.  `CHECK_DEADLOCK FALSE` stands
where bounded traffic comes to its end and everything is settled.

| run | instance | what it shows |
|-----|----------|---------------|
| `worker_stores` | two stores, one swept; two lanes; three rows; two attempts | the lane stays exclusive; a fresh pending row is unique per store; no wake is lost; a request made during a pass is owed a pass of its own; settled rows are final |
| `worker_restart` | two stores, one lane, two rows, one death, fair | attempts exceed the limit by deaths only and no row is dead-lettered early; the service is implemented across stops, crashes and boots; every row settles, also one that a dead process left running, and every debt is served (`WorkIsServed`) |
| `pass_quiet` | two sessions, two turns, two candidates, one lifecycle write between passes, failing models, fair | no turn is skipped; episodes, narrations and core are current whenever no pass is owed (`LayersCurrent`); in the end none is |
| `pass_busy` | an atom recorded directly, one write or deletion at any await, failing models and embedders, crashes | `CommitsAreSound`: each turn is distilled once, answers never override a status, provenance is inherited, evidence leads to turns that exist; and no hash claims text that was not written |
| `topics` | three atoms and a fourth to be stored, in two clusters; two writes of any kind, one fault, turns that come and go | scenes in service are the clusters; topics keep their ids and a retired one stays retired (`TopicIdsAreStable`); passes reconcile again if they find something to do time and again |
| `consolidation` | up to three candidates, two neighbours, replies of up to two entries, three ways to batch | every plan can be applied and is one that `Plan` of DistillPass allows; every decision is the model's for that candidate; nothing extracted is lost |
| `recall` | three atoms and a scene, budgets of 11 and 22, one report, one change of the memory at any await, three days | budgets and shares are kept and used; a trace is the answer and names no item twice; looked at later it shows exactly what is still in service; every item is counted; reports are final |
| `integrations` | one message with two updates and two failing calls; two prompts, two compactions, two faults; either host, fair | no settled text is lost and each is stored if the host goes on reporting; automatic recall implements its contract; no hook holds up the host |
| `pools` | two tenants, one pool which one of them holds a token for all along and the other at times, three requests, two changes of grants or tokens, one restart | stores bear traces of granted tenants only; a private store that no pass is owed is current and a pool that lags is marked, except those that are `lost` |
| `root` | a self store and a pool, four embedders (three of one dimension, two of these of one name too and `reembed` run for these), one row each, two starts, three commands, one death (the proofs hold for any number) | vectors served are of the server's embedder, and of the table's dimension; backups are coherent; a complete re-embedding unifies |

`seq_reused` and `retry_skips_scenes` are expected to be violated (section 6).

Five of the properties are conjunctions: `WorkIsServed`, `CommitsAreSound`,
`PlanCanBeCarriedOut`, `TopicIdsAreStable` and `LayersCurrent` group statements of one concern, each a
definition of its own with its comment.

*Why these bounds are enough to be interesting.*  Two lanes suffice for two
promises to claim at once; three rows (`worker_stores`) for a store to have a running, a
fresh and a retried one.  Two candidates give updates, merges and conflicts in
one plan; a window smaller than the stream gives passes that leave turns
behind, one as large gives passes that take all.  Two sessions make the scene
loops stop half way.  The similarity matrix of `MCTopicScenes` changes the
clustering when atom 1 goes ({1,2},{3,4} become {2,3,4}), so matching,
reorganization, splitting and retirement happen within two writes; the atoms a request may
give to a scene, {2,3}, are one more, one less or one swapped, and overlap with another scene's.  Two faults
let a call fail again after it was retried.  Messages share nothing but the credentials, so
one suffices.  Two compactions are two processes that may write what they read before the other's
write; two prompts, one that is due and one that must not be again.  Three candidates and
batches of two leave a last batch of one; the replies contain a repeated fact, a candidate that is
another's neighbour, an index out of range, a merge with one atom named twice, and the
lengths make one batch overflow.  The budgets of `recall` are a two-hundredth of the real ones, and
the lengths chosen so that an atom is cut to its cap and still does not fit its
share, and one behind it does; one unpinning or archiving between two reads is
what makes an item appear twice or go stale.  Two stores let a command stop between them; two embedders of one
dimension are those only the manifest can tell apart, a third one that not even it can; three commands are a
backup, a re-embedding and a restore, or an interrupted one, its repetition and one
more; a store's rows differ only in being done or not, so one for each suffices.
Two members of a pool suffice for a handle that is another's; three requests are a turn
each and a lifecycle write, two changes a grant and its withdrawal; a pool is declared with one of two
rosters (`Drafts`), and grants lead from there to those that differ in one access.

`pass_quiet` and `pass_busy` divide what holds.  Scenes are promised current only
in `pass_quiet`: its cfg excludes writes during a pass, hard deletions, deleted turns,
embedding failures and crashes, because each of them really leaves scenes stale
(section 6).  `pass_busy` includes them all and states what nevertheless holds.

A mutant worth knowing: `UpsertRollsBack` makes `upsertScene` a transaction,
the obvious repair of its half-written rows.  `Reconciles` then fails: a scene
with a hard-deleted member can never be retired, since each attempt violates
the foreign key and takes the status back with it.

## 4. Fairness

- *Worker*: weak fairness of the timers, of the steps of a lane that are ready,
  of boot and exit.  `setInterval` and the event loop justify the former; that
  a stopped server is started again is the supervisor's promise.  `Crash` is
  not fair and bounded.  Requests are not fair.
- *Pass*: weak fairness of progress (the worker retries or sweeps a store
  that is owed a pass) and strong fairness of the steps that need the
  model: a call repeated for ever succeeds in the end.  The dead-letter limit is
  not part of this model; a dead row is not the end for a store, for the next sweep
  or request inserts a new one.
- *Topics*: weak fairness of the pass's steps; faults are bounded.  A pass begins only if
  there are unread turns or a mark (`CommitL1`, `core.ts:641-646`), and that these come is not
  assumed of the code: `Reconciles` has for its antecedent that passes with something
  to do begin time and again.  Removing or editing a scene gives them nothing to do, nor does
  a throw over a scene in an unmarked store.  With turns that keep coming the antecedent holds;
  in a store that falls silent what these left behind stays.
- *Consolidation*, *Recall*: none.  A pass that throws is tried again by the worker, which is
  `worker_restart`'s subject; a recall ends or the caller's connection does.
- *Hooks* (`HooksFairSpec`): what capture assumes, and weak fairness of the steps of a
  process that runs, of what resumes when the credentials have been resolved, and of the end of
  a call, which its timer brings about (`RecallEnds`, `CallToolEnds`, `DistillEnds`).
  No call is assumed to be answered and no hook to succeed.  That the credentials are
  resolved, one way or the other, is the host's answer to a request for its
  configuration: nothing in the plugin bounds that wait (section 6).
- *Capture*: weak fairness of awaited calls, credentials and resumed flushes,
  and of the host's report that a message has settled.  The last is a
  condition, not a fact of the code: the plugin has no timer, and what a failed
  call put back waits for the next report.

Passive rows can starve behind explicit ones as long as explicit requests never
cease; the bound on rows ends them in `worker_restart`.

## 5. Proofs

`DistillWorkerProofs` proves, for any stores, lanes, attempt limits, lease and
backoff (assumptions `QueueAssumption`, `WorkerAssumption`: the sets and
numbers are what they seem, and `Backoff` maps attempts to naturals), that the
specification satisfies

- `TypeCorrect`, `LaneIsExclusive` (of `OnePassAtATime`), `FreshRowIsUnique`,
  `AttemptsAreBounded` (of `AttemptsLimited`) and the action property
  `SettledRowIsFinal`.

None of these is inductive alone.  The invariant is `TypeOK`, the lane's
ownership, `ExecutingIsRunning`, and two facts about the table, seen apart from
the worker: what each row's status says of its attempts, and `Within`, which
bounds attempts by what the table's history allows: a running row that nobody
executes has an attempt to account for by a death.  Queue operators are treated
by lemmas about tables (a table stays well formed under enqueue, claim,
completion, failure, recovery), and each action of the worker by a lemma that
says which of them it applies and what it does to the lanes.

It proves from the same invariant that the worker implements
`DistillService` (`WorkerImplementsService`, of `ImplementsService`) and `RequestIsOwed`
(of `RequestsAreOwed`).  The debts of a table are the stores of its unsettled rows that nobody
executes.  Lemmas say what each operation of the queue does to them: a claim takes one off unless
its store has another row, enqueueing adds one though it coalesces, because a row that executes is
not pending, and recovery changes none, because an abandoned row was owed already.  Then each
action of the worker is an acceptance, a beginning, an end, a death or nothing; a request on an
idle worker accepts and begins at once, maybe for another store.

It also proves `WakeIsNotLost` (of `WakeNotLost`).  What makes it inductive is that a row
never attempted is due (`FreshBy`), so a wake pass that finds nothing ready leaves no fresh explicit row
behind; that only rows of the table are signalled; and that only a wake pass loops.

`RecallProofs` proves, for any atoms, scenes, budgets, percentages, caps, retention and bounds
(`RecallAssumption`), while the memory changes at every await:

- `FeedbackStays` (of `FeedbackIsFinal`).  A recall carries the highest id there is and no trace
  bears it until the recall has ended, so filing a trace replaces none; a report contradicts none
  that went before.
- `RecallTypeCorrect`, and `RecallFitsItsBudget` (of `AssemblyWithinBudget`).  `GoodTier` says, for every
  prefix of what was found, what a tier has come to: what it has used is what its items add to those
  of its source and no more than its cap, and it is full exactly if an item is missing;
  `Misfits` says that what it left out would not fit.  What a recall keeps from one read to the
  next (`AfterPinned`, `AfterRanked`) follows, and from that the answer.  The budget needs a floor of at
  least 2 below which the core is not admitted, for `truncate` to a limit below 3 returns a text
  that is longer than the limit; the code's floor is 50 (`context.ts:185`).
- `TracesAreAnswers` (of `TraceIsTheAnswer`).  A tier takes each item once, and the ranking passes over
  all that was pinned at the first read, admitted or not, whatever mark it bears by then; reports and
  pruning change neither what a trace names nor how often (`TraceInv`).
- `TracesAreAccountable` (of `TraceIsAccountable`).  What has been seen of a trace is followed item by
  item (`SoFar`): those shown are those in service, which is what a recall could find now (`Served`), and
  the others are marked stale; a breakdown whose keys are distinct and leave no row out
  adds up to the rows (`CellsAddUp`).  The ranks leave none out because a trace names no item twice,
  so it has no more items than there are things to refer to.

`IntegrationsProofs` proves of capture, for any messages and any number of updates and faults,
`CaptureTypeCorrect`, `CallIsSingle` and `TurnIsNotLost`.  `TurnNotLost` alone
is not inductive: the text that a failed call puts back overwrites a later one,
so the proof needs a bound on every copy of the text (`IsDue`, `CallsOK`), what
holds before a message is due (`NotDue`), and that a call belongs to a message
that is flushed and has ended.

The same module proves of both plugins, for any messages, settings, prompts, compactions and faults,
`HooksImplementAutoRecall` (the refinement `ImplementsAutoRecall`), `AttemptsAreOwed` (there are no more
attempts than reasons and faults) and `TurnIsNotLostInSession`.  The refinement needs an
invariant over processes that have read the file and not yet written it
(`HooksInv`): the hook of a prompt goes on to write only if it met a session that was due, and the session
still is, because all that others may have written since is a compaction; and a
compaction's hook runs only where compactions are a reason, so whatever it read,
what it writes leaves the session due.  This is why replacing the whole file without a lock is
harmless.  Capture's invariant is preserved by the other hooks, whose only effect on its state is
to ask for the credentials.

`FaldaRootProofs` proves, for any stores, embedders, names, dimensions and bounds
(`RootAssumption`), also where embedders share name and dimension,
`RootTypeCorrect`, `ServedVectorsAgree`, `PacksAgree` and the
action property `ReembedIsComplete`.  `ServedVectorsMatch` speaks of the moment a
server is up; the invariant must say why it was let in: its embedder matches the manifest, and as
none that only looks like the manifest's was ever let in, it is the manifest's own.  `LockIsTrue` says what
a trusted manifest means when no server is there; `TablesReady` and `Rebuilt` follow
a re-embedding through its stores, those done and the one at hand;
`CopyIsCoherent` follows a backup, which stays right beside a server that writes
because the manifest is copied after the stores and an embedder, once locked,
does not change while a backup runs; `RestoreIsCoherent` says that the stores not
yet copied back agree with the manifest already in place.  Each action has a
lemma, and within it a step for each part it can disturb.

`PoolsProofs` proves, for any tenants, pools, token files and bounds (`PoolsAssumption`),
`PoolsTypeCorrect`, `IsolationHolds` and `NoLagUnseen` (of `LagIsSeen`, which is
`SelfIsCurrent` and `StaleIsMarked` together).  The
invariant adds to isolation that only writers have a call or a pass under way
(`PassOK`, `WritersOK`: a grant may be gone when the answer comes, which is why the history is
needed), and follows a store through a pass: `LagOK` says that one that lags is
lost, has a mark that the running pass will not clear (`Lasting`) or has the pass at work on its
scenes; `MarksOK` that a private store is marked by its owner only, so that its own pass finds the
mark; `SelfOK` why a pass that has nothing to do may return, and `HashOK` that
the hash filed in a private store is that of the core there.  A pass that breaks off
makes the store lost unless it was marked, and then the mark is still there.

`DistillPassProofs` proves, for any atoms, sessions, turns and bounds (`StoreAssumption`,
`PassAssumption`), of a pass whose steps any request, failure or crash may come between:

- `PassTypeCorrect` and `HashStandsForText` (of `HashIsNarrated`).
- `L1IsSound` (of `CommitsAreSound`).  `WindowInv` says that an id stands for one turn in stream and
  window, that the window lies beyond the watermark and was never distilled, and that
  what was distilled and is still there does not.
- `NoTurnIsSkipped` (of `NothingSkipped`), where turns are not deleted: with deletions it is
  false (`seq_reused`, section 6).  `SkipInv` says that the watermark is the seq of a turn that is
  there and that a window leaves no gap: of the turns after the watermark it has every one
  up to its last.
- `LayersFollowAtoms` (of `LayersCurrent`), under the conditions of `pass_quiet`: nothing is written
  during a pass, only model calls fail, no atom is hard-deleted.  Each is needed.  A mark set
  during a pass is lost with it and a pass that dies after L1 leaves none (section 6); after the
  hard delete of a session's last members its scene makes the next pass throw, behind a commit
  that left the store clean (hazard `core.ts:1106`).  `LayerInv` follows the layers through the pass:
  the episodes done so far, then all of them, then those narrated unless a call failed, then a core
  made from them; and while the store is neither marked nor in a pass that will make up for it, all of it.

`ConsolidationProofs` proves, for any atoms, settings, replies and faults (`ConsolidationAssumption`),
`PlanTypeCorrect`, `ThePlanIsSound`, `EveryDecisionIsTheModels`, `NoCandidateIsLost` and the refinement
(`PlanningIsOneStep`, and with `ThePlanIsSound` `ThePlanIsCarriedOut`, of `PlanCanBeCarriedOut`), which
alone needs that the replies are of bounded length (`CandidatesAssumption`, as `MaxCandidates` is a
parameter of DistillPass).  The parsers and the
packing are recursive functions; that each is defined for every index, by its equation, is proved
once (`Recursion`, from the least index at which it would fail, `LeastNat`), so that facts about the
lists they return follow by the same argument.  `Tiles` says that batches follow one another from a
candidate to a candidate, which makes their concatenation what it should be for both ways of packing.
The invariant says, by the phase, which candidates have been asked about (`BatchInv`), that what was
said about one is the reply its decision was read from (`SaidInv`), that a decision is one the parser
could return for that candidate (`DecisionInv`), and that those settled claim nothing twice
(`SettledInv`): a candidate is asked again without what its predecessors consumed, so its new decision cannot
claim it.  For the refinement the invariant `SeenInv` keeps that there are no more candidates than the
reply has objects and that each was shown what a search finds; a finished plan is then in
`Pass!PlansOn` (`APlanOfThePass`), a throw is `Pass!PlanningFails`, and all else the pass cannot see.

`TopicScenesProofs` proves, for any atoms, similarities, thresholds and bounds (`TopicAssumption`):

- `ClustersPartition`: `clusterAtoms` loses no atom and puts none into two clusters.  An atom is a
  founder or near an earlier one; of those there is a most similar and, among equals, a first.
- `TopicTypeCorrect`, and `TopicsAreClusters` (of `TopicsMatchClusters`).  What is inductive says, for a pass
  in the middle: the scenes in service other than those the loop has still to visit (`Placed`) have
  exactly the clusters no longer to be placed, one each (`PlacedInv`); a scene still to be visited is
  in service as long as nobody else writes (`StillInv`); and narration writes back the members a scene
  has (`CleanInv`).
- `TopicsKeepTheirIds` (of `TopicIdsAreStable`), for the program's own match threshold, a half
  (`core.ts:72`; no caller sets another).  `IdInv` says that a scene mostly shared by a cluster waits until
  that cluster is placed, because no other cluster can match it and the cluster can be given no other, which are
  lemmas about cardinalities (`GivenTo`).  With a lower threshold another cluster may take the scene
  first, with a higher one the scene need not match.

Only model-checked: all liveness (fairness and ENABLED are out of the prover's
reach).

## 6. Where the code and its documentation differ

Two runs are expected to be violated; each finding in `PROJECT.json` quotes the
claim.

- `seq_reused`: deleting the newest turn lets its seq be given out again, at or
  below the watermark, and the new turn is never read (`falda.ts:497`).
- `retry_skips_scenes`: a pass on a clean store that throws after its L1 commit
  leaves no mark, and its retry returns early.

Three more that the models exclude by their configuration or by a history variable:

- A mark set while a pass runs is cleared by that pass (`core.ts:1501`), so a
  change made during it waits for the next one; `watermark.ts:115-116` says that the mark
  means that L2 and L3 run on the next pass.  `pass_quiet` therefore has writes between
  passes only; `pools` has such writes, and excepts the stores they hit (`lost`), as it
  does those of `retry_skips_scenes`.
- EMBEDDING.json is written before the root exists: the first start on a missing root
  runs without it (`boot.ts:122`, `runtime.ts:101-108`), and the next one, with another
  model, is let through, against `boot.ts:5-6`.  `docs/OPERATIONS.md:198-201` advises to
  verify that the file exists.  `FaldaRoot` has that start (`BootWithoutRoot`), and it ends `trusted`.
- EMBEDDING.json records FALDA_EMBED_MODEL, empty if unset, and the dimension (`boot.ts:116-128`), and
  neither FALDA_EMBED nor the endpoint, by which `selectEmbedder` picks the embedder
  (`boot.ts:33-49`).  A root first served by the local default is served by onnx, or by a remote
  endpoint, with the model unset and the dimension 768, and their vectors are mixed, against
  `boot.ts:3-6`.  `FaldaRoot` has that start (`Boot` with `LooksAlike`), and it ends `trusted`; a
  complete re-embedding restores it.

What else takes `trusted` away in `FaldaRoot`, that is, what the manifest cannot tell:

- A re-embedding that is scoped to one store rewrites the root's manifest for all
  of them; one that breaks off leaves the old manifest over new vectors.  A
  server of the embedder named starts on the mixture.  A complete unscoped
  one restores trust (`ReembedUnifies`).
- A restore over an existing root compares the dimension only, so stores that
  are not in the backup may be of another embedder of the same dimension.
- A `-wal` left by a killed process is not removed by a restore, and SQLite
  replays it over the restored file.

A manifest that a first start truncated is treated as missing and so locked by
whoever starts next; that mixes nothing, for no store has been served yet.
`root_dim` of a backup is read before EMBEDDING.json is copied, so a backup taken
during a first start has the one without the other.

Met while modelling, without a run of their own:

- Coalescing (`worker.ts:21-22`) allows more than one pending row per store: a
  row in backoff beside a fresh one (`queue.ts:202`).  `OneFreshRowPerStore`
  states what holds.
- The attempt ceiling (`docs/MODEL.md:1039-1041`) is checked when a pass fails,
  not when its process dies: `AttemptsLimited` allows one attempt for each death.
- An episode whose session has no evidence left is not visited and stays active
  (`core.ts:1106`).
- The title of a narration whose second call fails is stored, the summary and
  hash are not (`core.ts:1354-1357`).
- Lifecycle writes overwrite terminal statuses (`falda.ts:708`;
  `docs/MODEL.md:270` calls them final).
- `docs/MODEL.md:675-676` gives a merged topic's scene a `superseded_by`; a scene
  retired because its atoms joined another gets none, and a split is not
  recorded in `derived_from`.  The ids that `TopicIdsAreStable` promises are
  those of topics that kept most of their atoms.
- A pass that breaks off between creating a reorganized scene and retiring its
  ancestor leaves both in service, and in a store without a mark no mark either.
  `Reconciles` shows that passes repair it, but only one that finds new turns or a mark.
- A scene removed by a request during narration is written back from the
  snapshot, and the request marks nothing; again it takes a pass that has something to do.
- `recordPart` (`falda-capture.ts:13-15` says it accumulates) keeps only the
  last text part of a message.
- A tool that answers with an error does not throw, so a refusal before the row
  is written loses the turn: `TurnNotLost` excepts `refused`.
- After a failed flush that a settle report had begun, a later text update
  alone does not deliver, since the role was never marked settled
  (`capture-flush.ts:16-18` says it does); another settle report does.
- A failed embedding leaves a turn without a vector, and the retry, finding
  the key taken, counts as a success.
- When a fact changes back, the candidate is the atom that was superseded before, by
  its id, and keeps that status (`falda.ts:698`, "preserve"); it supersedes the
  present one, and neither is in service (`docs/MODEL.md:873`: a new atom is
  recorded that supersedes the old one).
- The handle of a pool keeps the key of whoever opened it first, so a lifecycle
  write of another member marks the store under that key, and a pass of the
  member's own returns early (`pools.ts:281-285` says the key matches the one that
  sweep and queue use).  `StaleIsMarked` states what holds: some member's mark is
  there.  The sweep looks at private stores only, so a pool waits for a request.
- `core_state` is kept per key in a store that is shared: a member's pass takes the
  core for current by its own last hash although another has overwritten it, which
  is why `SelfIsCurrent` speaks of private stores.  So is the watermark: each
  member's pass extracts the pool's turns again (`docs/POOLS.md:171-176` defers the
  distillation of pools, yet `/distill` and `falda_distill` accept one).
- `falda_distill` queues a row for any pool the token names, also for a reader; the
  row fails when the pass resolves the store for writing.

- *Model replies.*  A line that does not begin with a brace is prose, so a bulleted object,
  or an array on a line of its own behind some prose, is dropped and the rest accepted: the
  strictness of `core.ts:132-142` is that of lines that begin with one.  A batch
  reply for whose array no index is in range is read line by line.
- A candidate whose own atom was consumed by an earlier candidate of the same pass is
  stored under an id that is out of service (the case above, within one pass).
- *Recall.*  The HTTP endpoint caps the budget it is given and checks nothing else (`gateway.ts:224`).
  One below zero, or one that is not a number, with which no comparison of `context.ts`
  holds an atom or a scene back, is not in `Recall`: `AssemblyWithinBudget` speaks of natural numbers, and of the texts
  of the items, without the headings under which they are rendered.
- `falda_recall` passes its default budget on unclamped, while
  `docs/MCP.md:124` says that it is clamped either way.  `truncate` to a limit
  below three, an item cap configured so low, makes a text longer (`context.ts`).
- The searches take the best `limit` rows and drop inactive ones afterwards
  (`falda.ts:1142`), so that inactive rows crowd active ones out.
- A pinned atom that did not fit the pinned share is not ranked either: it is passed
  over by its id.  That ends its chance, although the spilled budget might take it.
- A core that was synthesized again since is shown with its new text and not marked
  stale (`reconstruct.ts:11-14` and `docs/OPERATIONS.md:589-592` say it is).
  `TraceIsAccountable` states what the code does: of the core, whether there is one.
- *Hooks.*  `falda-capture.ts:352` says that the hook of a prompt never blocks the turn,
  but `getCreds` is awaited outside the timeout; `NeverBlocks` therefore assumes that the host
  answers for its configuration.  One failed answer is memoized, as is `disabled`:
  the plugin is then off until the host restarts, while the comment on a flush without credentials
  says it is retried on the next event.
- The first prompt consumes the session's recall even if it has no text to ask for.
- The hooks that capture are `async` (`hooks.json`): the assistant's text may be stored before
  the prompt it answers.  Two `Stop` events under one `prompt_id` have one key, so the
  second text is discarded.

## 7. Not modelled

Routing, error codes and formatting of gateway and MCP; the wording of prompts and the
text of replies (`Consolidation` has what the parsers tell apart); the
embedder's and the model's clients (a call answers or fails); schema
migrations; inspection, statistics, metrics and audit tables, on which no decision
depends; `src/analysis`, `src/deck`, `src/bin`.

Of recall: the modes other than the default shares, the snapshot of the policy in a trace,
the column that separates stores, the search of atoms that predates `falda_recall`.
Of the hooks: Claude Code's single calls for captured turns and for a pass, which nothing follows
up, and a restart of the opencode plugin within a session, which forgets its notes.

## 8. Plan

Done, in this order, the core first: queue and worker with the abstract
service; the worker's proofs; store and pass; topic scenes; capture and its proofs;
the root with its lock and commands, and its proofs; pools with the passes on them,
and their proofs; recall; the replies and the plan made from them; the hooks of both
hosts beside capture, with their contract and its proof; the refinement of the service,
the wake latch and the feedback on recalls, proved; the pass, the plan and
the topics, proved; the assembly of a recall and its traces, proved; the making of the plan as
a refinement of the pass, proved.
Left, for whoever goes on: the
retry of a plan across windows, that is `Consolidation` with its rounds, composed with
the passes of `DistillPass` rather than with one planning step; migrations and statistics.
