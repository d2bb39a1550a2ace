--------------------------- MODULE DistillWorker ----------------------------
(***************************************************************************)
(* The background worker of src/distill/worker.ts over the job queue: the  *)
(* exclusive lane shared by the timed drain and the wake drain, the wake   *)
(* latch, the sweep, shutdown, and the deaths and restarts of the process  *)
(* that leases and recoverStaleJobs exist for.                             *)
(*                                                                         *)
(* JavaScript runs a handler without interruption up to its next await, so *)
(* an action is one such segment.  A lane stands for a promise created by  *)
(* acquireAndRun; nothing but the test of inFlight keeps two of them from  *)
(* being active at once.  Here a pass just succeeds or fails.              *)
(***************************************************************************)
EXTENDS DistillQueue

CONSTANTS
  SelfStores,      \* the stores the sweep discovers (listSelfTenants)
  Lanes,           \* promises that may be outstanding
  NoLane,          \* inFlight = null
  NoStore,         \* no pass is running
  MaxWakeDrain,    \* MAX_WAKE_DRAIN_PER_CALL
  MaxRows,         \* bound: rows the table may hold
  MaxBoots         \* bound: times the process is started

ASSUME WorkerAssumption ==
  /\ SelfStores \subseteq Stores
  /\ NoLane \notin Lanes
  /\ NoStore \notin Stores
  /\ MaxWakeDrain \in Nat \ {0}
  /\ MaxRows \in Nat
  /\ MaxBoots \in Nat

VARIABLES
  proc,            \* the process: down, up, or stopping
  boots,           \* times it was started
  inFlight,        \* the lane's promise, or NoLane
  wakeRequested,   \* the wake latch
  pc,              \* where each promise is
  kind,            \* the work it was created for: drain or wake
  job,             \* the row it claimed last (0: none)
  drained,         \* runWakePass's loop counter i
  signalled        \* history: rows a request of this process called wake() for

vars == <<rows, now, proc, boots, inFlight, wakeRequested, pc, kind, job,
          drained, signalled>>

Kind == {"drain", "wake"}
Pc   == {"idle",       \* not created, or settled
         "running",    \* awaiting distillOnce
         "next",       \* runWakePass, between two iterations of its loop
         "releasing"}  \* work() has resolved, finally has not run yet

TypeOK ==
  /\ rows \in Seq(Job)
  /\ now \in Nat
  /\ proc \in {"down", "up", "stopping"}
  /\ boots \in Nat
  /\ inFlight \in Lanes \cup {NoLane}
  /\ wakeRequested \in BOOLEAN
  /\ pc \in [Lanes -> Pc]
  /\ kind \in [Lanes -> Kind]
  /\ job \in [Lanes -> Nat]
  /\ drained \in [Lanes -> Nat]
  /\ signalled \subseteq Nat

Executing(j) == \E l \in Lanes : pc[l] = "running" /\ job[l] = j

-----------------------------------------------------------------------------
\* The lane.

\* Mutant: both drains claim explicit rows only.
FloorExplicit(k) == EXPLICIT

\* The priority floor of the claim: a wake pass leaves passive rows alone.
Floor(k) == IF k = "wake" THEN EXPLICIT ELSE PASSIVE

\* claimNext on table tbl and, if it finds a row, runJob up to its await.
ClaimOrYield(l, k, tbl) ==
  \/ \E j \in First(tbl, Floor(k)) :
       /\ rows' = Claimed(tbl, j)
       /\ job'  = [job EXCEPT ![l] = j]
       /\ pc'   = [pc EXCEPT ![l] = "running"]
  \/ /\ Ready(tbl, Floor(k)) = {}
     /\ rows' = tbl
     /\ pc'   = [pc EXCEPT ![l] = "releasing"]
     /\ UNCHANGED job

\* acquireAndRun(work), with the synchronous prefix of work.
Acquire(l, k, tbl) ==
  /\ inFlight' = l
  /\ kind'     = [kind EXCEPT ![l] = k]
  /\ drained'  = [drained EXCEPT ![l] = 0]
  /\ ClaimOrYield(l, k, tbl)

\* Mutant: the lane is not tested.
LaneUntested(l) == pc[l] = "idle"

\* acquireAndRun's guard: no lane is held, and a promise is there to create.
LaneFree(l) == inFlight = NoLane /\ pc[l] = "idle"

\* The drain timer: one ready row, whatever its priority.
Drain(l) ==
  /\ proc = "up"
  /\ LaneFree(l)
  /\ Acquire(l, "drain", rows)
  /\ UNCHANGED <<now, proc, boots, wakeRequested, signalled>>

\* runJob after distillOnce: completeJob, or failJob if anything threw.
PassEnds(l) ==
  /\ pc[l] = "running"
  /\ rows' \in {Completed(rows, job[l]), Failed(rows, job[l])}
  /\ pc' = [pc EXCEPT ![l] = IF kind[l] = "wake" THEN "next" ELSE "releasing"]
  /\ UNCHANGED <<now, proc, boots, inFlight, wakeRequested, kind, job, drained,
                 signalled>>

\* runWakePass's next iteration, or its end at the bound or at shutdown.  A
\* pass cut short at the bound leaves the rest to the drain timer.
NextWake(l) ==
  /\ pc[l] = "next"
  /\ drained' = [drained EXCEPT ![l] = @ + 1]
  /\ IF drained[l] + 1 < MaxWakeDrain /\ proc = "up"
     THEN ClaimOrYield(l, "wake", rows) /\ UNCHANGED signalled
     ELSE /\ pc' = [pc EXCEPT ![l] = "releasing"]
          /\ signalled' = IF wakeRequested THEN signalled ELSE {}
          /\ UNCHANGED <<rows, job>>
  /\ UNCHANGED <<now, proc, boots, inFlight, wakeRequested, kind>>

\* A settled promise's locals are gone.
Settled(l) ==
  /\ pc'      = [pc EXCEPT ![l] = "idle"]
  /\ kind'    = [kind EXCEPT ![l] = "drain"]
  /\ job'     = [job EXCEPT ![l] = 0]
  /\ drained' = [drained EXCEPT ![l] = 0]

\* The finally block: free the lane, and serve a latched wake in the same
\* segment unless shutdown has started.
Release(l) ==
  /\ pc[l] = "releasing"
  /\ IF wakeRequested /\ proc = "up"
     THEN wakeRequested' = FALSE /\ Acquire(l, "wake", rows)
     ELSE /\ inFlight' = NoLane
          /\ Settled(l)
          /\ UNCHANGED <<rows, wakeRequested>>
  /\ UNCHANGED <<now, proc, boots, signalled>>

-----------------------------------------------------------------------------
\* Requests, sweeps and time.

\* Mutant: a wake that finds the lane busy is dropped.
WakeIfFree(tbl) ==
  \/ \E l \in Lanes :
       LaneFree(l) /\ Acquire(l, "wake", tbl) /\ UNCHANGED wakeRequested
  \/ /\ inFlight # NoLane
     /\ rows' = tbl
     /\ UNCHANGED <<wakeRequested, inFlight, pc, kind, job, drained>>

\* wake() on table tbl: run a wake pass now if the lane is free, latch the
\* request if it is not.
Wake(tbl) ==
  \/ \E l \in Lanes :
       LaneFree(l) /\ Acquire(l, "wake", tbl) /\ UNCHANGED wakeRequested
  \/ /\ inFlight # NoLane
     /\ wakeRequested' = TRUE
     /\ rows' = tbl
     /\ UNCHANGED <<inFlight, pc, kind, job, drained>>

\* POST /distill and falda_distill: enqueue, then wake().
Request(s) ==
  /\ proc = "up"
  /\ Len(rows) < MaxRows
  /\ \E tbl \in Enqueued(rows, s, EXPLICIT) :
       Wake(tbl) /\ signalled' = signalled \cup Pending(tbl, s)
  /\ UNCHANGED <<now, proc, boots>>

\* A request still in flight while the server closes: its row is written, and
\* wake() returns at once.
LateRequest(s) ==
  /\ proc = "stopping"
  /\ Len(rows) < MaxRows
  /\ rows' \in Enqueued(rows, s, EXPLICIT)
  /\ UNCHANGED <<now, proc, boots, inFlight, wakeRequested, pc, kind, job,
                 drained, signalled>>

\* The sequences that list each element of S once.
Orders(S) ==
  {o \in [1..Cardinality(S) -> S] :
     \A i, k \in 1..Cardinality(S) : o[i] = o[k] => i = k}

\* enqueueAll over the self stores found to need a pass, in some order: a
\* store with a pending row is left as it is, every other one gets a row.
\* Which stores need one is DistillPass's subject; a gate check that fails
\* enqueues the store too.
Swept(tbl, S) ==
  {tbl \o [i \in DOMAIN o |-> FreshRow(o[i], PASSIVE)] :
     o \in Orders({s \in S : Pending(tbl, s) = {}})}

Sweep ==
  /\ proc = "up"
  /\ \E S \in SUBSET SelfStores : rows' \in Swept(rows, S)
  /\ Len(rows') <= MaxRows
  /\ UNCHANGED <<now, proc, boots, inFlight, wakeRequested, pc, kind, job,
                 drained, signalled>>

\* Time passes.  It is observed only while a backoff or a lease is running.
Tick ==
  /\ \E j \in DOMAIN rows :
       \/ rows[j].status = "pending" /\ now < rows[j].due
       \/ rows[j].status = "running" /\ now <= rows[j].lease
  /\ now' = now + 1
  /\ UNCHANGED <<rows, proc, boots, inFlight, wakeRequested, pc, kind, job,
                 drained, signalled>>

-----------------------------------------------------------------------------
\* The process.

\* startDistiller: recover, sweep, arm the timers.
Boot ==
  /\ proc = "down"
  /\ boots < MaxBoots
  /\ \E S \in SUBSET SelfStores : rows' \in Swept(Recovered(rows), S)
  /\ Len(rows') <= MaxRows
  /\ proc' = "up"
  /\ boots' = boots + 1
  /\ UNCHANGED <<now, inFlight, wakeRequested, pc, kind, job, drained, signalled>>

\* SIGTERM: stopping is set and the timers are cleared.  The last process
\* the bound allows is not stopped.
Stop ==
  /\ proc = "up"
  /\ boots < MaxBoots
  /\ proc' = "stopping"
  /\ UNCHANGED <<rows, now, boots, inFlight, wakeRequested, pc, kind, job,
                 drained, signalled>>

\* Whatever ends the process, its memory is gone and the table stays.
MemoryLost ==
  /\ proc' = "down"
  /\ inFlight' = NoLane
  /\ wakeRequested' = FALSE
  /\ pc'      = [l \in Lanes |-> "idle"]
  /\ kind'    = [l \in Lanes |-> "drain"]
  /\ job'     = [l \in Lanes |-> 0]
  /\ drained' = [l \in Lanes |-> 0]
  /\ signalled' = {}
  /\ UNCHANGED <<rows, now, boots>>

\* stop() returns, the lane settled or not: shutdownGraceMs bounds its wait.
Exit == proc = "stopping" /\ MemoryLost

\* A crash, kill -9, or a second signal.
Crash == proc = "up" /\ boots < MaxBoots /\ MemoryLost

Init ==
  /\ rows = <<>>
  /\ now = 0
  /\ proc = "down"
  /\ boots = 0
  /\ inFlight = NoLane
  /\ wakeRequested = FALSE
  /\ pc      = [l \in Lanes |-> "idle"]
  /\ kind    = [l \in Lanes |-> "drain"]
  /\ job     = [l \in Lanes |-> 0]
  /\ drained = [l \in Lanes |-> 0]
  /\ signalled = {}

Next ==
  \/ \E l \in Lanes : Drain(l) \/ PassEnds(l) \/ NextWake(l) \/ Release(l)
  \/ \E s \in Stores : Request(s) \/ LateRequest(s)
  \/ Sweep \/ Tick
  \/ Boot \/ Stop \/ Exit \/ Crash

Spec == Init /\ [][Next]_vars

\* The timers fire, the event loop turns, a pass ends one way or the other, a
\* stopped server exits and is started again.
Liveness ==
  /\ WF_vars(Tick)
  /\ WF_vars(Boot)
  /\ WF_vars(Exit)
  /\ \A l \in Lanes :
       /\ WF_vars(PassEnds(l))
       /\ WF_vars(NextWake(l))
       /\ WF_vars(Release(l))
  /\ WF_vars(\E l \in Lanes : Drain(l))

FairSpec == Spec /\ Liveness

-----------------------------------------------------------------------------
\* Properties.

\* Times a process has ended so far.
Deaths == IF proc = "down" THEN boots ELSE boots - 1

\* The lane is exclusive: a promise that has not settled is the one inFlight
\* names, so no two passes of one process overlap (acquireAndRun's claim).
LaneExclusive ==
  \A l \in Lanes : pc[l] # "idle" => inFlight = l

\* What a lane executes is a running row: nothing else, neither a reclaim nor
\* a recovery, ends a row while its pass runs.
ExecutingIsRunning ==
  \A l \in Lanes :
    pc[l] = "running" => job[l] \in DOMAIN rows /\ rows[job[l]].status = "running"

\* One pass at a time, of a row that is its own until it ends.
OnePassAtATime == LaneExclusive /\ ExecutingIsRunning

\* Coalescing: of the rows of a store that were never attempted, one at most
\* is pending.
OneFreshRowPerStore ==
  \A j, k \in DOMAIN rows :
    /\ rows[j].status = "pending" /\ rows[k].status = "pending"
    /\ rows[j].attempts = 0 /\ rows[k].attempts = 0
    /\ rows[j].store = rows[k].store
    => j = k

\* A row is attempted beyond MAX_ATTEMPTS only as often as a process died,
\* and a row waiting for an attempt has spent at least one less.
AttemptsBounded ==
  \A j \in DOMAIN rows :
    /\ rows[j].attempts <= MaxAttempts + Deaths
    /\ rows[j].status = "pending" => rows[j].attempts < MaxAttempts + Deaths

\* A dead-lettered row has used up its attempts.
DeadIsExhausted ==
  \A j \in DOMAIN rows :
    rows[j].status = "dead" => rows[j].attempts >= MaxAttempts

\* failJob's limit is reached neither too late nor too early.
AttemptsLimited == AttemptsBounded /\ DeadIsExhausted

\* A fresh explicit row that this process was woken for waits to be claimed.
Woken(j) ==
  /\ proc = "up"
  /\ j \in signalled
  /\ rows[j].status = "pending"
  /\ rows[j].attempts = 0
  /\ rows[j].priority = EXPLICIT

\* No wake is lost: such a row waits behind a wake pass that is still claiming,
\* or behind the latch (wake() on a busy lane, Release on a latched one).
WakeNotLost ==
  \A j \in signalled :
    Woken(j) =>
       /\ inFlight # NoLane
       /\ \/ wakeRequested
          \/ kind[inFlight] = "wake" /\ pc[inFlight] \in {"running", "next"}

\* A settled row is final, and no row ever loses an attempt or its store.
SettledIsFinal ==
  [][\A j \in DOMAIN rows :
       /\ j \in DOMAIN rows'
       /\ Terminal(rows[j]) => rows'[j] = rows[j]
       /\ rows'[j].store = rows[j].store
       /\ rows'[j].attempts >= rows[j].attempts]_vars

\* Every row is settled in the end, done or dead-lettered, whatever process
\* it was claimed by.
EveryRowSettles ==
  \A j \in 1..MaxRows :
    (j \in DOMAIN rows) ~> (j \in DOMAIN rows /\ Terminal(rows[j]))

\* The worker implements the service: a store is owed a pass while it has a
\* row that waits, or one that a dead process left running.
OwedStores ==
  {rows[j].store : j \in {i \in DOMAIN rows :
                            /\ ~Terminal(rows[i])
                            /\ ~Executing(i)}}

ActiveStore ==
  IF inFlight # NoLane /\ pc[inFlight] = "running"
  THEN rows[job[inFlight]].store
  ELSE NoStore

Service == INSTANCE DistillService WITH owed <- OwedStores, active <- ActiveStore

\* A request accepted for a store whose pass is running is not satisfied by
\* that pass: another one is owed, or begins with the request.
RequestsAreOwed ==
  [][\A s \in Stores :
       Request(s) \/ LateRequest(s) =>
         s \in OwedStores' \/ (ActiveStore = NoStore /\ ActiveStore' = s)]_vars

\* No accepted request or sweep is forgotten, coalesced into a pass that had
\* begun before it, or run beside another pass, across failures and deaths.
ImplementsService == Service!Spec

\* And each debt is served in the end.
ServesEveryDebt == Service!EveryDebtServed

\* Work that was accepted gets done: no row stays unsettled, in backoff, behind rows
\* of a higher priority or in the name of a process that died, and no store stays
\* owed (worker.ts:281-307, queue.ts:163-244).
WorkIsServed == EveryRowSettles /\ ServesEveryDebt
=============================================================================
