---------------------------- MODULE DistillQueue ----------------------------
(***************************************************************************)
(* The priority job queue of src/distill/queue.ts: the table distill_jobs  *)
(* and the statements that read and change it.                             *)
(*                                                                         *)
(* Every operation is a function of the table, or the set of the tables it *)
(* may leave, because callers run several of them in one uninterrupted     *)
(* segment (a request enqueues and claims, a boot recovers and sweeps).    *)
(* DistillWorker turns them into actions.                                  *)
(*                                                                         *)
(*  - A row's id is its rowid: its index in the table.                     *)
(*  - now is the wall clock.  Only the order of now, due and lease is      *)
(*    observed.                                                            *)
(*  - A NULL lease_until is NoLease, which every lease test takes for      *)
(*    expired, as the SQL does.                                            *)
(*  - error, origin, worker_id and the creation and update times are left  *)
(*    out: no statement of the queue decides on them.                      *)
(***************************************************************************)
EXTENDS Integers, Sequences, FiniteSets

CONSTANTS
  Stores,       \* store keys "<tenant>:<pool>"
  MaxAttempts,  \* MAX_ATTEMPTS
  LeaseTime,    \* leaseMs, in clock units
  Backoff       \* backoff after the n-th attempt, in clock units

ASSUME QueueAssumption ==
  /\ IsFiniteSet(Stores)
  /\ MaxAttempts \in Nat \ {0}
  /\ LeaseTime \in Nat
  /\ Backoff \in [1..MaxAttempts -> Nat]

VARIABLES
  rows,         \* the table distill_jobs, in rowid order
  now           \* the wall clock

PASSIVE  == 0
EXPLICIT == 10
Priority == {PASSIVE, EXPLICIT}

NoLease == -1

Status == {"pending", "running", "done", "dead"}

Job == [store    : Stores,
        status   : Status,
        attempts : Nat,
        due      : Nat,                   \* next_attempt_at
        lease    : Nat \cup {NoLease},    \* lease_until
        priority : Priority]

\* failJob's backoff after attempt n: doubling from base up to cap.
ExponentialBackoff(base, cap, n) ==
  LET doubled == base * 2^(n - 1) IN IF doubled < cap THEN doubled ELSE cap

-----------------------------------------------------------------------------
\* Reading a table tbl.

\* Mutant: a running row counts as pending work too.
PendingOrRunning(tbl, s) ==
  {j \in DOMAIN tbl : tbl[j].store = s /\ ~(tbl[j].status \in {"done", "dead"})}

Pending(tbl, s) ==
  {j \in DOMAIN tbl : tbl[j].store = s /\ tbl[j].status = "pending"}

Terminal(row) == row.status \in {"done", "dead"}

Abandoned(row) == row.status = "running" /\ row.lease < now

\* readyClause, with the floor of ClaimOptions.minPriority.
Ready(tbl, floor) ==
  {j \in DOMAIN tbl :
     /\ tbl[j].priority >= floor
     /\ \/ tbl[j].status = "pending" /\ tbl[j].due <= now
        \/ Abandoned(tbl[j])}

\* ORDER BY priority DESC, next_attempt_at ASC, rowid ASC
Before(tbl, j, k) ==
  \/ tbl[j].priority > tbl[k].priority
  \/ /\ tbl[j].priority = tbl[k].priority
     /\ \/ tbl[j].due < tbl[k].due
        \/ tbl[j].due = tbl[k].due /\ j < k

First(tbl, floor) ==
  {j \in Ready(tbl, floor) :
     \A k \in Ready(tbl, floor) \ {j} : Before(tbl, j, k)}

-----------------------------------------------------------------------------
\* Changing it.

FreshRow(s, p) ==
  [store |-> s, status |-> "pending", attempts |-> 0, due |-> now,
   lease |-> NoLease, priority |-> p]

\* enqueue on a pending row: only its priority may rise, its backoff is kept.
Raised(tbl, j, p) ==
  IF p > tbl[j].priority THEN [tbl EXCEPT ![j].priority = p] ELSE tbl

\* Mutant: a request of higher priority gets a row of its own.
EnqueuedBeside(tbl, s, p) ==
  IF \A j \in Pending(tbl, s) : p > tbl[j].priority
  THEN {Append(tbl, FreshRow(s, p))}
  ELSE {tbl}

\* enqueue: coalesce with a pending row of the store (LIMIT 1 without an
\* order returns any of them), or insert one.
Enqueued(tbl, s, p) ==
  IF Pending(tbl, s) = {}
  THEN {Append(tbl, FreshRow(s, p))}
  ELSE {Raised(tbl, j, p) : j \in Pending(tbl, s)}

\* claimNext on the row it selects.
Claimed(tbl, j) ==
  [tbl EXCEPT ![j].status   = "running",
              ![j].attempts = @ + 1,
              ![j].lease    = now + LeaseTime]

Completed(tbl, j) ==
  [tbl EXCEPT ![j].status = "done", ![j].lease = NoLease]

\* Mutant: the limit is tested with > for >=.
FailedLate(tbl, j) ==
  IF tbl[j].attempts > MaxAttempts
  THEN [tbl EXCEPT ![j].status = "dead", ![j].lease = NoLease]
  ELSE [tbl EXCEPT ![j].status = "pending", ![j].due = now + 1, ![j].lease = NoLease]

\* Mutant: next_attempt_at is cleared along with the lease.
FailedUndated(tbl, j) ==
  [tbl EXCEPT ![j].status = IF tbl[j].attempts >= MaxAttempts THEN "dead" ELSE "pending",
              ![j].due = NoLease, ![j].lease = NoLease]

\* failJob reads the row again and decides on the attempts it finds.
Failed(tbl, j) ==
  IF tbl[j].attempts >= MaxAttempts
  THEN [tbl EXCEPT ![j].status = "dead", ![j].lease = NoLease]
  ELSE [tbl EXCEPT ![j].status = "pending",
                   ![j].due    = now + Backoff[tbl[j].attempts],
                   ![j].lease  = NoLease]

\* Mutant: abandoned rows are dead-lettered.
RecoveredAsDead(tbl) ==
  [j \in DOMAIN tbl |->
     IF Abandoned(tbl[j]) THEN [tbl[j] EXCEPT !.status = "dead"] ELSE tbl[j]]

\* recoverStaleJobs
Recovered(tbl) ==
  [j \in DOMAIN tbl |->
     IF Abandoned(tbl[j])
     THEN [tbl[j] EXCEPT !.status = "pending", !.lease = NoLease]
     ELSE tbl[j]]
=============================================================================
