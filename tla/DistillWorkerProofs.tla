------------------------- MODULE DistillWorkerProofs -------------------------
(***************************************************************************)
(* Proofs about DistillWorker, for any stores, lanes, limits and backoffs, *)
(* any number of rows and any number of restarts.                          *)
(*                                                                         *)
(* The inductive invariant has three parts: what holds of the table by     *)
(* itself (TableOK), what holds of the lane (LaneOK), and what relates a   *)
(* row's attempts to the processes that died (Within).  A first group of   *)
(* lemmas says what each operation of the queue does to a table; a second  *)
(* one, what each kind of step of the worker does to the invariant.        *)
(*                                                                         *)
(* WakeInv adds what makes WakeNotLost inductive: a row that was never     *)
(* attempted is due, so a wake pass that finds nothing to claim leaves no  *)
(* such row of explicit priority behind; only rows of the table are        *)
(* signalled; and a process that is down was woken for nothing.            *)
(*                                                                         *)
(* That the worker implements DistillService is proved from the debts of a *)
(* table, the stores of its unsettled rows that nobody executes: what each *)
(* operation of the queue does to them, then which step of the service     *)
(* each action of the worker is.                                           *)
(***************************************************************************)
EXTENDS DistillWorker, SequenceTheorems, FiniteSetTheorems, TLAPS

Fresh(row) == row.status = "pending" /\ row.attempts = 0

\* What holds of a table whoever works on it.
TableOK(tbl) ==
  /\ tbl \in Seq(Job)
  /\ \A j \in DOMAIN tbl :
       /\ tbl[j].status = "running" => tbl[j].attempts >= 1
       /\ tbl[j].status = "dead" => tbl[j].attempts >= MaxAttempts
  /\ \A j, k \in DOMAIN tbl :
       Fresh(tbl[j]) /\ Fresh(tbl[k]) /\ tbl[j].store = tbl[k].store => j = k

\* A row that may be claimed has an attempt to spare after d deaths; one whose
\* pass runs, a row of E, may have spent it.
Spare(row, d) == row.attempts < MaxAttempts + d

Within(tbl, E, d) ==
  \A j \in DOMAIN tbl :
    /\ tbl[j].attempts <= MaxAttempts + d
    /\ tbl[j].status = "pending" => Spare(tbl[j], d)
    /\ tbl[j].status = "running" /\ j \notin E => Spare(tbl[j], d)

\* The table after a step: rows keep their place, store and attempts, and a
\* settled one is unchanged.
Kept(tbl, new) ==
  \A j \in DOMAIN tbl :
    /\ j \in DOMAIN new
    /\ Terminal(tbl[j]) => new[j] = tbl[j]
    /\ new[j].store = tbl[j].store
    /\ new[j].attempts >= tbl[j].attempts

-----------------------------------------------------------------------------
\* Sequences of rows.

LEMMA RowFields ==
  ASSUME NEW row \in Job
  PROVE  /\ row.store \in Stores
         /\ row.status \in Status
         /\ row.attempts \in Nat
         /\ row.due \in Nat
         /\ row.lease \in Nat \cup {NoLease}
         /\ row.priority \in Priority
BY DEF Job

\* A row of a table is a row.
LEMMA TableRows ==
  ASSUME NEW tbl \in Seq(Job)
  PROVE  /\ Len(tbl) \in Nat
         /\ DOMAIN tbl = 1..Len(tbl)
         /\ \A j \in DOMAIN tbl : tbl[j] \in Job
BY LenProperties, ElementOfSeq

\* Replacing one row of a table.
LEMMA RowReplaced ==
  ASSUME NEW tbl \in Seq(Job), NEW j \in DOMAIN tbl, NEW row \in Job,
         NEW new, new = [tbl EXCEPT ![j] = row]
  PROVE  /\ new \in Seq(Job)
         /\ DOMAIN new = DOMAIN tbl
         /\ \A k \in DOMAIN tbl : new[k] = IF k = j THEN row ELSE tbl[k]
<1>1. j \in 1..Len(tbl) /\ DOMAIN tbl = 1..Len(tbl)
  BY LenProperties
<1>2. QED
  BY <1>1, ExceptSeq

\* A replacement that is not a new fresh row keeps a table sound.
LEMMA ReplacedOK ==
  ASSUME NEW tbl, TableOK(tbl), NEW j \in DOMAIN tbl, NEW row \in Job,
         row.store = tbl[j].store,
         row.status = "running" => row.attempts >= 1,
         row.status = "dead" => row.attempts >= MaxAttempts,
         Fresh(row) => Fresh(tbl[j])
  PROVE  TableOK([tbl EXCEPT ![j] = row])
<1> DEFINE new == [tbl EXCEPT ![j] = row]
<1>1. tbl \in Seq(Job)
  BY DEF TableOK
<1>2. /\ new \in Seq(Job)
      /\ DOMAIN new = DOMAIN tbl
      /\ \A k \in DOMAIN tbl : new[k] = IF k = j THEN row ELSE tbl[k]
  BY <1>1, RowReplaced
<1>3. \A i, k \in DOMAIN new :
        Fresh(new[i]) /\ Fresh(new[k]) /\ new[i].store = new[k].store => i = k
  BY <1>2 DEF TableOK
<1>4. QED
  BY <1>2, <1>3 DEF TableOK

-----------------------------------------------------------------------------
\* What the operations of the queue do to a table.

\* claimNext, on a row that is not settled, when no pass runs.
LEMMA ClaimedStep ==
  ASSUME now \in Nat, NEW tbl, TableOK(tbl), NEW d \in Nat, Within(tbl, {}, d),
         NEW j \in DOMAIN tbl, ~Terminal(tbl[j])
  PROVE  LET new == Claimed(tbl, j)
         IN  /\ TableOK(new)
             /\ Within(new, {j}, d)
             /\ Kept(tbl, new)
             /\ j \in DOMAIN new
             /\ new[j].status = "running"
<1> DEFINE row == [tbl[j] EXCEPT !.status = "running", !.attempts = @ + 1,
                                 !.lease = now + LeaseTime]
<1>1. tbl \in Seq(Job) /\ tbl[j] \in Job /\ MaxAttempts \in Nat /\ LeaseTime \in Nat
  BY TableRows, QueueAssumption DEF TableOK
<1>2. row \in Job /\ row.store = tbl[j].store /\ row.attempts = tbl[j].attempts + 1
      /\ row.status = "running" /\ tbl[j].attempts \in Nat
  <2>1. tbl[j].attempts + 1 \in Nat /\ now + LeaseTime \in Nat
    BY <1>1, RowFields
  <2>2. QED
    BY <1>1, <2>1 DEF Job, Status
<1>3. Claimed(tbl, j) = [tbl EXCEPT ![j] = row]
  BY <1>1 DEF Claimed
<1>4. TableOK([tbl EXCEPT ![j] = row])
  <2>1. ~Fresh(row) /\ row.attempts >= 1
    BY <1>2 DEF Fresh
  <2>2. QED
    BY <1>2, <2>1, ReplacedOK
<1>5. /\ DOMAIN [tbl EXCEPT ![j] = row] = DOMAIN tbl
      /\ \A k \in DOMAIN tbl : [tbl EXCEPT ![j] = row][k] = IF k = j THEN row ELSE tbl[k]
  BY <1>1, <1>2, RowReplaced
<1>6. Spare(tbl[j], d)
  BY <1>1 DEF Within, Terminal, Job, Status
<1>7. Within([tbl EXCEPT ![j] = row], {j}, d)
  BY <1>1, <1>2, <1>5, <1>6 DEF Within, Spare
<1>8. Kept(tbl, [tbl EXCEPT ![j] = row])
  <2>1. \A k \in DOMAIN tbl : tbl[k].attempts \in Nat
    BY <1>1, TableRows, RowFields
  <2>2. QED
    BY <1>2, <1>5, <2>1 DEF Kept
<1>9. QED
  BY <1>2, <1>3, <1>4, <1>5, <1>7, <1>8

\* completeJob, on the row whose pass has run.
LEMMA CompletedStep ==
  ASSUME NEW tbl, TableOK(tbl), NEW d \in Nat,
         NEW j \in DOMAIN tbl, tbl[j].status = "running", Within(tbl, {j}, d)
  PROVE  LET new == Completed(tbl, j)
         IN  TableOK(new) /\ Within(new, {}, d) /\ Kept(tbl, new)
<1> DEFINE row == [tbl[j] EXCEPT !.status = "done", !.lease = NoLease]
<1>1. tbl \in Seq(Job) /\ tbl[j] \in Job
  BY TableRows DEF TableOK
<1>2. row \in Job /\ row.store = tbl[j].store /\ row.attempts = tbl[j].attempts
      /\ row.status = "done"
  BY <1>1 DEF Job, Status
<1>3. Completed(tbl, j) = [tbl EXCEPT ![j] = row]
  BY <1>1 DEF Completed
<1>4. TableOK([tbl EXCEPT ![j] = row])
  BY <1>2, ReplacedOK DEF Fresh
<1>5. /\ DOMAIN [tbl EXCEPT ![j] = row] = DOMAIN tbl
      /\ \A k \in DOMAIN tbl : [tbl EXCEPT ![j] = row][k] = IF k = j THEN row ELSE tbl[k]
  BY <1>1, <1>2, RowReplaced
<1>6. Within([tbl EXCEPT ![j] = row], {}, d)
  BY <1>2, <1>5 DEF Within
<1>7. Kept(tbl, [tbl EXCEPT ![j] = row])
  <2>1. \A k \in DOMAIN tbl : tbl[k].attempts \in Nat
    BY <1>1, TableRows, RowFields
  <2>2. QED
    BY <1>2, <1>5, <2>1 DEF Kept, Terminal
<1>8. QED
  BY <1>3, <1>4, <1>6, <1>7

\* failJob, on the row whose pass has run.
LEMMA FailedStep ==
  ASSUME now \in Nat, NEW tbl, TableOK(tbl), NEW d \in Nat,
         NEW j \in DOMAIN tbl, tbl[j].status = "running", Within(tbl, {j}, d)
  PROVE  LET new == Failed(tbl, j)
         IN  TableOK(new) /\ Within(new, {}, d) /\ Kept(tbl, new)
<1> DEFINE row == IF tbl[j].attempts >= MaxAttempts
                  THEN [tbl[j] EXCEPT !.status = "dead", !.lease = NoLease]
                  ELSE [tbl[j] EXCEPT !.status = "pending",
                                      !.due = now + Backoff[tbl[j].attempts],
                                      !.lease = NoLease]
<1>1. /\ tbl \in Seq(Job)
      /\ tbl[j] \in Job
      /\ tbl[j].attempts \in Nat
      /\ tbl[j].attempts >= 1
      /\ MaxAttempts \in Nat
  BY TableRows, RowFields, QueueAssumption DEF TableOK
<1>2. /\ row \in Job
      /\ row.store = tbl[j].store
      /\ row.attempts = tbl[j].attempts
      /\ row.status = IF tbl[j].attempts >= MaxAttempts THEN "dead" ELSE "pending"
  <2>1. CASE tbl[j].attempts >= MaxAttempts
    BY <1>1, <2>1 DEF Job, Status
  <2>2. CASE ~(tbl[j].attempts >= MaxAttempts)
    <3>1. now + Backoff[tbl[j].attempts] \in Nat
      BY <1>1, <2>2, QueueAssumption
    <3>2. QED
      BY <1>1, <2>2, <3>1 DEF Job, Status
  <2>3. QED
    BY <2>1, <2>2
<1>3. Failed(tbl, j) = [tbl EXCEPT ![j] = row]
  BY <1>1 DEF Failed
<1>4. TableOK([tbl EXCEPT ![j] = row])
  <2>1. ~Fresh(row) /\ row.status # "running"
    BY <1>1, <1>2 DEF Fresh
  <2>2. row.status = "dead" => row.attempts >= MaxAttempts
    BY <1>2
  <2>3. QED
    BY <1>2, <2>1, <2>2, ReplacedOK
<1>5. /\ DOMAIN [tbl EXCEPT ![j] = row] = DOMAIN tbl
      /\ \A k \in DOMAIN tbl : [tbl EXCEPT ![j] = row][k] = IF k = j THEN row ELSE tbl[k]
  BY <1>1, <1>2, RowReplaced
<1>6. Within([tbl EXCEPT ![j] = row], {}, d)
  BY <1>1, <1>2, <1>5 DEF Within, Spare
<1>7. Kept(tbl, [tbl EXCEPT ![j] = row])
  <2>1. \A k \in DOMAIN tbl : tbl[k].attempts \in Nat
    BY <1>1, TableRows, RowFields
  <2>2. QED
    BY <1>2, <1>5, <2>1 DEF Kept, Terminal
<1>8. QED
  BY <1>3, <1>4, <1>6, <1>7

\* Requests and sweeps leave the status of every row there is.
StatusKept(tbl, new) ==
  \A k \in DOMAIN tbl : k \in DOMAIN new /\ new[k].status = tbl[k].status

\* Fresh rows may be added for stores that have no pending row, one for each.
LEMMA FreshAppended ==
  ASSUME NEW tbl, TableOK(tbl), NEW E, NEW d \in Nat, Within(tbl, E, d),
         NEW t \in Seq(Job),
         \A i \in DOMAIN t : Fresh(t[i]) /\ Pending(tbl, t[i].store) = {},
         \A i, k \in DOMAIN t : t[i].store = t[k].store => i = k
  PROVE  LET new == tbl \o t
         IN  TableOK(new) /\ Within(new, E, d) /\ Kept(tbl, new) /\ StatusKept(tbl, new)
<1> DEFINE new == tbl \o t
           n == Len(tbl)
<1>1. /\ tbl \in Seq(Job) /\ n \in Nat /\ Len(t) \in Nat /\ MaxAttempts \in Nat \ {0}
      /\ DOMAIN tbl = 1..n /\ DOMAIN t = 1..Len(t)
  BY TableRows, QueueAssumption DEF TableOK
<1>2. /\ new \in Seq(Job)
      /\ DOMAIN new = 1..(n + Len(t))
      /\ \A k \in 1..n : new[k] = tbl[k]
      /\ \A k \in DOMAIN new : k \notin 1..n => k - n \in DOMAIN t /\ new[k] = t[k - n]
  <2>1. /\ new \in Seq(Job) /\ Len(new) = n + Len(t)
        /\ \A k \in 1..(n + Len(t)) : new[k] = IF k <= n THEN tbl[k] ELSE t[k - n]
    BY <1>1, ConcatProperties
  <2>2. DOMAIN new = 1..(n + Len(t))
    BY <2>1, TableRows
  <2>3. QED
    BY <1>1, <2>1, <2>2
<1> HIDE DEF new
<1>3. \A k \in 1..n : tbl[k].attempts \in Nat
  BY <1>1, TableRows, RowFields
<1>4. ASSUME NEW j \in DOMAIN new, NEW k \in DOMAIN new,
             Fresh(new[j]), Fresh(new[k]), new[j].store = new[k].store
      PROVE  j = k
  <2>1. CASE j \in 1..n /\ k \in 1..n
    BY <1>1, <1>2, <1>4, <2>1 DEF TableOK
  <2>2. CASE j \in 1..n /\ k \notin 1..n
    BY <1>1, <1>2, <1>4, <2>2 DEF Fresh, Pending
  <2>3. CASE j \notin 1..n /\ k \in 1..n
    BY <1>1, <1>2, <1>4, <2>3 DEF Fresh, Pending
  <2>4. CASE j \notin 1..n /\ k \notin 1..n
    <3>1. j - n = k - n
      BY <1>2, <1>4, <2>4
    <3>2. QED
      BY <1>1, <1>2, <3>1
  <2>5. QED
    BY <2>1, <2>2, <2>3, <2>4
<1>5. TableOK(new)
  <2>1. ASSUME NEW j \in DOMAIN new
        PROVE  /\ new[j].status = "running" => new[j].attempts >= 1
               /\ new[j].status = "dead" => new[j].attempts >= MaxAttempts
    BY <1>1, <1>2, <2>1 DEF TableOK, Fresh
  <2>2. QED
    BY <1>2, <1>4, <2>1 DEF TableOK
<1>6. Within(new, E, d)
  <2>1. ASSUME NEW j \in DOMAIN new
        PROVE  /\ new[j].attempts <= MaxAttempts + d
               /\ new[j].status = "pending" => Spare(new[j], d)
               /\ new[j].status = "running" /\ j \notin E => Spare(new[j], d)
    <3>1. CASE j \in 1..n
      BY <1>1, <1>2, <3>1 DEF Within
    <3>2. CASE j \notin 1..n
      BY <1>1, <1>2, <3>2 DEF Fresh, Spare
    <3>3. QED
      BY <3>1, <3>2
  <2>2. QED
    BY <2>1 DEF Within
<1>7. Kept(tbl, new) /\ StatusKept(tbl, new)
  BY <1>1, <1>2, <1>3 DEF Kept, StatusKept
<1>8. QED
  BY <1>5, <1>6, <1>7 DEF new

LEMMA FreshRowIsJob ==
  ASSUME now \in Nat, NEW s \in Stores, NEW p \in Priority
  PROVE  FreshRow(s, p) \in Job /\ Fresh(FreshRow(s, p)) /\ FreshRow(s, p).store = s
BY DEF FreshRow, Job, Fresh, Status

\* enqueue
LEMMA EnqueuedStep ==
  ASSUME now \in Nat, NEW tbl, TableOK(tbl), NEW E, NEW d \in Nat, Within(tbl, E, d),
         NEW s \in Stores, NEW p \in Priority, NEW new \in Enqueued(tbl, s, p)
  PROVE  TableOK(new) /\ Within(new, E, d) /\ Kept(tbl, new) /\ StatusKept(tbl, new)
<1>1. tbl \in Seq(Job) /\ \A k \in DOMAIN tbl : tbl[k] \in Job /\ tbl[k].attempts \in Nat
  BY TableRows, RowFields DEF TableOK
<1>2. CASE Pending(tbl, s) = {}
  <2> DEFINE t == <<FreshRow(s, p)>>
  <2>1. new = tbl \o t
    BY <1>1, <1>2, FreshRowIsJob, AppendIsConcat DEF Enqueued
  <2>2. t \in Seq(Job) /\ DOMAIN t = {1} /\ t[1] = FreshRow(s, p)
    BY FreshRowIsJob
  <2> HIDE DEF t
  <2>3. QED
    BY <1>2, <2>1, <2>2, FreshRowIsJob, FreshAppended
<1>3. CASE Pending(tbl, s) # {}
  <2>1. PICK j \in DOMAIN tbl : tbl[j].status = "pending" /\ new = Raised(tbl, j, p)
    BY <1>3 DEF Enqueued, Pending
  <2>2. CASE p > tbl[j].priority
    <3> DEFINE row == [tbl[j] EXCEPT !.priority = p]
    <3>1. /\ row \in Job /\ row.store = tbl[j].store
          /\ row.status = tbl[j].status /\ row.attempts = tbl[j].attempts
      BY <1>1 DEF Job
    <3>2. new = [tbl EXCEPT ![j] = row]
      BY <1>1, <2>1, <2>2 DEF Raised
    <3> HIDE DEF row
    <3>3. TableOK(new)
      <4>1. Fresh(row) => Fresh(tbl[j])
        BY <3>1 DEF Fresh
      <4>2. row.status = "pending"
        BY <2>1, <3>1
      <4>3. QED
        BY <3>1, <3>2, <4>1, <4>2, ReplacedOK
    <3>4. /\ DOMAIN new = DOMAIN tbl
          /\ \A k \in DOMAIN tbl : new[k] = IF k = j THEN row ELSE tbl[k]
      BY <1>1, <3>1, <3>2, RowReplaced
    <3>5. Within(new, E, d)
      BY <3>1, <3>4 DEF Within, Spare
    <3>6. Kept(tbl, new) /\ StatusKept(tbl, new)
      BY <1>1, <2>1, <3>1, <3>4 DEF Kept, StatusKept, Terminal
    <3>7. QED
      BY <3>3, <3>5, <3>6
  <2>3. CASE ~(p > tbl[j].priority)
    <3>1. new = tbl
      BY <2>1, <2>3 DEF Raised
    <3>2. QED
      BY <1>1, <3>1 DEF Kept, StatusKept
  <2>4. QED
    BY <2>2, <2>3
<1>4. QED
  BY <1>2, <1>3

\* enqueueAll
LEMMA SweptStep ==
  ASSUME now \in Nat, NEW tbl, TableOK(tbl), NEW E, NEW d \in Nat, Within(tbl, E, d),
         NEW S \in SUBSET SelfStores, NEW new \in Swept(tbl, S)
  PROVE  TableOK(new) /\ Within(new, E, d) /\ Kept(tbl, new) /\ StatusKept(tbl, new)
<1> DEFINE D == {s \in S : Pending(tbl, s) = {}}
           N == Cardinality(D)
<1>1. D \subseteq Stores /\ N \in Nat
  <2>1. D \subseteq Stores
    BY WorkerAssumption
  <2>2. IsFiniteSet(D)
    BY <2>1, FS_Subset, QueueAssumption
  <2>3. QED
    BY <2>1, <2>2, FS_CardinalityType
<1>2. PICK o \in Orders(D) : new = tbl \o [i \in DOMAIN o |-> FreshRow(o[i], PASSIVE)]
  BY DEF Swept
<1>3. o \in [1..N -> D] /\ \A i, k \in 1..N : o[i] = o[k] => i = k
  BY DEF Orders
<1> DEFINE t == [i \in DOMAIN o |-> FreshRow(o[i], PASSIVE)]
<1>4. /\ DOMAIN t = 1..N /\ \A i \in 1..N : t[i] = FreshRow(o[i], PASSIVE)
      /\ t = [i \in 1..N |-> t[i]]
  BY <1>3
<1>5. new = tbl \o t
  BY <1>2
<1> HIDE DEF t, N
<1>6. ASSUME NEW i \in 1..N
      PROVE  /\ t[i] \in Job /\ Fresh(t[i]) /\ t[i].store = o[i]
             /\ Pending(tbl, t[i].store) = {}
  <2>1. o[i] \in Stores /\ t[i] = FreshRow(o[i], PASSIVE) /\ Pending(tbl, o[i]) = {}
    BY <1>1, <1>3, <1>4, <1>6
  <2>2. PASSIVE \in Priority
    BY DEF Priority
  <2>3. QED
    BY <2>1, <2>2, FreshRowIsJob
<1>7. t \in Seq(Job)
  <2>1. t \in [1..N -> Job]
    BY <1>4, <1>6
  <2>2. QED
    BY <1>1, <2>1, SeqDef
<1>8. \A i \in DOMAIN t : Fresh(t[i]) /\ Pending(tbl, t[i].store) = {}
  BY <1>4, <1>6
<1>9. \A i, k \in DOMAIN t : t[i].store = t[k].store => i = k
  BY <1>3, <1>4, <1>6
<1>10. QED
  BY <1>5, <1>7, <1>8, <1>9, FreshAppended

\* recoverStaleJobs, when no pass runs
LEMMA RecoveredStep ==
  ASSUME now \in Nat, NEW tbl, TableOK(tbl), NEW d \in Nat, Within(tbl, {}, d)
  PROVE  LET new == Recovered(tbl)
         IN  TableOK(new) /\ Within(new, {}, d) /\ Kept(tbl, new)
<1> DEFINE new == Recovered(tbl)
<1>1. /\ tbl \in Seq(Job) /\ Len(tbl) \in Nat /\ DOMAIN tbl = 1..Len(tbl)
      /\ \A k \in DOMAIN tbl : tbl[k] \in Job /\ tbl[k].attempts \in Nat
  BY TableRows, RowFields DEF TableOK
<1>2. DOMAIN new = DOMAIN tbl
  BY DEF Recovered
<1>3. ASSUME NEW j \in DOMAIN tbl
      PROVE  /\ new[j] \in Job
             /\ new[j].store = tbl[j].store
             /\ new[j].attempts = tbl[j].attempts
             /\ \/ new[j] = tbl[j]
                \/ tbl[j].status = "running" /\ new[j].status = "pending"
  <2>1. CASE Abandoned(tbl[j])
    <3>1. new[j] = [tbl[j] EXCEPT !.status = "pending", !.lease = NoLease]
      BY <1>3, <2>1 DEF Recovered
    <3>2. tbl[j].status = "running"
      BY <2>1 DEF Abandoned
    <3>3. tbl[j] \in Job
      BY <1>1, <1>3
    <3>4. QED
      BY <3>1, <3>2, <3>3 DEF Job, Status
  <2>2. CASE ~Abandoned(tbl[j])
    BY <1>1, <1>3, <2>2 DEF Recovered
  <2>3. QED
    BY <2>1, <2>2
<1> HIDE DEF new
<1>4. TableOK(new)
  <2>1. new \in Seq(Job)
    <3>1. new \in [1..Len(tbl) -> Job]
      <4>1. new = [j \in DOMAIN tbl |-> new[j]]
        BY DEF new, Recovered
      <4>2. QED
        BY <1>1, <1>3, <4>1
    <3>2. QED
      BY <1>1, <3>1, SeqDef
  <2>2. \A j \in DOMAIN new : Fresh(new[j]) => new[j] = tbl[j]
    BY <1>1, <1>2, <1>3 DEF Fresh, TableOK
  <2>3. \A j, k \in DOMAIN new :
          Fresh(new[j]) /\ Fresh(new[k]) /\ new[j].store = new[k].store => j = k
    BY <1>2, <2>2 DEF TableOK
  <2>4. \A j \in DOMAIN new :
          /\ new[j].status = "running" => new[j].attempts >= 1
          /\ new[j].status = "dead" => new[j].attempts >= MaxAttempts
    BY <1>2, <1>3 DEF TableOK
  <2>5. QED
    BY <2>1, <2>3, <2>4 DEF TableOK
<1>5. Within(new, {}, d)
  BY <1>1, <1>2, <1>3 DEF Within, Spare
<1>6. Kept(tbl, new)
  BY <1>1, <1>2, <1>3 DEF Kept, Terminal
<1>7. QED
  BY <1>4, <1>5, <1>6 DEF new

-----------------------------------------------------------------------------
\* The inductive invariant.

LaneOK ==
  /\ LaneExclusive
  /\ inFlight # NoLane => pc[inFlight] # "idle"
  /\ proc = "down" => inFlight = NoLane
  /\ proc # "down" => boots >= 1

ExecutingRows == {job[l] : l \in {m \in Lanes : pc[m] = "running"}}

IInv ==
  /\ TypeOK
  /\ LaneOK
  /\ ExecutingIsRunning
  /\ TableOK(rows)
  /\ Within(rows, ExecutingRows, Deaths)

\* The parts of the state that the invariant reads besides the table: nothing
\* of them may have changed for a step to be about the table only.
LanesUntouched == UNCHANGED <<proc, boots, inFlight, pc, kind, job, drained>>

LEMMA DeathsIsNat ==
  ASSUME TypeOK, LaneOK
  PROVE  Deaths \in Nat
BY DEF TypeOK, LaneOK, Deaths

LEMMA WithinMore ==
  ASSUME NEW tbl, NEW d, NEW E, NEW F, E \subseteq F, Within(tbl, E, d)
  PROVE  Within(tbl, F, d)
BY DEF Within

\* While the lane is free nothing is executing; while it is held, the row of
\* its holder at most.
LEMMA FreeLane ==
  ASSUME IInv, inFlight = NoLane
  PROVE  (\A l \in Lanes : pc[l] = "idle") /\ ExecutingRows = {}
<1>1. \A l \in Lanes : pc[l] = "idle"
  BY WorkerAssumption DEF IInv, LaneOK, LaneExclusive
<1>2. QED
  BY <1>1 DEF ExecutingRows

LEMMA HeldLane ==
  ASSUME IInv, NEW l \in Lanes, pc[l] # "idle"
  PROVE  /\ inFlight = l
         /\ proc # "down"
         /\ \A m \in Lanes \ {l} : pc[m] = "idle"
         /\ pc[l] = "running" => /\ ExecutingRows = {job[l]}
                                 /\ job[l] \in DOMAIN rows
                                 /\ rows[job[l]].status = "running"
         /\ pc[l] # "running" => ExecutingRows = {}
<1>1. inFlight = l /\ \A m \in Lanes \ {l} : pc[m] = "idle"
  BY DEF IInv, LaneOK, LaneExclusive
<1>2. proc # "down"
  BY <1>1, WorkerAssumption DEF IInv, LaneOK
<1>3. pc[l] = "running" => ExecutingRows = {job[l]}
  BY <1>1 DEF ExecutingRows
<1>4. pc[l] # "running" => ExecutingRows = {}
  BY <1>1 DEF ExecutingRows
<1>5. pc[l] = "running" => job[l] \in DOMAIN rows /\ rows[job[l]].status = "running"
  BY DEF IInv, ExecutingIsRunning
<1>6. QED
  BY <1>1, <1>2, <1>3, <1>4, <1>5

\* A step on the table alone.
LEMMA TableStep ==
  ASSUME IInv, LanesUntouched, now' \in Nat, wakeRequested' \in BOOLEAN,
         signalled' \subseteq Nat,
         TableOK(rows'), Within(rows', ExecutingRows, Deaths), StatusKept(rows, rows')
  PROVE  IInv'
<1>1. TypeOK'
  BY DEF IInv, TypeOK, LanesUntouched, TableOK
<1>2. LaneOK'
  BY DEF IInv, LaneOK, LaneExclusive, LanesUntouched
<1>3. ExecutingIsRunning'
  BY DEF IInv, ExecutingIsRunning, LanesUntouched, StatusKept
<1>4. ExecutingRows' = ExecutingRows /\ Deaths' = Deaths
  BY DEF LanesUntouched, ExecutingRows, Deaths
<1>5. TableOK(rows)' /\ Within(rows, ExecutingRows, Deaths)'
  BY <1>4 DEF TableOK, Within, Spare, Fresh
<1>6. QED
  BY <1>1, <1>2, <1>3, <1>5 DEF IInv

\* claimNext and the beginning of runJob, by the lane's only promise.
LEMMA ClaimOrYieldStep ==
  ASSUME IInv, NEW l \in Lanes, NEW k, NEW tbl,
         TableOK(tbl), Within(tbl, {}, Deaths),
         \A m \in Lanes \ {l} : pc[m] = "idle",
         ClaimOrYield(l, k, tbl),
         inFlight' = l, proc # "down", UNCHANGED <<proc, boots, now>>,
         kind' \in [Lanes -> Kind], drained' \in [Lanes -> Nat],
         wakeRequested' \in BOOLEAN, signalled' \subseteq Nat
  PROVE  IInv' /\ Kept(tbl, rows')
<1>1. Deaths \in Nat /\ now \in Nat /\ Deaths' = Deaths
  BY DeathsIsNat DEF IInv, TypeOK, Deaths
<1>2. /\ pc \in [Lanes -> Pc] /\ job \in [Lanes -> Nat] /\ boots \in Nat
      /\ proc \in {"down", "up", "stopping"}
      /\ proc # "down" => boots >= 1
  BY DEF IInv, TypeOK, LaneOK
<1>3. CASE \E j \in First(tbl, Floor(k)) :
             /\ rows' = Claimed(tbl, j)
             /\ job'  = [job EXCEPT ![l] = j]
             /\ pc'   = [pc EXCEPT ![l] = "running"]
  <2>1. PICK j \in First(tbl, Floor(k)) :
             /\ rows' = Claimed(tbl, j)
             /\ job'  = [job EXCEPT ![l] = j]
             /\ pc'   = [pc EXCEPT ![l] = "running"]
    BY <1>3
  <2>2. j \in DOMAIN tbl /\ ~Terminal(tbl[j]) /\ j \in Nat
    <3>1. j \in DOMAIN tbl /\ ~Terminal(tbl[j])
      BY DEF First, Ready, Abandoned, Terminal
    <3>2. QED
      BY <3>1, TableRows DEF TableOK
  <2>3. /\ TableOK(rows') /\ Within(rows', {j}, Deaths) /\ Kept(tbl, rows')
        /\ j \in DOMAIN rows' /\ rows'[j].status = "running"
    BY <1>1, <2>1, <2>2, ClaimedStep
  <2>4. \A m \in Lanes : pc'[m] = (IF m = l THEN "running" ELSE "idle")
    BY <1>2, <2>1
  <2>5. job'[l] = j /\ job' \in [Lanes -> Nat] /\ pc' \in [Lanes -> Pc]
    BY <1>2, <2>1, <2>2 DEF Pc
  <2>6. TypeOK'
    BY <1>1, <1>2, <2>3, <2>5 DEF TypeOK, TableOK
  <2>7. LaneOK'
    BY <1>2, <2>4 DEF LaneOK, LaneExclusive
  <2>8. ExecutingIsRunning'
    BY <2>3, <2>4, <2>5 DEF ExecutingIsRunning
  <2>9. ExecutingRows' = {j}
    BY <2>4, <2>5 DEF ExecutingRows
  <2>10. TableOK(rows)' /\ Within(rows, ExecutingRows, Deaths)'
    BY <1>1, <2>3, <2>9 DEF TableOK, Within, Spare, Fresh
  <2>11. QED
    BY <2>3, <2>6, <2>7, <2>8, <2>10 DEF IInv
<1>4. CASE /\ rows' = tbl
           /\ pc'   = [pc EXCEPT ![l] = "releasing"]
           /\ UNCHANGED job
  <2>1. \A m \in Lanes : pc'[m] = (IF m = l THEN "releasing" ELSE "idle")
    BY <1>2, <1>4
  <2>2. TypeOK'
    BY <1>1, <1>2, <1>4 DEF TypeOK, TableOK, Pc
  <2>3. LaneOK'
    BY <1>2, <2>1 DEF LaneOK, LaneExclusive
  <2>4. ExecutingIsRunning' /\ ExecutingRows' = {}
    BY <2>1 DEF ExecutingIsRunning, ExecutingRows
  <2>5. TableOK(rows)' /\ Within(rows, ExecutingRows, Deaths)'
    BY <1>1, <1>4, <2>4 DEF TableOK, Within, Spare, Fresh
  <2>6. Kept(tbl, rows')
    <3>1. \A j \in DOMAIN tbl : tbl[j].attempts \in Nat
      BY TableRows, RowFields DEF TableOK
    <3>2. QED
      BY <1>4, <3>1 DEF Kept
  <2>7. QED
    BY <2>2, <2>3, <2>4, <2>5, <2>6 DEF IInv
<1>5. QED
  BY <1>3, <1>4 DEF ClaimOrYield

-----------------------------------------------------------------------------
\* The steps.

\* What is proved of a step: the invariant is kept, and so is every row.
Sound == IInv' /\ Kept(rows, rows')

LEMMA KeptItself ==
  ASSUME NEW tbl, TableOK(tbl)
  PROVE  Kept(tbl, tbl) /\ StatusKept(tbl, tbl)
<1>1. \A j \in DOMAIN tbl : tbl[j].attempts \in Nat
  BY TableRows, RowFields DEF TableOK
<1>2. QED
  BY <1>1 DEF Kept, StatusKept

LEMMA KeptTransitive ==
  ASSUME NEW a, NEW b, NEW c, TableOK(a), TableOK(b), TableOK(c), Kept(a, b), Kept(b, c)
  PROVE  Kept(a, c)
<1>1. \A t \in {a, b, c} : \A j \in DOMAIN t : t[j].attempts \in Nat
  BY TableRows, RowFields DEF TableOK
<1>2. QED
  BY <1>1 DEF Kept

\* acquireAndRun on a free lane.
LEMMA AcquireStep ==
  ASSUME IInv, NEW l \in Lanes, NEW k \in Kind, NEW tbl,
         TableOK(tbl), Within(tbl, {}, Deaths),
         LaneFree(l), Acquire(l, k, tbl), proc # "down", UNCHANGED <<proc, boots, now>>,
         wakeRequested' \in BOOLEAN, signalled' \subseteq Nat
  PROVE  IInv' /\ Kept(tbl, rows')
<1>1. \A m \in Lanes \ {l} : pc[m] = "idle"
  BY FreeLane DEF LaneFree
<1>2. /\ inFlight' = l /\ ClaimOrYield(l, k, tbl)
      /\ kind' \in [Lanes -> Kind] /\ drained' \in [Lanes -> Nat]
  BY DEF Acquire, IInv, TypeOK
<1>3. QED
  BY <1>1, <1>2, ClaimOrYieldStep

LEMMA DrainStep ==
  ASSUME IInv, NEW l \in Lanes, Drain(l)
  PROVE  Sound
<1>1. TableOK(rows) /\ Within(rows, {}, Deaths)
  BY FreeLane DEF Drain, LaneFree, IInv
<1>2. /\ LaneFree(l) /\ Acquire(l, "drain", rows) /\ proc # "down"
      /\ wakeRequested' \in BOOLEAN /\ signalled' \subseteq Nat
      /\ UNCHANGED <<proc, boots, now>> /\ "drain" \in Kind
  BY DEF Drain, IInv, TypeOK, Kind
<1>3. QED
  BY <1>1, <1>2, AcquireStep DEF Sound

LEMMA PassEndsStep ==
  ASSUME IInv, NEW l \in Lanes, PassEnds(l)
  PROVE  Sound
<1>1. /\ inFlight = l /\ proc # "down" /\ \A m \in Lanes \ {l} : pc[m] = "idle"
      /\ ExecutingRows = {job[l]}
      /\ job[l] \in DOMAIN rows /\ rows[job[l]].status = "running"
  BY HeldLane DEF PassEnds
<1>2. /\ TableOK(rows) /\ Within(rows, {job[l]}, Deaths) /\ now \in Nat /\ TypeOK /\ LaneOK
      /\ Deaths \in Nat
  BY <1>1, DeathsIsNat DEF IInv, TypeOK
<1>3. TableOK(rows') /\ Within(rows', {}, Deaths) /\ Kept(rows, rows')
  <2>1. CASE rows' = Completed(rows, job[l])
    BY <1>1, <1>2, <2>1, CompletedStep
  <2>2. CASE rows' = Failed(rows, job[l])
    BY <1>1, <1>2, <2>2, FailedStep
  <2>3. QED
    BY <2>1, <2>2 DEF PassEnds
<1>4. \A m \in Lanes : pc'[m] \in Pc \ {"running"} /\ (pc'[m] # "idle" => m = l)
  BY <1>1, <1>2 DEF PassEnds, TypeOK, Pc
<1>5. pc'[l] # "idle" /\ pc' \in [Lanes -> Pc]
  BY <1>2 DEF PassEnds, TypeOK, Pc
<1>6. TypeOK'
  BY <1>2, <1>3, <1>5 DEF PassEnds, TypeOK, TableOK
<1>7. LaneOK'
  BY <1>1, <1>2, <1>4, <1>5 DEF PassEnds, LaneOK, LaneExclusive
<1>8. ExecutingIsRunning' /\ ExecutingRows' = {} /\ Deaths' = Deaths
  BY <1>4 DEF ExecutingIsRunning, ExecutingRows, PassEnds, Deaths
<1>9. TableOK(rows)' /\ Within(rows, ExecutingRows, Deaths)'
  BY <1>3, <1>8 DEF TableOK, Within, Spare, Fresh
<1>10. QED
  BY <1>3, <1>6, <1>7, <1>8, <1>9 DEF Sound, IInv

LEMMA NextWakeStep ==
  ASSUME IInv, NEW l \in Lanes, NextWake(l)
  PROVE  Sound
<1>1. /\ inFlight = l /\ proc # "down" /\ \A m \in Lanes \ {l} : pc[m] = "idle"
      /\ ExecutingRows = {}
  BY HeldLane DEF NextWake
<1>2. /\ TableOK(rows) /\ Within(rows, {}, Deaths) /\ TypeOK /\ LaneOK
      /\ drained' \in [Lanes -> Nat] /\ kind' \in [Lanes -> Kind]
      /\ wakeRequested' \in BOOLEAN /\ signalled' \subseteq Nat
      /\ inFlight' = l /\ UNCHANGED <<proc, boots, now>>
  <2>1. /\ TableOK(rows) /\ Within(rows, {}, Deaths) /\ TypeOK /\ LaneOK
    BY <1>1 DEF IInv
  <2>2. drained' \in [Lanes -> Nat]
    <3>1. drained \in [Lanes -> Nat] /\ drained[l] + 1 \in Nat
      BY <2>1 DEF TypeOK
    <3>2. QED
      BY <3>1 DEF NextWake
  <2>3. signalled' \subseteq Nat
    <3>1. signalled' \in {signalled, {}}
      BY DEF NextWake
    <3>2. QED
      BY <2>1, <3>1 DEF TypeOK
  <2>4. QED
    BY <1>1, <2>1, <2>2, <2>3 DEF TypeOK, NextWake
<1>3. CASE ClaimOrYield(l, "wake", rows)
  BY <1>1, <1>2, <1>3, ClaimOrYieldStep DEF Sound
<1>4. CASE pc' = [pc EXCEPT ![l] = "releasing"] /\ UNCHANGED <<rows, job>>
  <2>1. \A m \in Lanes : pc'[m] = (IF m = l THEN "releasing" ELSE "idle")
    BY <1>1, <1>2, <1>4 DEF TypeOK
  <2>2. TypeOK'
    BY <1>2, <1>4 DEF TypeOK, Pc
  <2>3. LaneOK'
    BY <1>1, <1>2, <2>1 DEF LaneOK, LaneExclusive
  <2>4. ExecutingIsRunning' /\ ExecutingRows' = {} /\ Deaths' = Deaths
    BY <1>2, <2>1 DEF ExecutingIsRunning, ExecutingRows, Deaths
  <2>5. TableOK(rows)' /\ Within(rows, ExecutingRows, Deaths)' /\ Kept(rows, rows')
    BY <1>2, <1>4, <2>4, KeptItself DEF TableOK, Within, Spare, Fresh
  <2>6. QED
    BY <2>2, <2>3, <2>4, <2>5 DEF Sound, IInv
<1>5. QED
  BY <1>3, <1>4 DEF NextWake

LEMMA ReleaseStep ==
  ASSUME IInv, NEW l \in Lanes, Release(l)
  PROVE  Sound
<1>1. /\ inFlight = l /\ proc # "down" /\ \A m \in Lanes \ {l} : pc[m] = "idle"
      /\ ExecutingRows = {}
  BY HeldLane DEF Release
<1>2. /\ TableOK(rows) /\ Within(rows, {}, Deaths) /\ TypeOK /\ LaneOK
      /\ signalled' \subseteq Nat /\ UNCHANGED <<proc, boots, now>>
  BY <1>1 DEF IInv, TypeOK, Release
<1>3. CASE wakeRequested' = FALSE /\ Acquire(l, "wake", rows)
  <2>1. /\ inFlight' = l /\ ClaimOrYield(l, "wake", rows)
        /\ kind' \in [Lanes -> Kind] /\ drained' \in [Lanes -> Nat]
    BY <1>2, <1>3 DEF Acquire, TypeOK, Kind
  <2>2. QED
    BY <1>1, <1>2, <1>3, <2>1, ClaimOrYieldStep DEF Sound
<1>4. CASE inFlight' = NoLane /\ Settled(l) /\ UNCHANGED <<rows, wakeRequested>>
  <2>1. \A m \in Lanes : pc'[m] = "idle"
    BY <1>1, <1>2, <1>4 DEF TypeOK, Settled
  <2>2. TypeOK'
    BY <1>2, <1>4 DEF TypeOK, Settled, Pc, Kind
  <2>3. LaneOK'
    BY <1>1, <1>2, <1>4, <2>1 DEF LaneOK, LaneExclusive
  <2>4. ExecutingIsRunning' /\ ExecutingRows' = {} /\ Deaths' = Deaths
    BY <1>2, <2>1 DEF ExecutingIsRunning, ExecutingRows, Deaths
  <2>5. TableOK(rows)' /\ Within(rows, ExecutingRows, Deaths)' /\ Kept(rows, rows')
    BY <1>2, <1>4, <2>4, KeptItself DEF TableOK, Within, Spare, Fresh
  <2>6. QED
    BY <2>2, <2>3, <2>4, <2>5 DEF Sound, IInv
<1>5. QED
  BY <1>3, <1>4 DEF Release


\* POST /distill and falda_distill, on a running server
LEMMA RequestStep ==
  ASSUME IInv, NEW s \in Stores, Request(s)
  PROVE  Sound
<1>1. PICK tbl \in Enqueued(rows, s, EXPLICIT) :
        Wake(tbl) /\ signalled' = signalled \cup Pending(tbl, s)
  BY DEF Request
<1>2. /\ TypeOK /\ now \in Nat /\ Deaths \in Nat /\ TableOK(rows)
      /\ Within(rows, ExecutingRows, Deaths) /\ EXPLICIT \in Priority
  BY DeathsIsNat DEF IInv, TypeOK, Priority
<1>3. /\ TableOK(tbl) /\ Within(tbl, ExecutingRows, Deaths)
      /\ Kept(rows, tbl) /\ StatusKept(rows, tbl)
  BY <1>2, EnqueuedStep
<1>4. signalled' \subseteq Nat
  <2>1. DOMAIN tbl \subseteq Nat
    BY <1>3, TableRows DEF TableOK
  <2>2. QED
    BY <1>1, <1>2, <2>1 DEF Pending, TypeOK
<1>5. proc # "down" /\ UNCHANGED <<now, proc, boots>>
  BY DEF Request
<1>6. CASE \E l \in Lanes : LaneFree(l) /\ Acquire(l, "wake", tbl) /\ UNCHANGED wakeRequested
  <2>1. PICK l \in Lanes : LaneFree(l) /\ Acquire(l, "wake", tbl) /\ UNCHANGED wakeRequested
    BY <1>6
  <2>2. Within(tbl, {}, Deaths)
    BY <1>3, <2>1, FreeLane DEF LaneFree
  <2>3. wakeRequested' \in BOOLEAN /\ "wake" \in Kind
    BY <1>2, <2>1 DEF TypeOK, Kind
  <2>4. IInv' /\ Kept(tbl, rows')
    BY <1>3, <1>4, <1>5, <2>1, <2>2, <2>3, AcquireStep
  <2>5. Kept(rows, rows')
    <3>1. TableOK(rows)'
      BY <2>4 DEF IInv
    <3>2. TableOK(rows')
      BY <3>1 DEF TableOK, Fresh
    <3>3. QED
      BY <1>2, <1>3, <2>4, <3>2, KeptTransitive
  <2>6. QED
    BY <2>4, <2>5 DEF Sound
<1>7. CASE /\ inFlight # NoLane
           /\ wakeRequested' = TRUE
           /\ rows' = tbl
           /\ UNCHANGED <<inFlight, pc, kind, job, drained>>
  <2>1. LanesUntouched
    BY <1>5, <1>7 DEF LanesUntouched
  <2>2. now' \in Nat /\ wakeRequested' \in BOOLEAN
    BY <1>2, <1>5, <1>7
  <2>3. IInv'
    BY <1>3, <1>4, <1>7, <2>1, <2>2, TableStep
  <2>4. QED
    BY <1>3, <1>7, <2>3 DEF Sound
<1>8. QED
  BY <1>1, <1>6, <1>7 DEF Wake

\* The steps that write the table and touch no lane.
LEMMA TableStepSound ==
  ASSUME IInv, LanesUntouched, UNCHANGED <<now, wakeRequested, signalled>>,
         TableOK(rows'), Within(rows', ExecutingRows, Deaths),
         Kept(rows, rows'), StatusKept(rows, rows')
  PROVE  Sound
<1>1. now' \in Nat /\ wakeRequested' \in BOOLEAN /\ signalled' \subseteq Nat
  BY DEF IInv, TypeOK
<1>2. QED
  BY <1>1, TableStep DEF Sound

LEMMA LateRequestStep ==
  ASSUME IInv, NEW s \in Stores, LateRequest(s)
  PROVE  Sound
<1>1. /\ now \in Nat /\ Deaths \in Nat /\ TableOK(rows)
      /\ Within(rows, ExecutingRows, Deaths) /\ EXPLICIT \in Priority
  BY DeathsIsNat DEF IInv, TypeOK, Priority
<1>2. rows' \in Enqueued(rows, s, EXPLICIT)
  BY DEF LateRequest
<1>3. /\ TableOK(rows') /\ Within(rows', ExecutingRows, Deaths)
      /\ Kept(rows, rows') /\ StatusKept(rows, rows')
  BY <1>1, <1>2, EnqueuedStep
<1>4. LanesUntouched /\ UNCHANGED <<now, wakeRequested, signalled>>
  BY DEF LateRequest, LanesUntouched
<1>5. QED
  BY <1>3, <1>4, TableStepSound

LEMMA SweepStep ==
  ASSUME IInv, Sweep
  PROVE  Sound
<1>1. /\ now \in Nat /\ Deaths \in Nat /\ TableOK(rows)
      /\ Within(rows, ExecutingRows, Deaths)
  BY DeathsIsNat DEF IInv, TypeOK
<1>2. PICK S \in SUBSET SelfStores : rows' \in Swept(rows, S)
  BY DEF Sweep
<1>3. /\ TableOK(rows') /\ Within(rows', ExecutingRows, Deaths)
      /\ Kept(rows, rows') /\ StatusKept(rows, rows')
  BY <1>1, <1>2, SweptStep
<1>4. LanesUntouched /\ UNCHANGED <<now, wakeRequested, signalled>>
  BY DEF Sweep, LanesUntouched
<1>5. QED
  BY <1>3, <1>4, TableStepSound

LEMMA TickStep ==
  ASSUME IInv, Tick
  PROVE  Sound
<1>1. /\ TableOK(rows) /\ Within(rows, ExecutingRows, Deaths) /\ rows' = rows
      /\ now' \in Nat /\ wakeRequested' \in BOOLEAN /\ signalled' \subseteq Nat
      /\ LanesUntouched
  BY DEF IInv, TypeOK, Tick, LanesUntouched
<1>2. Kept(rows, rows') /\ StatusKept(rows, rows')
  BY <1>1, KeptItself
<1>3. QED
  BY <1>1, <1>2, TableStep DEF Sound

LEMMA StopStep ==
  ASSUME IInv, Stop
  PROVE  Sound
<1>1. TypeOK'
  BY DEF IInv, TypeOK, Stop
<1>2. LaneOK' /\ ExecutingIsRunning'
  BY DEF IInv, LaneOK, LaneExclusive, ExecutingIsRunning, Stop
<1>3. ExecutingRows' = ExecutingRows /\ Deaths' = Deaths /\ rows' = rows
  BY DEF ExecutingRows, Deaths, Stop
<1>4. TableOK(rows)' /\ Within(rows, ExecutingRows, Deaths)' /\ Kept(rows, rows')
  BY <1>3, KeptItself DEF IInv, TableOK, Within, Spare, Fresh
<1>5. QED
  BY <1>1, <1>2, <1>4 DEF Sound, IInv

\* A death: the row that was executing has spent an attempt nobody answers for.
LEMMA MemoryLostStep ==
  ASSUME IInv, proc # "down", MemoryLost
  PROVE  Sound
<1>1. TypeOK /\ LaneOK /\ TableOK(rows) /\ Deaths \in Nat /\ MaxAttempts \in Nat
  BY DeathsIsNat, QueueAssumption DEF IInv
<1>2. rows' = rows /\ Deaths' = Deaths + 1
  BY <1>1 DEF MemoryLost, Deaths, TypeOK
<1>3. TypeOK'
  BY <1>1 DEF MemoryLost, TypeOK, Pc, Kind
<1>4. LaneOK' /\ ExecutingIsRunning' /\ ExecutingRows' = {}
  BY DEF MemoryLost, LaneOK, LaneExclusive, ExecutingIsRunning, ExecutingRows
<1>5. Within(rows, {}, Deaths + 1)
  <2>1. ASSUME NEW j \in DOMAIN rows
        PROVE  rows[j].attempts <= MaxAttempts + (Deaths + 1) /\ Spare(rows[j], Deaths + 1)
    <3>1. rows[j].attempts \in Nat /\ rows[j].attempts <= MaxAttempts + Deaths
      BY <1>1, <2>1, TableRows, RowFields DEF IInv, Within, TableOK
    <3>2. QED
      BY <1>1, <3>1 DEF Spare
  <2>2. QED
    BY <2>1 DEF Within
<1>6. TableOK(rows)' /\ Within(rows, ExecutingRows, Deaths)' /\ Kept(rows, rows')
  BY <1>1, <1>2, <1>4, <1>5, KeptItself DEF TableOK, Within, Spare, Fresh
<1>7. QED
  BY <1>3, <1>4, <1>6 DEF Sound, IInv

LEMMA BootStep ==
  ASSUME IInv, Boot
  PROVE  Sound
<1>1. /\ TypeOK /\ LaneOK /\ now \in Nat /\ boots \in Nat /\ Deaths \in Nat /\ TableOK(rows)
      /\ Within(rows, ExecutingRows, Deaths) /\ proc = "down"
  BY DeathsIsNat DEF IInv, TypeOK, Boot
<1>2. inFlight = NoLane /\ ExecutingRows = {} /\ \A l \in Lanes : pc[l] = "idle"
  BY <1>1, FreeLane DEF LaneOK
<1>3. TableOK(Recovered(rows)) /\ Within(Recovered(rows), {}, Deaths) /\ Kept(rows, Recovered(rows))
  BY <1>1, <1>2, RecoveredStep
<1>4. PICK S \in SUBSET SelfStores : rows' \in Swept(Recovered(rows), S)
  BY DEF Boot
<1>5. TableOK(rows') /\ Within(rows', {}, Deaths) /\ Kept(Recovered(rows), rows')
  BY <1>1, <1>3, <1>4, SweptStep
<1>6. Kept(rows, rows')
  BY <1>1, <1>3, <1>5, KeptTransitive
<1>7. Deaths' = Deaths
  BY <1>1 DEF Boot, Deaths
<1>8. TypeOK'
  BY <1>1, <1>5 DEF Boot, TypeOK, TableOK
<1>9. LaneOK' /\ ExecutingIsRunning' /\ ExecutingRows' = {}
  BY <1>1, <1>2 DEF Boot, LaneOK, LaneExclusive, ExecutingIsRunning, ExecutingRows
<1>10. TableOK(rows)' /\ Within(rows, ExecutingRows, Deaths)'
  BY <1>5, <1>7, <1>9 DEF TableOK, Within, Spare, Fresh
<1>11. QED
  BY <1>6, <1>8, <1>9, <1>10 DEF Sound, IInv

-----------------------------------------------------------------------------
\* The theorems.

LEMMA InitIInv == Init => IInv
<1> SUFFICES ASSUME Init PROVE IInv
  OBVIOUS
<1>1. rows = <<>> /\ rows \in Seq(Job) /\ DOMAIN rows = {}
  BY DEF Init
<1>2. TypeOK
  BY <1>1 DEF Init, TypeOK, Pc, Kind
<1>3. LaneOK /\ ExecutingIsRunning
  BY DEF Init, LaneOK, LaneExclusive, ExecutingIsRunning
<1>4. TableOK(rows) /\ Within(rows, ExecutingRows, Deaths)
  BY <1>1 DEF TableOK, Within
<1>5. QED
  BY <1>2, <1>3, <1>4 DEF IInv

LEMMA NextSound == IInv /\ [Next]_vars => Sound
<1> SUFFICES ASSUME IInv, [Next]_vars PROVE Sound
  OBVIOUS
<1>1. ASSUME NEW l \in Lanes, Drain(l) PROVE Sound
  BY <1>1, DrainStep
<1>2. ASSUME NEW l \in Lanes, PassEnds(l) PROVE Sound
  BY <1>2, PassEndsStep
<1>3. ASSUME NEW l \in Lanes, NextWake(l) PROVE Sound
  BY <1>3, NextWakeStep
<1>4. ASSUME NEW l \in Lanes, Release(l) PROVE Sound
  BY <1>4, ReleaseStep
<1>5. ASSUME NEW s \in Stores, Request(s) PROVE Sound
  BY <1>5, RequestStep
<1>6. ASSUME NEW s \in Stores, LateRequest(s) PROVE Sound
  BY <1>6, LateRequestStep
<1>7. CASE Sweep
  BY <1>7, SweepStep
<1>8. CASE Tick
  BY <1>8, TickStep
<1>9. CASE Boot
  BY <1>9, BootStep
<1>10. CASE Stop
  BY <1>10, StopStep
<1>11. CASE Exit
  BY <1>11, MemoryLostStep DEF Exit
<1>12. CASE Crash
  BY <1>12, MemoryLostStep DEF Crash
<1>13. CASE UNCHANGED vars
  <2>1. IInv'
    BY <1>13 DEF vars, IInv, TypeOK, LaneOK, LaneExclusive, ExecutingIsRunning,
                 TableOK, Fresh, Within, Spare, ExecutingRows, Deaths
  <2>2. Kept(rows, rows')
    BY <1>13, KeptItself DEF vars, IInv
  <2>3. QED
    BY <2>1, <2>2 DEF Sound
<1>14. QED
  BY <1>1, <1>2, <1>3, <1>4, <1>5, <1>6, <1>7, <1>8, <1>9, <1>10, <1>11, <1>12,
     <1>13 DEF Next

LEMMA Invariance == Spec => []IInv
<1>1. IInv /\ [Next]_vars => IInv'
  BY NextSound DEF Sound
<1>2. QED
  BY InitIInv, <1>1, PTL DEF Spec

\* The table and the worker's memory keep their shape: in particular a failed
\* row's next attempt is always dated (failJob).
THEOREM TypeCorrect == Spec => []TypeOK
<1>1. IInv => TypeOK
  BY DEF IInv
<1>2. QED
  BY Invariance, <1>1, PTL

\* No two promises of acquireAndRun are ever active at once, so no two passes
\* of one process overlap, whatever timers, wakes and requests interleave; and
\* no reclaim of an expired lease and no recovery takes a row away from the
\* pass that executes it.
THEOREM LaneIsExclusive == Spec => []OnePassAtATime
<1>1. IInv => OnePassAtATime
  BY DEF IInv, LaneOK, OnePassAtATime
<1>2. QED
  BY Invariance, <1>1, PTL

\* Coalescing in enqueue and in enqueueAll: one fresh row a store at most.
THEOREM FreshRowIsUnique == Spec => []OneFreshRowPerStore
<1>1. IInv => OneFreshRowPerStore
  BY DEF IInv, TableOK, Fresh, OneFreshRowPerStore
<1>2. QED
  BY Invariance, <1>1, PTL

\* However a row fails, is abandoned and is reclaimed, its attempts exceed
\* MAX_ATTEMPTS by no more than the number of processes that died, and failJob
\* dead-letters none that has not used them up.
THEOREM AttemptsAreBounded == Spec => []AttemptsLimited
<1>1. IInv => AttemptsBounded
  BY DEF IInv, Within, Spare, AttemptsBounded
<1>2. IInv => DeadIsExhausted
  BY DEF IInv, TableOK, DeadIsExhausted
<1>3. QED
  BY Invariance, <1>1, <1>2, PTL DEF AttemptsLimited

\* No step of the worker touches a settled row, moves a row to another store
\* or takes an attempt back.
THEOREM SettledRowIsFinal == Spec => SettledIsFinal
<1>1. IInv /\ [Next]_vars =>
        [\A j \in DOMAIN rows :
           /\ j \in DOMAIN rows'
           /\ Terminal(rows[j]) => rows'[j] = rows[j]
           /\ rows'[j].store = rows[j].store
           /\ rows'[j].attempts >= rows[j].attempts]_vars
  BY NextSound DEF Sound, Kept
<1>2. QED
  BY Invariance, <1>1, PTL DEF Spec, SettledIsFinal

-----------------------------------------------------------------------------
\* Wakes.

\* A row that was never attempted has waited for nothing since time t.
FreshBy(tbl, t) == \A k \in DOMAIN tbl : Fresh(tbl[k]) => tbl[k].due <= t

\* No row of tbl becomes fresh in new, nor does a fresh one change.
FreshAsBefore(tbl, new) ==
  /\ DOMAIN new = DOMAIN tbl
  /\ \A k \in DOMAIN tbl : Fresh(new[k]) => new[k] = tbl[k]

\* Some signalled row waits; the lane's holder, or the latch, will see it.
Waiting == \E j \in signalled : Woken(j)

Attended ==
  /\ inFlight # NoLane
  /\ wakeRequested \/ (kind[inFlight] = "wake" /\ pc[inFlight] \in {"running", "next"})

WakeInv ==
  /\ IInv
  /\ FreshBy(rows, now)
  /\ signalled \subseteq DOMAIN rows
  /\ proc = "down" => signalled = {}
  /\ Waiting => Attended

LEMMA WakeNotLostIs ==
  WakeNotLost <=> (Waiting => Attended)
BY DEF WakeNotLost, Waiting, Attended

-----------------------------------------------------------------------------
\* What the operations of the queue do to fresh rows.

LEMMA AsBeforeBy ==
  ASSUME NEW tbl, NEW new, NEW t, FreshAsBefore(tbl, new), FreshBy(tbl, t)
  PROVE  FreshBy(new, t)
BY DEF FreshAsBefore, FreshBy

\* A row replaced by one that is not fresh.
LEMMA ReplacedAsBefore ==
  ASSUME NEW tbl \in Seq(Job), NEW j \in DOMAIN tbl, NEW row, ~Fresh(row)
  PROVE  FreshAsBefore(tbl, [tbl EXCEPT ![j] = row])
BY DEF FreshAsBefore

LEMMA ClaimedAsBefore ==
  ASSUME NEW tbl \in Seq(Job), NEW j \in DOMAIN tbl
  PROVE  FreshAsBefore(tbl, Claimed(tbl, j))
<1> DEFINE row == [tbl[j] EXCEPT !.status = "running", !.attempts = @ + 1,
                                 !.lease = now + LeaseTime]
<1>1. tbl[j] \in Job
  BY TableRows
<1>2. ~Fresh(row)
  BY <1>1 DEF Job, Fresh
<1>3. Claimed(tbl, j) = [tbl EXCEPT ![j] = row]
  BY DEF Claimed
<1> HIDE DEF row
<1> QED
  BY <1>2, <1>3, ReplacedAsBefore

\* A row whose pass ran was attempted, whichever way the pass ended.
LEMMA EndedAsBefore ==
  ASSUME NEW tbl \in Seq(Job), NEW j \in DOMAIN tbl, tbl[j].attempts # 0,
         NEW new \in {Completed(tbl, j), Failed(tbl, j)}
  PROVE  FreshAsBefore(tbl, new)
<1> DEFINE done == [tbl[j] EXCEPT !.status = "done", !.lease = NoLease]
           dead == [tbl[j] EXCEPT !.status = "dead", !.lease = NoLease]
           again == [tbl[j] EXCEPT !.status = "pending",
                                   !.due = now + Backoff[tbl[j].attempts],
                                   !.lease = NoLease]
<1>1. tbl[j] \in Job
  BY TableRows
<1>2. \/ new = [tbl EXCEPT ![j] = done]
      \/ new = [tbl EXCEPT ![j] = dead]
      \/ new = [tbl EXCEPT ![j] = again]
  BY DEF Completed, Failed
<1>3. ~Fresh(done) /\ ~Fresh(dead) /\ ~Fresh(again)
  BY <1>1 DEF Job, Fresh
<1> HIDE DEF done, dead, again
<1>4. /\ FreshAsBefore(tbl, [tbl EXCEPT ![j] = done])
      /\ FreshAsBefore(tbl, [tbl EXCEPT ![j] = dead])
      /\ FreshAsBefore(tbl, [tbl EXCEPT ![j] = again])
  BY <1>3, ReplacedAsBefore
<1> QED
  BY <1>2, <1>4

LEMMA RecoveredAsBefore ==
  ASSUME NEW tbl, TableOK(tbl)
  PROVE  FreshAsBefore(tbl, Recovered(tbl))
<1>1. DOMAIN Recovered(tbl) = DOMAIN tbl
  BY DEF Recovered
<1>2. ASSUME NEW k \in DOMAIN tbl, Abandoned(tbl[k])
      PROVE  ~Fresh(Recovered(tbl)[k])
  <2>1. tbl[k] \in Job /\ tbl[k].attempts # 0
    BY <1>2, TableRows, RowFields DEF TableOK, Abandoned
  <2>2. Recovered(tbl)[k] = [tbl[k] EXCEPT !.status = "pending", !.lease = NoLease]
    BY <1>2 DEF Recovered
  <2> QED
    BY <2>1, <2>2 DEF Job, Fresh
<1>3. ASSUME NEW k \in DOMAIN tbl, ~Abandoned(tbl[k])
      PROVE  Recovered(tbl)[k] = tbl[k]
  BY <1>3 DEF Recovered
<1> QED
  BY <1>1, <1>2, <1>3 DEF FreshAsBefore

\* enqueue: a fresh row is due, and it is one of the store or one as before.
LEMMA EnqueuedFresh ==
  ASSUME now \in Nat, NEW tbl, TableOK(tbl), FreshBy(tbl, now),
         NEW s \in Stores, NEW p \in Priority, NEW new \in Enqueued(tbl, s, p)
  PROVE  FreshBy(new, now)
<1>1. tbl \in Seq(Job) /\ Len(tbl) \in Nat /\ DOMAIN tbl = 1..Len(tbl)
  BY TableRows DEF TableOK
<1>2. CASE Pending(tbl, s) = {}
  <2>1. new = Append(tbl, FreshRow(s, p)) /\ FreshRow(s, p) \in Job
    BY <1>2, FreshRowIsJob DEF Enqueued
  <2>2. FreshRow(s, p).due <= now
    BY DEF FreshRow
  <2>3. /\ DOMAIN new = 1..(Len(tbl) + 1)
        /\ new[Len(tbl) + 1] = FreshRow(s, p)
        /\ \A k \in 1..Len(tbl) : new[k] = tbl[k]
    BY <1>1, <2>1, AppendProperties
  <2>4. \A k \in DOMAIN new : k \in DOMAIN tbl \/ k = Len(tbl) + 1
    BY <1>1, <2>3
  <2> QED
    BY <1>1, <2>2, <2>3, <2>4 DEF FreshBy
<1>3. CASE Pending(tbl, s) # {}
  <2>1. PICK j \in DOMAIN tbl : new = Raised(tbl, j, p)
    BY <1>3 DEF Enqueued, Pending
  <2>2. tbl[j] \in Job
    BY <1>1, TableRows
  <2> DEFINE row == [tbl[j] EXCEPT !.priority = p]
  <2>3. new = [tbl EXCEPT ![j] = row] \/ new = tbl
    BY <2>1 DEF Raised
  <2>4. row.due = tbl[j].due /\ (Fresh(row) => Fresh(tbl[j]))
    BY <2>2 DEF Job, Fresh
  <2> HIDE DEF row
  <2> QED
    BY <2>3, <2>4 DEF FreshBy
<1> QED
  BY <1>2, <1>3

\* enqueueAll: a row is as before, or a passive one that is due.
LEMMA SweptRows ==
  ASSUME now \in Nat, NEW tbl, TableOK(tbl),
         NEW S \in SUBSET SelfStores, NEW new \in Swept(tbl, S), NEW k \in DOMAIN new
  PROVE  \/ k \in DOMAIN tbl /\ new[k] = tbl[k]
         \/ new[k].due = now /\ new[k].priority = PASSIVE
<1> DEFINE D == {s \in S : Pending(tbl, s) = {}}
           N == Cardinality(D)
<1>1. D \subseteq Stores /\ N \in Nat
  <2>1. D \subseteq Stores
    BY WorkerAssumption
  <2>2. IsFiniteSet(D)
    BY <2>1, FS_Subset, QueueAssumption
  <2>3. QED
    BY <2>1, <2>2, FS_CardinalityType
<1>2. PICK o \in Orders(D) : new = tbl \o [i \in DOMAIN o |-> FreshRow(o[i], PASSIVE)]
  BY DEF Swept
<1>3. o \in [1..N -> D]
  BY <1>2 DEF Orders
<1> DEFINE t == [i \in DOMAIN o |-> FreshRow(o[i], PASSIVE)]
<1>4. DOMAIN t = 1..N /\ \A i \in 1..N : t[i] = FreshRow(o[i], PASSIVE)
  BY <1>3
<1>5. new = tbl \o t /\ t = [i \in 1..N |-> t[i]]
  BY <1>2, <1>3
<1> HIDE DEF t, N, D
<1>6. ASSUME NEW i \in 1..N
      PROVE  t[i] \in Job /\ t[i].due = now /\ t[i].priority = PASSIVE
  <2>1. o[i] \in Stores /\ t[i] = FreshRow(o[i], PASSIVE) /\ PASSIVE \in Priority
    BY <1>1, <1>3, <1>4 DEF Priority
  <2>2. FreshRow(o[i], PASSIVE) \in Job
    BY <2>1, FreshRowIsJob
  <2> QED
    BY <2>1, <2>2 DEF FreshRow
<1>7. t \in Seq(Job) /\ tbl \in Seq(Job) /\ Len(t) = N
  <2>1. t \in [1..N -> Job]
    BY <1>4, <1>5, <1>6
  <2>2. t \in Seq(Job)
    BY <1>1, <2>1, SeqDef
  <2> QED
    BY <1>1, <1>4, <2>2, LenProperties DEF TableOK
<1>8. /\ Len(tbl) \in Nat /\ DOMAIN tbl = 1..Len(tbl)
      /\ new \in Seq(Job) /\ Len(new) = Len(tbl) + N
      /\ \A m \in 1..(Len(tbl) + N) : new[m] = IF m <= Len(tbl) THEN tbl[m] ELSE t[m - Len(tbl)]
  BY <1>5, <1>7, LenProperties, ConcatProperties
<1>9. k \in 1..(Len(tbl) + N)
  BY <1>8, LenProperties
<1>10. CASE k <= Len(tbl)
  BY <1>8, <1>9, <1>10
<1>11. CASE ~(k <= Len(tbl))
  <2>1. k - Len(tbl) \in 1..N
    BY <1>1, <1>8, <1>9, <1>11
  <2>2. new[k] = t[k - Len(tbl)]
    BY <1>8, <1>9, <1>11
  <2> QED
    BY <1>6, <2>1, <2>2
<1> QED
  BY <1>10, <1>11

-----------------------------------------------------------------------------
\* The steps.

\* A fresh row that waits after a step which made none was waiting before it.
LEMMA StillWaiting ==
  ASSUME FreshAsBefore(rows, rows'), signalled' \subseteq signalled,
         signalled \subseteq DOMAIN rows, proc' = proc
  PROVE  Waiting' => Waiting
BY DEF Waiting, Woken, FreshAsBefore, Fresh

\* A wake pass that claims on table tbl attends to everything: it runs on, or
\* nothing of explicit priority was ready.
LEMMA WakeClaims ==
  ASSUME IInv, NEW l \in Lanes, NEW tbl, TableOK(tbl), FreshBy(tbl, now),
         ClaimOrYield(l, "wake", tbl), inFlight' = l, kind'[l] = "wake",
         signalled' \subseteq DOMAIN tbl
  PROVE  /\ FreshBy(rows', now)
         /\ signalled' \subseteq DOMAIN rows'
         /\ Waiting' => Attended'
<1>1. pc \in [Lanes -> Pc] /\ tbl \in Seq(Job) /\ l # NoLane /\ now \in Nat
  BY WorkerAssumption DEF IInv, TypeOK, TableOK
<1>2. CASE \E j \in First(tbl, Floor("wake")) :
             /\ rows' = Claimed(tbl, j)
             /\ pc'   = [pc EXCEPT ![l] = "running"]
  <2>1. PICK j \in First(tbl, Floor("wake")) :
             /\ rows' = Claimed(tbl, j)
             /\ pc'   = [pc EXCEPT ![l] = "running"]
    BY <1>2
  <2>2. j \in DOMAIN tbl
    BY DEF First, Ready
  <2>3. FreshAsBefore(tbl, rows')
    BY <1>1, <2>1, <2>2, ClaimedAsBefore
  <2>4. FreshBy(rows', now) /\ DOMAIN rows' = DOMAIN tbl
    BY <2>3, AsBeforeBy DEF FreshAsBefore
  <2>5. Attended'
    BY <1>1, <2>1 DEF Attended
  <2> QED
    BY <2>4, <2>5
<1>3. CASE Ready(tbl, Floor("wake")) = {} /\ rows' = tbl
  <2>1. ASSUME NEW j \in signalled', Woken(j)'
        PROVE  FALSE
    <3>1. /\ j \in DOMAIN tbl /\ tbl[j].status = "pending" /\ tbl[j].attempts = 0
          /\ tbl[j].priority = EXPLICIT
      BY <1>3, <2>1 DEF Woken
    <3>2. tbl[j].due <= now
      BY <3>1 DEF FreshBy, Fresh
    <3>3. j \in Ready(tbl, Floor("wake"))
      BY <3>1, <3>2 DEF Ready, Floor, EXPLICIT
    <3> QED
      BY <1>3, <3>3
  <2> QED
    BY <1>3, <2>1 DEF Waiting
<1> QED
  BY <1>2, <1>3 DEF ClaimOrYield

LEMMA DrainWake ==
  ASSUME WakeInv, NEW l \in Lanes, Drain(l)
  PROVE  WakeInv'
<1>1. IInv' /\ IInv
  BY DrainStep DEF WakeInv, Sound
<1>2. ~Waiting
  BY DEF WakeInv, Attended, Drain, LaneFree
<1>3. rows \in Seq(Job)
  BY <1>1 DEF IInv, TypeOK
<1>4. FreshAsBefore(rows, rows')
  <2>1. CASE \E j \in First(rows, Floor("drain")) : rows' = Claimed(rows, j)
    BY <1>3, <2>1, ClaimedAsBefore DEF First, Ready
  <2>2. CASE rows' = rows
    BY <2>2 DEF FreshAsBefore
  <2> QED
    BY <2>1, <2>2 DEF Drain, Acquire, ClaimOrYield
<1>5. UNCHANGED <<now, proc, signalled>>
  BY DEF Drain
<1>6. FreshBy(rows', now) /\ DOMAIN rows' = DOMAIN rows
  BY <1>4, AsBeforeBy DEF WakeInv, FreshAsBefore
<1>7. ~Waiting'
  BY <1>2, <1>4, <1>5, StillWaiting DEF WakeInv
<1> QED
  BY <1>1, <1>5, <1>6, <1>7 DEF WakeInv, FreshBy, Fresh

LEMMA PassEndsWake ==
  ASSUME WakeInv, NEW l \in Lanes, PassEnds(l)
  PROVE  WakeInv'
<1>1. IInv' /\ IInv
  BY PassEndsStep DEF WakeInv, Sound
<1>2. /\ inFlight = l /\ job[l] \in DOMAIN rows /\ rows[job[l]].status = "running"
      /\ pc \in [Lanes -> Pc] /\ l # NoLane
  BY <1>1, HeldLane, WorkerAssumption DEF PassEnds, IInv, TypeOK
<1>3. rows \in Seq(Job) /\ rows[job[l]].attempts # 0
  BY <1>1, <1>2, TableRows, RowFields DEF IInv, TableOK
<1>4. FreshAsBefore(rows, rows')
  BY <1>2, <1>3, EndedAsBefore DEF PassEnds
<1>5. UNCHANGED <<now, proc, signalled, inFlight, kind, wakeRequested>>
  BY DEF PassEnds
<1>6. FreshBy(rows', now) /\ DOMAIN rows' = DOMAIN rows
  BY <1>4, AsBeforeBy DEF WakeInv, FreshAsBefore
<1>7. Waiting' => Waiting
  BY <1>4, <1>5, StillWaiting DEF WakeInv
<1>8. Attended => Attended'
  <2>1. kind[l] = "wake" => pc'[l] = "next"
    BY <1>2 DEF PassEnds
  <2> QED
    BY <1>2, <1>5, <2>1 DEF Attended
<1> QED
  BY <1>1, <1>5, <1>6, <1>7, <1>8 DEF WakeInv, FreshBy, Fresh

\* A wake pass cut short at the bound forgets whom it was woken for: the drain
\* timer will find them.
LEMMA NextWakeWake ==
  ASSUME WakeInv, NEW l \in Lanes, NextWake(l), kind[l] = "wake"
  PROVE  WakeInv'
<1>1. IInv' /\ IInv
  BY NextWakeStep DEF WakeInv, Sound
<1>2. inFlight = l /\ l # NoLane /\ proc # "down" /\ TableOK(rows)
  BY <1>1, HeldLane, WorkerAssumption DEF NextWake, IInv
<1>3. UNCHANGED <<now, proc, boots, inFlight, wakeRequested, kind>>
  BY DEF NextWake
<1>4. CASE ClaimOrYield(l, "wake", rows) /\ UNCHANGED signalled
  <2>1. /\ FreshBy(rows', now)
        /\ signalled' \subseteq DOMAIN rows'
        /\ Waiting' => Attended'
    BY <1>1, <1>2, <1>3, <1>4, WakeClaims DEF WakeInv
  <2> QED
    BY <1>1, <1>2, <1>3, <2>1 DEF WakeInv, FreshBy, Fresh
<1>5. CASE signalled' = (IF wakeRequested THEN signalled ELSE {}) /\ rows' = rows
  <2>1. Waiting' => Attended'
    BY <1>2, <1>3, <1>5 DEF Waiting, Attended
  <2> QED
    BY <1>1, <1>2, <1>3, <1>5, <2>1 DEF WakeInv, FreshBy, Fresh
<1> QED
  BY <1>4, <1>5 DEF NextWake

LEMMA ReleaseWake ==
  ASSUME WakeInv, NEW l \in Lanes, Release(l)
  PROVE  WakeInv'
<1>1. IInv' /\ IInv
  BY ReleaseStep DEF WakeInv, Sound
<1>2. /\ inFlight = l /\ l # NoLane /\ proc # "down" /\ TableOK(rows)
      /\ kind \in [Lanes -> Kind] /\ pc[l] = "releasing"
  BY <1>1, HeldLane, WorkerAssumption DEF Release, IInv, TypeOK
<1>3. UNCHANGED <<now, proc, signalled>>
  BY DEF Release
<1>4. CASE Acquire(l, "wake", rows)
  <2>1. ClaimOrYield(l, "wake", rows) /\ inFlight' = l /\ kind'[l] = "wake"
    BY <1>2, <1>4 DEF Acquire
  <2>2. /\ FreshBy(rows', now)
        /\ signalled' \subseteq DOMAIN rows'
        /\ Waiting' => Attended'
    BY <1>1, <1>2, <1>3, <2>1, WakeClaims DEF WakeInv
  <2> QED
    BY <1>1, <1>2, <1>3, <2>2 DEF WakeInv, FreshBy, Fresh
<1>5. CASE ~(wakeRequested /\ proc = "up") /\ rows' = rows
  <2>1. ~Waiting
    BY <1>2, <1>5 DEF WakeInv, Waiting, Woken, Attended
  <2>2. ~Waiting'
    BY <1>3, <1>5, <2>1 DEF Waiting, Woken
  <2> QED
    BY <1>1, <1>2, <1>3, <1>5, <2>2 DEF WakeInv, FreshBy, Fresh
<1> QED
  BY <1>4, <1>5 DEF Release

\* wake() runs at once on a free lane and sets the latch on a busy one.
LEMMA RequestWake ==
  ASSUME WakeInv, NEW s \in Stores, Request(s)
  PROVE  WakeInv'
<1>1. IInv' /\ IInv
  BY RequestStep DEF WakeInv, Sound
<1>2. PICK tbl \in Enqueued(rows, s, EXPLICIT) :
        Wake(tbl) /\ signalled' = signalled \cup Pending(tbl, s)
  BY DEF Request
<1>3. proc' = "up" /\ now' = now
  BY DEF Request
<1>4. now \in Nat /\ EXPLICIT \in Priority /\ TableOK(rows) /\ Deaths \in Nat
      /\ Within(rows, ExecutingRows, Deaths)
  BY <1>1, DeathsIsNat DEF IInv, TypeOK, Priority
<1>5. TableOK(tbl) /\ DOMAIN rows \subseteq DOMAIN tbl
  BY <1>4, EnqueuedStep DEF Kept
<1>6. FreshBy(tbl, now)
  BY <1>4, EnqueuedFresh DEF WakeInv
<1>7. signalled' \subseteq DOMAIN tbl
  BY <1>2, <1>5 DEF WakeInv, Pending
<1>8. CASE \E l \in Lanes : LaneFree(l) /\ Acquire(l, "wake", tbl)
  <2>1. PICK l \in Lanes : Acquire(l, "wake", tbl)
    BY <1>8
  <2>2. ClaimOrYield(l, "wake", tbl) /\ inFlight' = l /\ kind'[l] = "wake"
    BY <1>1, <2>1 DEF Acquire, IInv, TypeOK
  <2>3. /\ FreshBy(rows', now)
        /\ signalled' \subseteq DOMAIN rows'
        /\ Waiting' => Attended'
    BY <1>1, <1>5, <1>6, <1>7, <2>2, WakeClaims
  <2> QED
    BY <1>1, <1>3, <2>3 DEF WakeInv, FreshBy, Fresh
<1>9. CASE inFlight # NoLane /\ inFlight' = inFlight /\ wakeRequested' = TRUE /\ rows' = tbl
  <2>1. Attended'
    BY <1>9 DEF Attended
  <2> QED
    BY <1>1, <1>3, <1>6, <1>7, <1>9, <2>1 DEF WakeInv, FreshBy, Fresh
<1> QED
  BY <1>2, <1>8, <1>9 DEF Wake

\* Nobody is woken any more once shutdown has started.
LEMMA LateRequestWake ==
  ASSUME WakeInv, NEW s \in Stores, LateRequest(s)
  PROVE  WakeInv'
<1>1. IInv' /\ IInv /\ DOMAIN rows \subseteq DOMAIN rows'
  BY LateRequestStep DEF WakeInv, Sound, Kept
<1>2. /\ rows' \in Enqueued(rows, s, EXPLICIT) /\ proc = "stopping"
      /\ UNCHANGED <<now, proc, signalled>>
  BY DEF LateRequest
<1>3. now \in Nat /\ EXPLICIT \in Priority /\ TableOK(rows)
  BY <1>1 DEF IInv, TypeOK, Priority
<1>4. FreshBy(rows', now)
  BY <1>2, <1>3, EnqueuedFresh DEF WakeInv
<1>5. ~Waiting'
  BY <1>2 DEF Waiting, Woken
<1> QED
  BY <1>1, <1>2, <1>4, <1>5 DEF WakeInv, FreshBy, Fresh

\* A sweep leaves the rows it finds alone, and adds passive ones.
LEMMA SweepWake ==
  ASSUME WakeInv, Sweep
  PROVE  WakeInv'
<1>1. IInv' /\ IInv /\ DOMAIN rows \subseteq DOMAIN rows'
  BY SweepStep DEF WakeInv, Sound, Kept
<1>2. PICK S \in SUBSET SelfStores : rows' \in Swept(rows, S)
  BY DEF Sweep
<1>3. UNCHANGED <<now, proc, inFlight, wakeRequested, pc, kind, signalled>>
  BY DEF Sweep
<1>4. now \in Nat /\ TableOK(rows)
  BY <1>1 DEF IInv, TypeOK
<1>5. \A k \in DOMAIN rows' :
        \/ k \in DOMAIN rows /\ rows'[k] = rows[k]
        \/ rows'[k].due = now /\ rows'[k].priority = PASSIVE
  BY <1>2, <1>4, SweptRows
<1>6. FreshBy(rows', now)
  BY <1>4, <1>5 DEF WakeInv, FreshBy
<1>7. Waiting' => Waiting
  BY <1>1, <1>3, <1>5 DEF WakeInv, Waiting, Woken, PASSIVE, EXPLICIT
<1>8. Attended' = Attended
  BY <1>3 DEF Attended
<1> QED
  BY <1>1, <1>3, <1>6, <1>7, <1>8 DEF WakeInv, FreshBy, Fresh

LEMMA TickWake ==
  ASSUME WakeInv, Tick
  PROVE  WakeInv'
<1>1. IInv' /\ now \in Nat /\ TableOK(rows)
  BY TickStep DEF WakeInv, Sound, IInv, TypeOK
<1>2. now' = now + 1 /\ UNCHANGED <<rows, proc, inFlight, wakeRequested, pc, kind, signalled>>
  BY DEF Tick
<1>3. ASSUME NEW k \in DOMAIN rows, Fresh(rows[k])
      PROVE  rows[k].due <= now + 1
  <2>1. rows[k].due \in Nat /\ rows[k].due <= now
    BY <1>1, <1>3, TableRows, RowFields DEF WakeInv, FreshBy, TableOK
  <2> QED
    BY <1>1, <2>1
<1>4. FreshBy(rows, now)'
  BY <1>2, <1>3 DEF FreshBy, Fresh
<1>5. Waiting' => Attended'
  BY <1>2 DEF WakeInv, Waiting, Woken, Attended
<1> QED
  BY <1>1, <1>2, <1>4, <1>5 DEF WakeInv

LEMMA StopWake ==
  ASSUME WakeInv, Stop
  PROVE  WakeInv'
<1>1. IInv'
  BY StopStep DEF WakeInv, Sound
<1>2. proc' = "stopping" /\ UNCHANGED <<rows, now, signalled>>
  BY DEF Stop
<1>3. ~Waiting'
  BY <1>2 DEF Waiting, Woken
<1> QED
  BY <1>1, <1>2, <1>3 DEF WakeInv, FreshBy, Fresh

LEMMA MemoryLostWake ==
  ASSUME WakeInv, proc # "down", MemoryLost
  PROVE  WakeInv'
<1>1. IInv'
  BY MemoryLostStep DEF WakeInv, Sound
<1>2. signalled' = {} /\ UNCHANGED <<rows, now>>
  BY DEF MemoryLost
<1> QED
  BY <1>1, <1>2 DEF WakeInv, FreshBy, Fresh, Waiting

LEMMA BootWake ==
  ASSUME WakeInv, Boot
  PROVE  WakeInv'
<1>1. IInv' /\ IInv
  BY BootStep DEF WakeInv, Sound
<1>2. signalled' = {} /\ now' = now
  BY DEF Boot, WakeInv
<1>3. PICK S \in SUBSET SelfStores : rows' \in Swept(Recovered(rows), S)
  BY DEF Boot
<1>4. /\ TableOK(rows) /\ now \in Nat
      /\ FreshBy(Recovered(rows), now)
  BY <1>1, RecoveredAsBefore, AsBeforeBy DEF WakeInv, IInv, TypeOK
<1>5. TableOK(Recovered(rows))
  <2>1. Within(rows, {}, Deaths) /\ Deaths \in Nat
    BY <1>1, FreeLane, DeathsIsNat DEF IInv, LaneOK, Boot
  <2> QED
    BY <1>4, <2>1, RecoveredStep
<1>6. \A k \in DOMAIN rows' :
        \/ k \in DOMAIN Recovered(rows) /\ rows'[k] = Recovered(rows)[k]
        \/ rows'[k].due = now
  BY <1>3, <1>4, <1>5, SweptRows
<1>7. FreshBy(rows', now)
  BY <1>4, <1>6 DEF FreshBy
<1> QED
  BY <1>1, <1>2, <1>7 DEF WakeInv, FreshBy, Fresh, Waiting

-----------------------------------------------------------------------------
\* The theorem.

\* Only a wake pass goes on to a next iteration.
OnlyWakesLoop == \A l \in Lanes : pc[l] = "next" => kind[l] = "wake"

LEMMA OnlyWakesLoopStep == IInv /\ OnlyWakesLoop /\ [Next]_vars => OnlyWakesLoop'
<1> SUFFICES ASSUME IInv, OnlyWakesLoop, [Next]_vars PROVE OnlyWakesLoop'
  OBVIOUS
<1>1. pc \in [Lanes -> Pc] /\ kind \in [Lanes -> Kind]
  BY DEF IInv, TypeOK
<1>2. ASSUME NEW l \in Lanes, NEW k, NEW tbl, Acquire(l, k, tbl) PROVE OnlyWakesLoop'
  BY <1>1, <1>2 DEF Acquire, ClaimOrYield, OnlyWakesLoop
<1>3. ASSUME NEW l \in Lanes, PassEnds(l) PROVE OnlyWakesLoop'
  BY <1>1, <1>3 DEF PassEnds, OnlyWakesLoop
<1>4. ASSUME NEW l \in Lanes, NextWake(l) PROVE OnlyWakesLoop'
  BY <1>1, <1>4 DEF NextWake, ClaimOrYield, OnlyWakesLoop
<1>5. ASSUME NEW l \in Lanes, Settled(l) PROVE OnlyWakesLoop'
  BY <1>1, <1>5 DEF Settled, OnlyWakesLoop
<1>6. CASE UNCHANGED <<pc, kind>>
  BY <1>6 DEF OnlyWakesLoop
<1>7. ASSUME MemoryLost PROVE OnlyWakesLoop'
  BY <1>7 DEF MemoryLost, OnlyWakesLoop
<1>8. ASSUME NEW l \in Lanes, Drain(l) \/ Release(l) PROVE OnlyWakesLoop'
  BY <1>2, <1>5, <1>8 DEF Drain, Release
<1>9. ASSUME NEW s \in Stores, Request(s) PROVE OnlyWakesLoop'
  BY <1>2, <1>6, <1>9 DEF Request, Wake
<1>10. CASE Exit \/ Crash
  BY <1>7, <1>10 DEF Exit, Crash
<1>11. ASSUME \/ \E s \in Stores : LateRequest(s)
              \/ Sweep \/ Tick \/ Boot \/ Stop \/ UNCHANGED vars
       PROVE  OnlyWakesLoop'
  BY <1>6, <1>11 DEF LateRequest, Sweep, Tick, Boot, Stop, vars
<1> QED
  BY <1>3, <1>4, <1>8, <1>9, <1>10, <1>11 DEF Next

LEMMA WakeInvStep == WakeInv /\ OnlyWakesLoop /\ [Next]_vars => WakeInv'
<1> SUFFICES ASSUME WakeInv, OnlyWakesLoop, [Next]_vars PROVE WakeInv'
  OBVIOUS
<1>1. ASSUME NEW l \in Lanes, Drain(l) PROVE WakeInv'
  BY <1>1, DrainWake
<1>2. ASSUME NEW l \in Lanes, PassEnds(l) PROVE WakeInv'
  BY <1>2, PassEndsWake
<1>3. ASSUME NEW l \in Lanes, NextWake(l) PROVE WakeInv'
  BY <1>3, NextWakeWake DEF OnlyWakesLoop, NextWake
<1>4. ASSUME NEW l \in Lanes, Release(l) PROVE WakeInv'
  BY <1>4, ReleaseWake
<1>5. ASSUME NEW s \in Stores, Request(s) PROVE WakeInv'
  BY <1>5, RequestWake
<1>6. ASSUME NEW s \in Stores, LateRequest(s) PROVE WakeInv'
  BY <1>6, LateRequestWake
<1>7. CASE Sweep
  BY <1>7, SweepWake
<1>8. CASE Tick
  BY <1>8, TickWake
<1>9. CASE Boot
  BY <1>9, BootWake
<1>10. CASE Stop
  BY <1>10, StopWake
<1>11. CASE Exit
  BY <1>11, MemoryLostWake DEF Exit
<1>12. CASE Crash
  BY <1>12, MemoryLostWake DEF Crash
<1>13. CASE UNCHANGED vars
  <2>1. IInv'
    BY <1>13, NextSound DEF WakeInv, Sound
  <2>2. UNCHANGED <<rows, now, proc, inFlight, wakeRequested, pc, kind, signalled>>
    BY <1>13 DEF vars
  <2> QED
    BY <2>1, <2>2 DEF WakeInv, FreshBy, Fresh, Waiting, Woken, Attended
<1> QED
  BY <1>1, <1>2, <1>3, <1>4, <1>5, <1>6, <1>7, <1>8, <1>9, <1>10, <1>11, <1>12,
     <1>13 DEF Next

\* wake() on a busy lane is not dropped: while a fresh explicit row that this
\* process was woken for waits, a wake pass is still claiming, or the latch is
\* set for the lane's holder to serve in its finally block; a wake pass ends
\* early only when no such row is ready, at its bound, or at shutdown.
THEOREM WakeIsNotLost == Spec => []WakeNotLost
<1>1. Init => WakeInv /\ OnlyWakesLoop
  <2> SUFFICES ASSUME Init PROVE WakeInv /\ OnlyWakesLoop
    OBVIOUS
  <2>1. IInv
    BY InitIInv
  <2>2. DOMAIN rows = {} /\ signalled = {} /\ \A l \in Lanes : pc[l] = "idle"
    BY DEF Init
  <2> QED
    BY <2>1, <2>2 DEF WakeInv, OnlyWakesLoop, FreshBy, Waiting
<1>2. (WakeInv /\ OnlyWakesLoop) /\ [Next]_vars => (WakeInv /\ OnlyWakesLoop)'
  BY WakeInvStep, OnlyWakesLoopStep DEF WakeInv
<1>3. WakeInv => WakeNotLost
  BY WakeNotLostIs DEF WakeInv
<1> QED
  BY <1>1, <1>2, <1>3, PTL DEF Spec

-----------------------------------------------------------------------------
\* The worker implements DistillService.

\* The stores owed by a table of which the rows of E are executing.
Debts(tbl, E) ==
  {tbl[j].store : j \in {i \in DOMAIN tbl : ~Terminal(tbl[i]) /\ i \notin E}}

LEMMA OwedAreDebts ==
  /\ OwedStores = Debts(rows, ExecutingRows)
  /\ OwedStores' = Debts(rows', ExecutingRows')
BY DEF OwedStores, Debts, Executing, ExecutingRows

\* A store is owed on account of some row.
LEMMA DebtRow ==
  ASSUME NEW tbl, NEW E, NEW s
  PROVE  s \in Debts(tbl, E) <=>
           \E j \in DOMAIN tbl : ~Terminal(tbl[j]) /\ j \notin E /\ tbl[j].store = s
BY DEF Debts

\* One row of a table is replaced by another of its store.
OneRowChanges(tbl, new, j, status) ==
  /\ j \in DOMAIN tbl
  /\ DOMAIN new = DOMAIN tbl
  /\ new[j].store = tbl[j].store
  /\ new[j].status = status
  /\ \A k \in DOMAIN tbl \ {j} : new[k] = tbl[k]

LEMMA ReplacedRow ==
  ASSUME NEW tbl \in Seq(Job), NEW j \in DOMAIN tbl, NEW row,
         row.store = tbl[j].store
  PROVE  OneRowChanges(tbl, [tbl EXCEPT ![j] = row], j, row.status)
BY DEF OneRowChanges

LEMMA ClaimedRow ==
  ASSUME NEW tbl \in Seq(Job), NEW j \in DOMAIN tbl
  PROVE  OneRowChanges(tbl, Claimed(tbl, j), j, "running")
<1> DEFINE row == [tbl[j] EXCEPT !.status = "running", !.attempts = @ + 1,
                                 !.lease = now + LeaseTime]
<1>1. tbl[j] \in Job
  BY TableRows
<1>2. row.store = tbl[j].store /\ row.status = "running"
  BY <1>1 DEF Job
<1>3. Claimed(tbl, j) = [tbl EXCEPT ![j] = row]
  BY DEF Claimed
<1> HIDE DEF row
<1> QED
  BY <1>2, <1>3, ReplacedRow

LEMMA EndedRow ==
  ASSUME NEW tbl \in Seq(Job), NEW j \in DOMAIN tbl,
         NEW new \in {Completed(tbl, j), Failed(tbl, j)}
  PROVE  \E st \in Status : OneRowChanges(tbl, new, j, st)
<1>1. tbl[j] \in Job
  BY TableRows
<1> DEFINE done == [tbl[j] EXCEPT !.status = "done", !.lease = NoLease]
           dead == [tbl[j] EXCEPT !.status = "dead", !.lease = NoLease]
           again == [tbl[j] EXCEPT !.status = "pending",
                                   !.due = now + Backoff[tbl[j].attempts],
                                   !.lease = NoLease]
<1>2. \/ new = [tbl EXCEPT ![j] = done]
      \/ new = [tbl EXCEPT ![j] = dead]
      \/ new = [tbl EXCEPT ![j] = again]
  BY DEF Completed, Failed
<1>3. /\ done.store = tbl[j].store /\ done.status = "done"
      /\ dead.store = tbl[j].store /\ dead.status = "dead"
      /\ again.store = tbl[j].store /\ again.status = "pending"
  BY <1>1 DEF Job
<1>4. {"done", "dead", "pending"} \subseteq Status
  BY DEF Status
<1> HIDE DEF done, dead, again
<1>5. CASE new = [tbl EXCEPT ![j] = done]
  BY <1>3, <1>4, <1>5, ReplacedRow
<1>6. CASE new = [tbl EXCEPT ![j] = dead]
  BY <1>3, <1>4, <1>6, ReplacedRow
<1>7. CASE new = [tbl EXCEPT ![j] = again]
  BY <1>3, <1>4, <1>7, ReplacedRow
<1> QED
  BY <1>2, <1>5, <1>6, <1>7

-----------------------------------------------------------------------------
\* What the operations of the queue do to the debts of a table.

\* A claim takes the row's store off the debts, unless it has another row.
LEMMA ClaimedDebts ==
  ASSUME NEW tbl \in Seq(Job), NEW j \in DOMAIN tbl
  PROVE  LET s == tbl[j].store
         IN  /\ Claimed(tbl, j)[j].store = s
             /\ Debts(Claimed(tbl, j), {j}) \in {Debts(tbl, {}), Debts(tbl, {}) \ {s}}
             /\ ~Terminal(tbl[j]) => s \in Debts(tbl, {})
<1> DEFINE new == Claimed(tbl, j)
           s == tbl[j].store
<1>1. OneRowChanges(tbl, new, j, "running")
  BY ClaimedRow
<1> HIDE DEF new
<1>2. ASSUME NEW t
      PROVE  t \in Debts(new, {j}) => t \in Debts(tbl, {})
  BY <1>1, DebtRow DEF OneRowChanges
<1>3. ASSUME NEW t, t # s
      PROVE  t \in Debts(tbl, {}) => t \in Debts(new, {j})
  BY <1>1, <1>3, DebtRow DEF OneRowChanges
<1>4. ~Terminal(tbl[j]) => s \in Debts(tbl, {})
  BY DebtRow
<1>5. new[j].store = s
  BY <1>1 DEF OneRowChanges
<1>6. CASE s \in Debts(new, {j})
  <2>1. Debts(new, {j}) = Debts(tbl, {})
    BY <1>2, <1>3, <1>6
  <2> QED
    BY <1>4, <1>5, <2>1 DEF new
<1>7. CASE s \notin Debts(new, {j})
  <2>1. Debts(new, {j}) = Debts(tbl, {}) \ {s}
    BY <1>2, <1>3, <1>7
  <2> QED
    BY <1>4, <1>5, <2>1 DEF new
<1> QED
  BY <1>6, <1>7

\* The end of a pass may leave its store owed.
LEMMA EndedDebts ==
  ASSUME NEW tbl \in Seq(Job), NEW j \in DOMAIN tbl,
         NEW new \in {Completed(tbl, j), Failed(tbl, j)}
  PROVE  Debts(new, {}) \in {Debts(tbl, {j}), Debts(tbl, {j}) \cup {tbl[j].store}}
<1> DEFINE s == tbl[j].store
<1>1. PICK st \in Status : OneRowChanges(tbl, new, j, st)
  BY EndedRow
<1>2. ASSUME NEW t
      PROVE  t \in Debts(tbl, {j}) => t \in Debts(new, {})
  BY <1>1, DebtRow DEF OneRowChanges
<1>3. ASSUME NEW t, t # s
      PROVE  t \in Debts(new, {}) => t \in Debts(tbl, {j})
  BY <1>1, <1>3, DebtRow DEF OneRowChanges
<1>4. CASE s \in Debts(new, {})
  <2>1. Debts(new, {}) = Debts(tbl, {j}) \cup {s}
    BY <1>2, <1>3, <1>4
  <2> QED
    BY <2>1
<1>5. CASE s \notin Debts(new, {})
  <2>1. Debts(new, {}) = Debts(tbl, {j})
    BY <1>2, <1>3, <1>5
  <2> QED
    BY <2>1
<1> QED
  BY <1>4, <1>5

\* A death leaves the store of the row that was executing owed.
LEMMA AbandonedDebts ==
  ASSUME NEW tbl \in Seq(Job), NEW j \in DOMAIN tbl, tbl[j].status = "running"
  PROVE  Debts(tbl, {}) = Debts(tbl, {j}) \cup {tbl[j].store}
<1>1. ASSUME NEW t
      PROVE  t \in Debts(tbl, {}) <=> t \in Debts(tbl, {j}) \/ t = tbl[j].store
  BY DebtRow DEF Terminal
<1> QED
  BY <1>1

\* Fresh rows add their stores.
LEMMA AppendedDebts ==
  ASSUME NEW tbl \in Seq(Job), NEW t \in Seq(Job), NEW E, E \subseteq DOMAIN tbl,
         \A i \in DOMAIN t : ~Terminal(t[i])
  PROVE  Debts(tbl \o t, E) = Debts(tbl, E) \cup {t[i].store : i \in DOMAIN t}
<1> DEFINE new == tbl \o t
           n == Len(tbl)
<1>1. /\ n \in Nat /\ Len(t) \in Nat /\ DOMAIN tbl = 1..n /\ DOMAIN t = 1..Len(t)
  BY TableRows
<1>2. /\ DOMAIN new = 1..(n + Len(t))
      /\ \A k \in 1..n : new[k] = tbl[k]
      /\ \A i \in DOMAIN t : n + i \in DOMAIN new /\ n + i \notin 1..n /\ new[n + i] = t[i]
      /\ \A k \in DOMAIN new : k \notin 1..n => k - n \in DOMAIN t /\ new[k] = t[k - n]
  <2>1. /\ new \in Seq(Job) /\ Len(new) = n + Len(t)
        /\ \A k \in 1..(n + Len(t)) : new[k] = IF k <= n THEN tbl[k] ELSE t[k - n]
    BY <1>1, ConcatProperties
  <2>2. DOMAIN new = 1..(n + Len(t))
    BY <2>1, TableRows
  <2>3. \A i \in DOMAIN t : n + i \in 1..(n + Len(t)) /\ ~(n + i <= n) /\ (n + i) - n = i
    BY <1>1
  <2> HIDE DEF new, n
  <2>4. \A i \in DOMAIN t : new[n + i] = t[i]
    BY <2>1, <2>3
  <2> QED
    BY <1>1, <2>1, <2>2, <2>3, <2>4
<1> HIDE DEF new, n
<1>3. ASSUME NEW s, s \in Debts(new, E)
      PROVE  s \in Debts(tbl, E) \/ \E i \in DOMAIN t : t[i].store = s
  <2>1. PICK k \in DOMAIN new : ~Terminal(new[k]) /\ k \notin E /\ new[k].store = s
    BY <1>3, DebtRow
  <2> QED
    BY <1>1, <1>2, <2>1, DebtRow
<1>4. ASSUME NEW s, s \in Debts(tbl, E)
      PROVE  s \in Debts(new, E)
  <2>1. PICK k \in DOMAIN tbl : ~Terminal(tbl[k]) /\ k \notin E /\ tbl[k].store = s
    BY <1>4, DebtRow
  <2>2. k \in DOMAIN new
    BY <1>1, <1>2, <2>1
  <2> QED
    BY <1>1, <1>2, <2>1, <2>2, DebtRow
<1>5. ASSUME NEW i \in DOMAIN t
      PROVE  t[i].store \in Debts(new, E)
  <2>1. n + i \in DOMAIN new /\ n + i \notin E /\ new[n + i] = t[i]
    BY <1>1, <1>2
  <2> QED
    BY <2>1, DebtRow
<1>6. Debts(new, E) = Debts(tbl, E) \cup {t[i].store : i \in DOMAIN t}
  BY <1>3, <1>4, <1>5
<1> QED
  BY <1>6 DEF new

\* The debts of a table are those of another with the same stores and the same
\* settled rows.
LEMMA SameDebts ==
  ASSUME NEW tbl, NEW new, NEW E, DOMAIN new = DOMAIN tbl,
         \A k \in DOMAIN tbl :
           new[k].store = tbl[k].store /\ (Terminal(new[k]) <=> Terminal(tbl[k]))
  PROVE  Debts(new, E) = Debts(tbl, E)
<1>1. ASSUME NEW s
      PROVE  s \in Debts(new, E) <=> s \in Debts(tbl, E)
  BY DebtRow
<1> QED
  BY <1>1

\* enqueue owes the store, whether it inserts a row or coalesces: a row that is
\* executing is not pending.
LEMMA EnqueuedDebts ==
  ASSUME now \in Nat, NEW tbl \in Seq(Job), NEW E, E \subseteq DOMAIN tbl,
         \A j \in E : tbl[j].status = "running",
         NEW s \in Stores, NEW p \in Priority, NEW new \in Enqueued(tbl, s, p)
  PROVE  Debts(new, E) = Debts(tbl, E) \cup {s}
<1>1. CASE Pending(tbl, s) = {}
  <2> DEFINE t == <<FreshRow(s, p)>>
  <2>1. new = tbl \o t
    BY <1>1, FreshRowIsJob, AppendIsConcat DEF Enqueued
  <2>2. t \in Seq(Job) /\ DOMAIN t = {1} /\ t[1] = FreshRow(s, p)
    BY FreshRowIsJob
  <2> HIDE DEF t
  <2>3. (\A i \in DOMAIN t : ~Terminal(t[i])) /\ {t[i].store : i \in DOMAIN t} = {s}
    BY <2>2, FreshRowIsJob DEF Fresh, Terminal
  <2>4. Debts(tbl \o t, E) = Debts(tbl, E) \cup {t[i].store : i \in DOMAIN t}
    BY <2>2, <2>3, AppendedDebts
  <2> QED
    BY <2>1, <2>3, <2>4
<1>2. CASE Pending(tbl, s) # {}
  <2>1. PICK j \in DOMAIN tbl : /\ tbl[j].status = "pending"
                                /\ tbl[j].store = s
                                /\ new = Raised(tbl, j, p)
    BY <1>2 DEF Enqueued, Pending
  <2>2. s \in Debts(tbl, E)
    BY <2>1, DebtRow DEF Terminal
  <2>3. tbl[j] \in Job
    BY TableRows
  <2> DEFINE row == [tbl[j] EXCEPT !.priority = p]
  <2>4. new = [tbl EXCEPT ![j] = row] \/ new = tbl
    BY <2>1 DEF Raised
  <2>5. row.store = tbl[j].store /\ row.status = tbl[j].status
    BY <2>3 DEF Job
  <2> HIDE DEF row
  <2>6. CASE new = [tbl EXCEPT ![j] = row]
    <3>1. OneRowChanges(tbl, new, j, tbl[j].status)
      BY <2>5, <2>6, ReplacedRow
    <3>2. Debts(new, E) = Debts(tbl, E)
      BY <3>1, SameDebts DEF OneRowChanges, Terminal
    <3> QED
      BY <2>2, <3>2
  <2> QED
    BY <2>2, <2>4, <2>6
<1> QED
  BY <1>1, <1>2

\* enqueueAll owes some more stores.
LEMMA SweptDebts ==
  ASSUME now \in Nat, NEW tbl \in Seq(Job), NEW E, E \subseteq DOMAIN tbl,
         NEW S \in SUBSET SelfStores, NEW new \in Swept(tbl, S)
  PROVE  Debts(new, E) = Debts(tbl, E) \cup (Debts(new, E) \cap Stores)
<1> DEFINE D == {s \in S : Pending(tbl, s) = {}}
           N == Cardinality(D)
<1>1. D \subseteq Stores /\ N \in Nat
  <2>1. D \subseteq Stores
    BY WorkerAssumption
  <2>2. IsFiniteSet(D)
    BY <2>1, FS_Subset, QueueAssumption
  <2>3. QED
    BY <2>1, <2>2, FS_CardinalityType
<1>2. PICK o \in Orders(D) : new = tbl \o [i \in DOMAIN o |-> FreshRow(o[i], PASSIVE)]
  BY DEF Swept
<1>3. o \in [1..N -> D]
  BY <1>2 DEF Orders
<1> DEFINE t == [i \in DOMAIN o |-> FreshRow(o[i], PASSIVE)]
<1>4. DOMAIN t = 1..N /\ \A i \in 1..N : t[i] = FreshRow(o[i], PASSIVE)
  BY <1>3
<1>5. new = tbl \o t /\ t = [i \in 1..N |-> t[i]]
  BY <1>2, <1>3
<1> HIDE DEF t, N, D
<1>6. ASSUME NEW i \in 1..N
      PROVE  t[i] \in Job /\ Fresh(t[i]) /\ t[i].store \in Stores
  <2>1. o[i] \in Stores /\ t[i] = FreshRow(o[i], PASSIVE) /\ PASSIVE \in Priority
    BY <1>1, <1>3, <1>4 DEF Priority
  <2> QED
    BY <2>1, FreshRowIsJob
<1>7. t \in Seq(Job)
  <2>1. t \in [1..N -> Job]
    BY <1>4, <1>5, <1>6
  <2> QED
    BY <1>1, <2>1, SeqDef
<1>8. \A i \in DOMAIN t : ~Terminal(t[i])
  BY <1>4, <1>6 DEF Fresh, Terminal
<1>9. {t[i].store : i \in DOMAIN t} \in SUBSET Stores
  BY <1>4, <1>6
<1>10. Debts(new, E) = Debts(tbl, E) \cup {t[i].store : i \in DOMAIN t}
  BY <1>5, <1>7, <1>8, AppendedDebts
<1> QED
  BY <1>9, <1>10

\* recoverStaleJobs owes what was owed: an abandoned row is unsettled before and
\* after.
LEMMA RecoveredDebts ==
  ASSUME NEW tbl \in Seq(Job), NEW E
  PROVE  Debts(Recovered(tbl), E) = Debts(tbl, E)
<1> DEFINE new == Recovered(tbl)
<1>1. DOMAIN new = DOMAIN tbl
  BY DEF Recovered
<1>2. ASSUME NEW k \in DOMAIN tbl
      PROVE  new[k].store = tbl[k].store /\ (Terminal(new[k]) <=> Terminal(tbl[k]))
  <2>1. tbl[k] \in Job
    BY TableRows
  <2>2. CASE Abandoned(tbl[k])
    <3>1. new[k] = [tbl[k] EXCEPT !.status = "pending", !.lease = NoLease]
      BY <2>2 DEF Recovered
    <3>2. new[k].store = tbl[k].store /\ new[k].status = "pending"
      BY <2>1, <3>1 DEF Job
    <3> QED
      BY <2>2, <3>2 DEF Abandoned, Terminal
  <2>3. CASE ~Abandoned(tbl[k])
    BY <2>3 DEF Recovered
  <2> QED
    BY <2>2, <2>3
<1> HIDE DEF new
<1>3. Debts(new, E) = Debts(tbl, E)
  BY <1>1, <1>2, SameDebts
<1> QED
  BY <1>3 DEF new

-----------------------------------------------------------------------------
\* Which step of the service each step of the worker is.

ServiceStep == [Service!Next]_(Service!vars)

LEMMA AcceptStep ==
  ASSUME NEW S \in SUBSET Stores,
         OwedStores' = OwedStores \cup S, ActiveStore' = ActiveStore
  PROVE  ServiceStep
BY DEF ServiceStep, Service!Next, Service!Accept

LEMMA QuietStep ==
  ASSUME OwedStores' = OwedStores, ActiveStore' = ActiveStore
  PROVE  ServiceStep
BY DEF ServiceStep, Service!vars

LEMMA BeginStep ==
  ASSUME NEW S \in SUBSET Stores, NEW s \in Stores,
         ActiveStore = NoStore, s \in OwedStores \cup S, ActiveStore' = s,
         OwedStores' \in {OwedStores \cup S, (OwedStores \cup S) \ {s}}
  PROVE  ServiceStep
BY DEF ServiceStep, Service!Next, Service!Begin, Service!AfterBegin

LEMMA EndStep ==
  ASSUME NEW s \in Stores, ActiveStore = s, ActiveStore' = NoStore,
         OwedStores' \in {OwedStores, OwedStores \cup {s}}
  PROVE  ServiceStep
BY DEF ServiceStep, Service!Next, Service!End

\* While nothing runs, everything unsettled is owed.
LEMMA NothingRuns ==
  ASSUME \A m \in Lanes : pc[m] # "running"
  PROVE  /\ ExecutingRows = {}
         /\ OwedStores = Debts(rows, {})
         /\ inFlight \in Lanes \cup {NoLane} => ActiveStore = NoStore
<1>1. ExecutingRows = {}
  BY DEF ExecutingRows
<1> QED
  BY <1>1, OwedAreDebts DEF ActiveStore

LEMMA NothingRunsNext ==
  ASSUME \A m \in Lanes : pc'[m] # "running"
  PROVE  /\ OwedStores' = Debts(rows', {})
         /\ inFlight' \in Lanes \cup {NoLane} => ActiveStore' = NoStore
<1>1. ExecutingRows' = {}
  BY DEF ExecutingRows
<1> QED
  BY <1>1, OwedAreDebts DEF ActiveStore

\* While the row of lane l runs, it is the active one.
LEMMA RunningRow ==
  ASSUME IInv, NEW l \in Lanes, pc[l] = "running"
  PROVE  /\ job[l] \in DOMAIN rows
         /\ rows[job[l]].status = "running"
         /\ rows[job[l]].store \in Stores
         /\ ExecutingRows = {job[l]}
         /\ OwedStores = Debts(rows, {job[l]})
         /\ ActiveStore = rows[job[l]].store
         /\ ActiveStore # NoStore
<1>1. /\ inFlight = l /\ ExecutingRows = {job[l]}
      /\ job[l] \in DOMAIN rows /\ rows[job[l]].status = "running"
  BY HeldLane
<1>2. rows[job[l]].store \in Stores
  BY <1>1, TableRows, RowFields DEF IInv, TableOK
<1>3. ActiveStore = rows[job[l]].store
  BY <1>1, WorkerAssumption DEF ActiveStore
<1> QED
  BY <1>1, <1>2, <1>3, OwedAreDebts, WorkerAssumption

\* Whoever was owed a pass still is, unless it begins.
NoneDropped(debts) == \A s \in debts : s \in OwedStores' \/ ActiveStore' = s

\* A promise that claims when nothing runs, on a table that owes the stores of
\* T besides: a pass begins, or they are accepted.  No debt is dropped.
LEMMA ClaimIsServiceStep ==
  ASSUME IInv, NEW l \in Lanes, NEW k, NEW tbl \in Seq(Job), NEW T \in SUBSET Stores,
         Debts(tbl, {}) = Debts(rows, {}) \cup T,
         \A m \in Lanes : pc[m] # "running",
         ClaimOrYield(l, k, tbl), inFlight' = l
  PROVE  ServiceStep /\ ActiveStore = NoStore /\ NoneDropped(Debts(tbl, {}))
<1>1. pc \in [Lanes -> Pc] /\ job \in [Lanes -> Nat] /\ inFlight \in Lanes \cup {NoLane}
  BY DEF IInv, TypeOK
<1>2. OwedStores = Debts(rows, {}) /\ ActiveStore = NoStore
  BY <1>1, NothingRuns
<1>3. CASE \E j \in First(tbl, Floor(k)) :
             /\ rows' = Claimed(tbl, j)
             /\ job'  = [job EXCEPT ![l] = j]
             /\ pc'   = [pc EXCEPT ![l] = "running"]
  <2>1. PICK j \in First(tbl, Floor(k)) :
             /\ rows' = Claimed(tbl, j)
             /\ job'  = [job EXCEPT ![l] = j]
             /\ pc'   = [pc EXCEPT ![l] = "running"]
    BY <1>3
  <2>2. j \in DOMAIN tbl /\ ~Terminal(tbl[j])
    BY DEF First, Ready, Abandoned, Terminal
  <2>3. pc'[l] = "running" /\ job'[l] = j /\ \A m \in Lanes \ {l} : pc'[m] # "running"
    BY <1>1, <2>1
  <2>4. ExecutingRows' = {j}
    BY <2>3 DEF ExecutingRows
  <2> DEFINE s == tbl[j].store
  <2>5. /\ rows'[j].store = s /\ s \in Debts(tbl, {}) /\ s \in Stores
        /\ Debts(rows', {j}) \in {Debts(tbl, {}), Debts(tbl, {}) \ {s}}
    BY <2>1, <2>2, ClaimedDebts, TableRows, RowFields
  <2>6. ActiveStore' = s
    BY <2>3, <2>5, WorkerAssumption DEF ActiveStore
  <2>7. OwedStores' = Debts(rows', {j})
    BY <2>4, OwedAreDebts
  <2> QED
    BY <1>2, <2>5, <2>6, <2>7, BeginStep DEF NoneDropped
<1>4. CASE /\ rows' = tbl
           /\ pc'   = [pc EXCEPT ![l] = "releasing"]
           /\ UNCHANGED job
  <2>1. \A m \in Lanes : pc'[m] # "running"
    BY <1>1, <1>4
  <2>2. OwedStores' = Debts(tbl, {}) /\ ActiveStore' = NoStore
    BY <1>4, <2>1, NothingRunsNext
  <2> QED
    BY <1>2, <2>2, AcceptStep DEF NoneDropped
<1> QED
  BY <1>3, <1>4 DEF ClaimOrYield

\* The same for a promise that claims from the table as it is.
LEMMA ClaimFromTable ==
  ASSUME IInv, NEW l \in Lanes, NEW k, \A m \in Lanes : pc[m] # "running",
         ClaimOrYield(l, k, rows), inFlight' = l
  PROVE  ServiceStep
<1>1. rows \in Seq(Job) /\ Debts(rows, {}) = Debts(rows, {}) \cup {} /\ {} \in SUBSET Stores
  BY DEF IInv, TypeOK
<1> QED
  BY <1>1, ClaimIsServiceStep

\* A step that writes the table and touches no lane owes the stores of T.
LEMMA TableIsServiceStep ==
  ASSUME IInv, LanesUntouched, Kept(rows, rows'), NEW T \in SUBSET Stores,
         Debts(rows', ExecutingRows) = Debts(rows, ExecutingRows) \cup T
  PROVE  ServiceStep /\ T \subseteq OwedStores'
<1>1. ExecutingRows' = ExecutingRows
  BY DEF LanesUntouched, ExecutingRows
<1>2. OwedStores' = OwedStores \cup T
  BY <1>1, OwedAreDebts
<1>3. ActiveStore' = ActiveStore
  <2>1. CASE inFlight # NoLane /\ pc[inFlight] = "running"
    <3>1. inFlight \in Lanes /\ inFlight' = inFlight /\ pc' = pc /\ job' = job
      BY <2>1 DEF IInv, TypeOK, LanesUntouched
    <3>2. job[inFlight] \in DOMAIN rows
      BY <2>1, <3>1, HeldLane
    <3>3. rows'[job[inFlight]].store = rows[job[inFlight]].store
      BY <3>2 DEF Kept
    <3> QED
      BY <2>1, <3>1, <3>3 DEF ActiveStore
  <2>2. CASE ~(inFlight # NoLane /\ pc[inFlight] = "running")
    BY <2>2 DEF ActiveStore, LanesUntouched
  <2> QED
    BY <2>1, <2>2
<1> QED
  BY <1>2, <1>3, AcceptStep

\* What the invariant says of the rows that execute.
LEMMA ExecutingAreRunning ==
  ASSUME IInv
  PROVE  /\ now \in Nat /\ rows \in Seq(Job) /\ pc \in [Lanes -> Pc]
         /\ ExecutingRows \subseteq DOMAIN rows
         /\ \A j \in ExecutingRows : rows[j].status = "running"
BY DEF IInv, TypeOK, ExecutingIsRunning, ExecutingRows

LEMMA DrainIsServiceStep ==
  ASSUME IInv, NEW l \in Lanes, Drain(l)
  PROVE  ServiceStep
<1>1. \A m \in Lanes : pc[m] # "running"
  BY FreeLane DEF Drain, LaneFree
<1>2. ClaimOrYield(l, "drain", rows) /\ inFlight' = l
  BY DEF Drain, Acquire
<1> QED
  BY <1>1, <1>2, ClaimFromTable

\* A pass that fails may owe its store again.
LEMMA PassEndsIsServiceStep ==
  ASSUME IInv, NEW l \in Lanes, PassEnds(l)
  PROVE  ServiceStep
<1>1. pc[l] = "running" /\ inFlight = l /\ \A m \in Lanes \ {l} : pc[m] = "idle"
  BY HeldLane DEF PassEnds
<1>2. /\ job[l] \in DOMAIN rows /\ rows[job[l]].store \in Stores
      /\ OwedStores = Debts(rows, {job[l]}) /\ ActiveStore = rows[job[l]].store
  BY <1>1, RunningRow
<1>3. rows \in Seq(Job) /\ pc \in [Lanes -> Pc]
  BY ExecutingAreRunning
<1>4. rows' \in {Completed(rows, job[l]), Failed(rows, job[l])} /\ inFlight' = l
  BY <1>1 DEF PassEnds
<1>5. \A m \in Lanes : pc'[m] # "running"
  BY <1>1, <1>3 DEF PassEnds
<1>6. OwedStores' = Debts(rows', {}) /\ ActiveStore' = NoStore
  BY <1>4, <1>5, NothingRunsNext
<1>7. Debts(rows', {}) \in {OwedStores, OwedStores \cup {rows[job[l]].store}}
  BY <1>2, <1>3, <1>4, EndedDebts
<1> QED
  BY <1>2, <1>6, <1>7, EndStep

LEMMA NextWakeIsServiceStep ==
  ASSUME IInv, NEW l \in Lanes, NextWake(l)
  PROVE  ServiceStep
<1>1. /\ inFlight = l /\ inFlight' = l
      /\ \A m \in Lanes : pc[m] # "running"
  BY HeldLane DEF NextWake
<1>2. CASE ClaimOrYield(l, "wake", rows)
  BY <1>1, <1>2, ClaimFromTable
<1>3. CASE pc' = [pc EXCEPT ![l] = "releasing"] /\ rows' = rows
  <2>1. \A m \in Lanes : pc'[m] # "running"
    BY <1>1, <1>3, ExecutingAreRunning
  <2>2. OwedStores' = OwedStores /\ ActiveStore' = ActiveStore
    BY <1>1, <1>3, <2>1, NothingRuns, NothingRunsNext
  <2> QED
    BY <2>2, QuietStep
<1> QED
  BY <1>2, <1>3 DEF NextWake

\* The finally block ends no pass; a latched wake may begin one.
LEMMA ReleaseIsServiceStep ==
  ASSUME IInv, NEW l \in Lanes, Release(l)
  PROVE  ServiceStep
<1>1. /\ inFlight = l /\ pc[l] # "running"
      /\ \A m \in Lanes : pc[m] # "running"
  BY HeldLane DEF Release
<1>2. CASE Acquire(l, "wake", rows)
  BY <1>1, <1>2, ClaimFromTable DEF Acquire
<1>3. CASE inFlight' = NoLane /\ Settled(l) /\ rows' = rows
  <2>1. \A m \in Lanes : pc'[m] # "running"
    BY <1>1, <1>3, ExecutingAreRunning DEF Settled
  <2>2. OwedStores' = OwedStores /\ ActiveStore' = ActiveStore
    BY <1>1, <1>3, <2>1, NothingRuns, NothingRunsNext
  <2> QED
    BY <2>2, QuietStep
<1> QED
  BY <1>2, <1>3 DEF Release

\* What a request gets: a pass of its store is owed, or begins with it.
Answered(s) == s \in OwedStores' \/ (ActiveStore = NoStore /\ ActiveStore' = s)

\* A request on an idle worker is accepted and begins a pass in one step; on a
\* busy one it is accepted, for a pass of its own.
LEMMA RequestIsServiceStep ==
  ASSUME IInv, NEW s \in Stores, Request(s)
  PROVE  ServiceStep /\ Answered(s)
<1>1. PICK tbl \in Enqueued(rows, s, EXPLICIT) : Wake(tbl)
  BY DEF Request
<1>2. /\ now \in Nat /\ rows \in Seq(Job) /\ EXPLICIT \in Priority /\ {s} \in SUBSET Stores
      /\ ExecutingRows \subseteq DOMAIN rows
      /\ \A j \in ExecutingRows : rows[j].status = "running"
  BY ExecutingAreRunning DEF Priority
<1>3. /\ Deaths \in Nat /\ TableOK(rows) /\ Within(rows, ExecutingRows, Deaths)
  BY DeathsIsNat DEF IInv
<1>4. TableOK(tbl) /\ Kept(rows, tbl)
  BY <1>2, <1>3, EnqueuedStep
<1>5. Debts(tbl, ExecutingRows) = Debts(rows, ExecutingRows) \cup {s}
  BY <1>2, EnqueuedDebts
<1>6. CASE \E l \in Lanes : LaneFree(l) /\ Acquire(l, "wake", tbl)
  <2>1. PICK l \in Lanes : LaneFree(l) /\ Acquire(l, "wake", tbl)
    BY <1>6
  <2>2. ExecutingRows = {} /\ \A m \in Lanes : pc[m] # "running"
    BY <2>1, FreeLane DEF LaneFree
  <2>3. ClaimOrYield(l, "wake", tbl) /\ inFlight' = l /\ tbl \in Seq(Job)
    BY <1>4, <2>1 DEF Acquire, TableOK
  <2>4. Debts(tbl, {}) = Debts(rows, {}) \cup {s}
    BY <1>5, <2>2
  <2> QED
    BY <1>2, <2>2, <2>3, <2>4, ClaimIsServiceStep DEF NoneDropped, Answered
<1>7. CASE rows' = tbl /\ UNCHANGED <<inFlight, pc, kind, job, drained>>
  <2>1. LanesUntouched
    BY <1>7 DEF LanesUntouched, Request
  <2> QED
    BY <1>2, <1>4, <1>5, <1>7, <2>1, TableIsServiceStep DEF Answered
<1> QED
  BY <1>1, <1>6, <1>7 DEF Wake

LEMMA LateRequestIsServiceStep ==
  ASSUME IInv, NEW s \in Stores, LateRequest(s)
  PROVE  ServiceStep /\ Answered(s)
<1>1. /\ now \in Nat /\ rows \in Seq(Job) /\ EXPLICIT \in Priority /\ {s} \in SUBSET Stores
      /\ ExecutingRows \subseteq DOMAIN rows
      /\ \A j \in ExecutingRows : rows[j].status = "running"
  BY ExecutingAreRunning DEF Priority
<1>2. rows' \in Enqueued(rows, s, EXPLICIT) /\ LanesUntouched
  BY DEF LateRequest, LanesUntouched
<1>3. Debts(rows', ExecutingRows) = Debts(rows, ExecutingRows) \cup {s}
  BY <1>1, <1>2, EnqueuedDebts
<1>4. Kept(rows, rows')
  BY LateRequestStep DEF Sound
<1> QED
  BY <1>1, <1>2, <1>3, <1>4, TableIsServiceStep DEF Answered

LEMMA SweepIsServiceStep ==
  ASSUME IInv, Sweep
  PROVE  ServiceStep
<1>1. PICK S \in SUBSET SelfStores : rows' \in Swept(rows, S)
  BY DEF Sweep
<1> DEFINE T == Debts(rows', ExecutingRows) \cap Stores
<1>2. Debts(rows', ExecutingRows) = Debts(rows, ExecutingRows) \cup T
  BY <1>1, ExecutingAreRunning, SweptDebts
<1> HIDE DEF T
<1>3. T \in SUBSET Stores
  BY DEF T
<1>4. LanesUntouched /\ Kept(rows, rows')
  BY SweepStep DEF Sweep, LanesUntouched, Sound
<1> QED
  BY <1>2, <1>3, <1>4, TableIsServiceStep

\* A boot recovers what the dead process left, which is owed already, and
\* sweeps.
LEMMA BootIsServiceStep ==
  ASSUME IInv, Boot
  PROVE  ServiceStep
<1>1. inFlight = NoLane /\ now \in Nat /\ rows \in Seq(Job)
  BY ExecutingAreRunning DEF IInv, LaneOK, Boot
<1>2. \A l \in Lanes : pc[l] # "running"
  BY <1>1, FreeLane
<1>3. PICK S \in SUBSET SelfStores : rows' \in Swept(Recovered(rows), S)
  BY DEF Boot
<1>4. Recovered(rows) \in Seq(Job)
  <2>1. TableOK(rows) /\ Within(rows, {}, Deaths) /\ Deaths \in Nat
    BY <1>1, FreeLane, DeathsIsNat DEF IInv
  <2> QED
    BY <1>1, <2>1, RecoveredStep DEF TableOK
<1> DEFINE T == Debts(rows', {}) \cap Stores
<1>5. Debts(rows', {}) = Debts(Recovered(rows), {}) \cup T /\ T \in SUBSET Stores
  BY <1>1, <1>3, <1>4, SweptDebts
<1> HIDE DEF T
<1>6. Debts(Recovered(rows), {}) = Debts(rows, {})
  BY <1>1, RecoveredDebts
<1>7. (\A l \in Lanes : pc'[l] # "running") /\ inFlight' = NoLane
  BY <1>1, <1>2 DEF Boot
<1>8. OwedStores' = OwedStores \cup T /\ ActiveStore' = ActiveStore
  BY <1>1, <1>2, <1>5, <1>6, <1>7, NothingRuns, NothingRunsNext
<1> QED
  BY <1>5, <1>8, AcceptStep

\* A process that dies while a pass runs leaves its store owed: the row waits
\* for a lease to expire and a later process to reclaim it.
LEMMA MemoryLostIsServiceStep ==
  ASSUME IInv, MemoryLost
  PROVE  ServiceStep
<1>1. /\ \A m \in Lanes : pc'[m] # "running"
      /\ inFlight' = NoLane /\ rows' = rows
  BY DEF MemoryLost
<1>2. OwedStores' = Debts(rows, {}) /\ ActiveStore' = NoStore
  BY <1>1, NothingRunsNext
<1>3. CASE \E l \in Lanes : pc[l] = "running"
  <2>1. PICK l \in Lanes : pc[l] = "running"
    BY <1>3
  <2>2. /\ OwedStores = Debts(rows, {job[l]}) /\ ActiveStore = rows[job[l]].store
        /\ ActiveStore # NoStore
        /\ job[l] \in DOMAIN rows /\ rows[job[l]].status = "running"
    BY <2>1, RunningRow
  <2>3. OwedStores' = OwedStores \cup {ActiveStore}
    BY <1>2, <2>2, ExecutingAreRunning, AbandonedDebts
  <2> QED
    BY <1>2, <2>2, <2>3 DEF ServiceStep, Service!Next, Service!Die
<1>4. CASE \A l \in Lanes : pc[l] # "running"
  <2>1. inFlight \in Lanes \cup {NoLane}
    BY DEF IInv, TypeOK
  <2>2. OwedStores' = OwedStores /\ ActiveStore' = ActiveStore
    BY <1>2, <1>4, <2>1, NothingRuns
  <2> QED
    BY <2>2, QuietStep
<1> QED
  BY <1>3, <1>4

\* The clock, SIGTERM and stuttering concern the service nothing.
LEMMA OtherIsServiceStep ==
  ASSUME UNCHANGED <<rows, inFlight, pc, job>>
  PROVE  ServiceStep
<1>1. OwedStores' = OwedStores /\ ActiveStore' = ActiveStore
  BY DEF OwedStores, Executing, ActiveStore
<1> QED
  BY <1>1, QuietStep

LEMMA NextIsServiceStep == IInv /\ [Next]_vars => ServiceStep
<1> SUFFICES ASSUME IInv, [Next]_vars PROVE ServiceStep
  OBVIOUS
<1>1. ASSUME NEW l \in Lanes, Drain(l) PROVE ServiceStep
  BY <1>1, DrainIsServiceStep
<1>2. ASSUME NEW l \in Lanes, PassEnds(l) PROVE ServiceStep
  BY <1>2, PassEndsIsServiceStep
<1>3. ASSUME NEW l \in Lanes, NextWake(l) PROVE ServiceStep
  BY <1>3, NextWakeIsServiceStep
<1>4. ASSUME NEW l \in Lanes, Release(l) PROVE ServiceStep
  BY <1>4, ReleaseIsServiceStep
<1>5. ASSUME NEW s \in Stores, Request(s) PROVE ServiceStep
  BY <1>5, RequestIsServiceStep
<1>6. ASSUME NEW s \in Stores, LateRequest(s) PROVE ServiceStep
  BY <1>6, LateRequestIsServiceStep
<1>7. CASE Sweep
  BY <1>7, SweepIsServiceStep
<1>8. CASE Boot
  BY <1>8, BootIsServiceStep
<1>9. CASE Exit \/ Crash
  BY <1>9, MemoryLostIsServiceStep DEF Exit, Crash
<1>10. CASE Tick \/ Stop \/ UNCHANGED vars
  BY <1>10, OtherIsServiceStep DEF Tick, Stop, vars
<1> QED
  BY <1>1, <1>2, <1>3, <1>4, <1>5, <1>6, <1>7, <1>8, <1>9, <1>10 DEF Next

\* The worker, with its queue, its lane, its latch, its timers and its deaths,
\* implements the service: whatever interleaves, an accepted request is owed
\* until a pass that began after it, one pass runs at a time, and a pass that
\* fails or dies leaves its store owed unless its row is settled.
THEOREM WorkerImplementsService == Spec => ImplementsService
<1>1. Init => Service!Init
  <2> SUFFICES ASSUME Init PROVE Service!Init
    OBVIOUS
  <2>1. DOMAIN rows = {} /\ inFlight = NoLane
    BY DEF Init
  <2>2. OwedStores = {} /\ ActiveStore = NoStore
    BY <2>1 DEF OwedStores, ActiveStore
  <2> QED
    BY <2>2 DEF Service!Init
<1>2. IInv /\ [Next]_vars => [Service!Next]_(Service!vars)
  BY NextIsServiceStep DEF ServiceStep
<1> QED
  BY Invariance, <1>1, <1>2, PTL DEF Spec, ImplementsService, Service!Spec

\* Coalescing never takes the row of a running pass for a request: whoever asks
\* for a store while its pass runs is owed another one.
THEOREM RequestIsOwed == Spec => RequestsAreOwed
<1>1. IInv /\ [Next]_vars =>
        [\A s \in Stores :
           Request(s) \/ LateRequest(s) =>
             s \in OwedStores' \/ (ActiveStore = NoStore /\ ActiveStore' = s)]_vars
  BY RequestIsServiceStep, LateRequestIsServiceStep DEF Answered
<1> QED
  BY Invariance, <1>1, PTL DEF Spec, RequestsAreOwed
=============================================================================
