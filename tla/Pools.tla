-------------------------------- MODULE Pools --------------------------------
(***************************************************************************)
(* Tenants, named pools and the stores they share (pools.ts, mcp_auth.ts,  *)
(* the gateway's and the MCP tools' checks), with the passes of the        *)
(* distillation worker on those stores.                                    *)
(*                                                                         *)
(* A request names an address, a tenant and a pool (Self by default).  It  *)
(* is admitted by the token file and by the registry of pools, both read   *)
(* anew each time, and is then served by the handle of a physical store:   *)
(* one per tenant for Self, one per name for a pool.  Handles are cached   *)
(* by path, and keep the store key of whoever opened them first.  What a   *)
(* pass remembers in a store (watermark, dirty mark, hash of the core's    *)
(* input) is filed under the key it runs for; the key of a store is named  *)
(* here by its tenant alone.                                               *)
(*                                                                         *)
(* The queue is no more than the set of addresses that are owed a pass, as *)
(* in DistillService.  A pass is as coarse as its layers: a lifecycle      *)
(* write comes before or after one of them, and a process that ends in a   *)
(* pass breaks it off first.  The waits within a layer are the matter of   *)
(* DistillPass and TopicScenes.                                            *)
(***************************************************************************)
EXTENDS Naturals, Sequences

CONSTANTS
  Tenants,
  Names,         \* names of pools
  Self,          \* the reserved private pool
  Shared,        \* stands for the tenant in the path of a pool
  None,          \* no handle, no hash, no pass, not declared
  TokenFiles,    \* contents of the token file: the addresses it authorizes
  Drafts,        \* bound: rosters that pools are declared or updated with
  MaxRequests,   \* bound: requests that write or ask for a pass
  MaxChanges,    \* bound: changes of the registry or of the token file
  MaxRestarts    \* bound: restarts of the process

Access == {"none", "read", "readwrite"}
Addresses == Tenants \X (Names \cup {Self})

ASSUME PoolsAssumption ==
  /\ Self \notin Names
  /\ Shared \notin Tenants /\ None \notin Tenants
  /\ None \notin [Tenants -> Access]
  /\ TokenFiles \subseteq SUBSET Addresses
  /\ Drafts \subseteq [Tenants -> Access]
  /\ {MaxRequests, MaxChanges, MaxRestarts} \subseteq Nat

VARIABLES
  reg,       \* pools.json: the roster of each declared pool
  tokens,    \* the token file
  handles,   \* the open stores of pools: whose key the handle has
  store,     \* what is in each store, by path
  calls,     \* admitted requests that wait for the embedder
  owed,      \* addresses that are owed a pass
  pass,      \* the running pass
  writers,   \* history: addresses that have ever had write access
  lost,      \* history: stores that may lag without a mark to say so
  requests, changes, restarts

vars == <<reg, tokens, handles, store, calls, owed, pass, writers, lost,
          requests, changes, restarts>>

\* selfStorePath, poolStorePath.
PathOf(a) == IF a[2] = Self THEN a ELSE <<Shared, a[2]>>
Paths == {PathOf(a) : a \in Addresses}

\* An atom is the number of the turn it was extracted from; scenes, their text
\* and the core are named by the atoms they were written from.
Fresh == [turns |-> <<>>,                        \* history: who wrote each turn
          notes |-> {},                          \* history: who recorded atoms
          known |-> {}, archived |-> {},         \* atoms
          scenes |-> {}, text |-> {}, core |-> {},
          seen |-> [t \in Tenants |-> 0],        \* distill_watermark
          hash |-> [t \in Tenants |-> None],     \* core_state
          marks |-> {}]                          \* store_dirty

Active(s) == s.known \ s.archived
Derived(s) == s.scenes = Active(s) /\ s.text = Active(s)
NoPass == [key |-> None, phase |-> "none", upto |-> 0]

\* The physical store of an address, and its change.
StoreOf(a) == store[PathOf(a)]
Stored(a, s) == store' = [store EXCEPT ![PathOf(a)] = s]
-----------------------------------------------------------------------------
(***************************************************************************)
(* Admission.                                                              *)
(***************************************************************************)
AccessOf(a) ==
  CASE a[2] = Self -> "readwrite"
    [] a[2] # Self /\ reg[a[2]] = None -> "none"
    [] OTHER -> reg[a[2]][a[1]]

\* Mutant: a route that writes is missing from WRITE_ROUTES.
WritesIfReads(a) == AccessOf(a) # "none"

\* PoolManager.resolve, for reading and for writing.
Reads(a) == AccessOf(a) # "none"
Writes(a) == AccessOf(a) = "readwrite"

\* requireTenant and requirePool, from the file as it is now.
Authorized(a) == a \in tokens

\* storeAt opens the store, or takes the handle that is there.
Opened(a) ==
  [n \in Names |-> IF n = a[2] /\ handles[n] = None THEN a[1] ELSE handles[n]]

\* The key that the handle has.
KeyOf(a) == IF a[2] = Self THEN a[1] ELSE Opened(a)[a[2]]

Idle == pass = NoPass

Phase(p) == pass' = [pass EXCEPT !.phase = p]
In(p) == pass.phase = p
PassKey == pass.key[1]
PassPath == PathOf(pass.key)
PassStore == StoreOf(pass.key)
-----------------------------------------------------------------------------
(***************************************************************************)
(* Administration: each change is read, checked and renamed into place     *)
(* within one turn of the event loop.                                      *)
(***************************************************************************)
Rosters == [Tenants -> Access]

WritersOf(n, roster) == {<<t, n>> : t \in {u \in Tenants : roster[u] = "readwrite"}}

Registered(n, roster) ==
  /\ changes < MaxChanges
  /\ changes' = changes + 1
  /\ reg' = [reg EXCEPT ![n] = roster]
  /\ writers' = writers \cup WritersOf(n, roster)
  /\ UNCHANGED <<tokens, handles, store, calls, owed, pass, lost,
                 requests, restarts>>

DeclarePool(n, roster) == reg[n] = None /\ Registered(n, roster)

UpdatePool(n, roster) == reg[n] # None /\ Registered(n, roster)

Grant(n, t, access) ==
  /\ reg[n] # None
  /\ Registered(n, [reg[n] EXCEPT ![t] = access])

\* Somebody edits the token file; {} is also a file that cannot be read.
EditTokens(file) ==
  /\ changes < MaxChanges
  /\ changes' = changes + 1
  /\ tokens' = file
  /\ UNCHANGED <<reg, handles, store, calls, owed, pass, writers, lost,
                 requests, restarts>>
-----------------------------------------------------------------------------
(***************************************************************************)
(* Requests.                                                               *)
(***************************************************************************)
RequestKeeps == UNCHANGED <<reg, tokens, pass, writers, changes, restarts>>

Admitted(a) ==
  /\ Authorized(a)
  /\ handles' = Opened(a)

\* A request that only reads still opens the store.
Read(a) ==
  /\ Admitted(a) /\ Reads(a)
  /\ RequestKeeps /\ UNCHANGED <<store, calls, owed, lost, requests>>

\* The turn is written before the first wait.
AddStream(a) ==
  /\ Admitted(a) /\ Writes(a)
  /\ requests < MaxRequests /\ requests' = requests + 1
  /\ Stored(a, [StoreOf(a) EXCEPT !.turns = Append(@, a[1])])
  /\ RequestKeeps /\ UNCHANGED <<calls, owed, lost>>

\* The atom is written after the embedder has answered, or not at all.
Remember(a) ==
  /\ Admitted(a) /\ Writes(a)
  /\ requests < MaxRequests /\ requests' = requests + 1
  /\ calls' = calls \cup {a}
  /\ RequestKeeps /\ UNCHANGED <<store, owed, lost>>

Remembered(a) ==
  /\ a \in calls
  /\ calls' = calls \ {a}
  /\ \/ Stored(a, [StoreOf(a) EXCEPT !.notes = @ \cup {a[1]}])
     \/ UNCHANGED store
  /\ RequestKeeps /\ UNCHANGED <<handles, owed, lost, requests>>

\* Mutant: only the one whose handle it is marks the store.
MarkedIfOwn(a) == {KeyOf(a)} \cap {a[1]}

\* markStoreDirty files the mark under the handle's key.
Marked(a) == {KeyOf(a)}

\* The running pass has been through the scenes and clears this mark at its
\* end: clearDirty does not ask when the mark was set.
Overtaken(a) == In("core") /\ PassPath = PathOf(a) /\ PassKey = KeyOf(a)

\* Archive, supersede, merge and delete alike.
ArchiveAtom(a, i) ==
  /\ Admitted(a) /\ Writes(a)
  /\ requests < MaxRequests /\ requests' = requests + 1
  /\ i \in Active(StoreOf(a))
  /\ Stored(a, [StoreOf(a) EXCEPT !.archived = @ \cup {i},
                                  !.marks = @ \cup Marked(a)])
  /\ lost' = IF Overtaken(a) THEN lost \cup {PathOf(a)} ELSE lost
  /\ RequestKeeps /\ UNCHANGED <<calls, owed>>

\* POST /distill resolves the store for writing.
Distill(a) ==
  /\ Admitted(a) /\ Writes(a)
  /\ owed' = owed \cup {a}
  /\ requests < MaxRequests /\ requests' = requests + 1
  /\ RequestKeeps /\ UNCHANGED <<store, calls, lost>>

\* falda_distill only asks whether the token names the pool.
DistillTool(a) ==
  /\ Authorized(a)
  /\ owed' = owed \cup {a}
  /\ requests < MaxRequests /\ requests' = requests + 1
  /\ RequestKeeps /\ UNCHANGED <<handles, store, calls, lost>>

\* What a pass, and the sweep, look for: new turns or a mark under this key.
Outdated(a) ==
  LET s == StoreOf(a)
  IN  Len(s.turns) > s.seen[a[1]] \/ a[1] \in s.marks

\* The sweep looks at the stores of tenants only.
Sweep ==
  /\ owed' = owed \cup {a \in Addresses : a[2] = Self /\ Outdated(a)}
  /\ RequestKeeps /\ UNCHANGED <<handles, store, calls, lost, requests>>
-----------------------------------------------------------------------------
(***************************************************************************)
(* Passes.                                                                 *)
(***************************************************************************)
PassKeeps == UNCHANGED <<reg, tokens, calls, writers, requests, changes, restarts>>

\* The row is claimed.  The store is resolved for writing as of now.
BeginPass(a) ==
  /\ Idle
  /\ a \in owed
  /\ owed' = owed \ {a}
  /\ \/ /\ ~Writes(a)
        /\ pass' = [key |-> a, phase |-> "failed", upto |-> 0]
        /\ UNCHANGED <<handles, store>>
     \/ /\ Writes(a)
        /\ handles' = Opened(a)
        /\ UNCHANGED store
        /\ pass' = [key |-> a,
                    phase |-> IF Outdated(a) THEN "extract" ELSE "done",
                    upto |-> Len(StoreOf(a).turns)]
  /\ PassKeeps /\ UNCHANGED lost

\* Mutant: the watermark is the seq that comes next.
ConsumedBeyond == pass.upto + 1

\* The watermark after the window.
Consumed == pass.upto

\* The transaction of L1: an atom that is there already keeps its status.
CommitL1 ==
  /\ In("extract")
  /\ Stored(pass.key,
            [PassStore EXCEPT
               !.known = @ \cup (PassStore.seen[PassKey] + 1)..pass.upto,
               !.seen[PassKey] = Consumed])
  /\ Phase("scenes")
  /\ PassKeeps /\ UNCHANGED <<handles, owed, lost>>

\* The members of the scenes, and their text with them unless the model fails;
\* then too the pass goes on to the core.
UpdateScenes ==
  LET live == Active(PassStore)
  IN  /\ In("scenes")
      /\ \/ /\ Stored(pass.key, [PassStore EXCEPT !.scenes = live, !.text = live])
            /\ Phase("core")
         \/ /\ live \notin {{}, PassStore.text}
            /\ Stored(pass.key, [PassStore EXCEPT !.scenes = live])
            /\ Phase("core after a failure")
      /\ lost' = lost \ {PassPath}
      /\ PassKeeps /\ UNCHANGED <<handles, owed>>

\* Some of what there was, or is to be, is written already.
Between(old, new) == {x \in SUBSET (old \cup new) : old \cap new \subseteq x}

\* After L1's transaction a write of a scene throws (the embedder, a foreign
\* key), for its members or later for its text, or the process ends while the
\* pass waits: no mark is set.
PassBreaksOff ==
  /\ \/ /\ In("scenes")
        /\ \/ \E scenes \in Between(PassStore.scenes, Active(PassStore)) :
                Stored(pass.key, [PassStore EXCEPT !.scenes = scenes])
           \/ \E text \in Between(PassStore.text, Active(PassStore)) :
                Stored(pass.key, [PassStore EXCEPT !.scenes = Active(PassStore),
                                                   !.text = text])
     \/ pass.phase \in {"core", "core after a failure"} /\ UNCHANGED store
  /\ lost' = IF PassStore.marks = {} THEN lost \cup {PassPath} ELSE lost
  /\ Phase("failed")
  /\ PassKeeps /\ UNCHANGED <<handles, owed>>

\* Mutant: the hash is written before the model has answered.
CoreFailsHashed(s) == [s EXCEPT !.hash[PassKey] = s.scenes]

\* The input hash filed under this key is that of the scenes there are.
HashMatches(s) == s.hash[PassKey] # None /\ s.hash[PassKey] = s.scenes

\* The core once the step has been through.
CoreWritten(s) ==
  [s EXCEPT !.core = IF HashMatches(s) THEN @ ELSE s.scenes,
            !.hash[PassKey] = IF s.scenes = {} THEN None ELSE s.scenes]

\* The core's part when the model fails.
CoreFails(s) == s

NeedsModel(s) == s.scenes # {} /\ ~HashMatches(s)

Cleared(s) == [s EXCEPT !.marks = @ \ {PassKey}]
Dirty(s) == [s EXCEPT !.marks = @ \cup {PassKey}]

\* The core is written anew if the hash filed under this key is another; the
\* mark of this key is cleared unless something failed.
UpdateCore ==
  /\ pass.phase \in {"core", "core after a failure"}
  /\ \/ /\ In("core")
        /\ Stored(pass.key, Cleared(CoreWritten(PassStore)))
        /\ Phase("done")
     \/ /\ In("core after a failure")
        /\ Stored(pass.key, Dirty(CoreWritten(PassStore)))
        /\ Phase("failed")
     \/ /\ NeedsModel(PassStore)
        /\ Stored(pass.key, Dirty(CoreFails(PassStore)))
        /\ Phase("failed")
  /\ PassKeeps /\ UNCHANGED <<handles, owed, lost>>

\* The model or the embedder fails before anything is committed.
ExtractFails ==
  /\ In("extract")
  /\ pass.upto > PassStore.seen[PassKey]
  /\ Phase("failed")
  /\ PassKeeps /\ UNCHANGED <<handles, store, owed, lost>>

\* completeJob, or failJob: retried later, or dead-lettered.
EndPass ==
  /\ pass.phase \in {"done", "failed"}
  /\ pass' = NoPass
  /\ \/ UNCHANGED owed
     \/ In("failed") /\ owed' = owed \cup {pass.key}
  /\ PassKeeps /\ UNCHANGED <<handles, store, lost>>

\* The process ends, one way or another, and is started again.
Restart ==
  /\ Idle
  /\ restarts < MaxRestarts /\ restarts' = restarts + 1
  /\ handles' = [n \in Names |-> None]
  /\ calls' = {}
  /\ UNCHANGED <<reg, tokens, store, owed, pass, writers, lost, requests, changes>>
-----------------------------------------------------------------------------
Init ==
  /\ reg = [n \in Names |-> None]
  /\ tokens \in TokenFiles
  /\ handles = [n \in Names |-> None]
  /\ store = [p \in Paths |-> Fresh]
  /\ calls = {}
  /\ owed = {}
  /\ pass = NoPass
  /\ writers = {<<t, Self>> : t \in Tenants}
  /\ lost = {}
  /\ requests = 0 /\ changes = 0 /\ restarts = 0

Administration ==
  \/ \E n \in Names, roster \in Drafts :
       DeclarePool(n, roster) \/ UpdatePool(n, roster)
  \/ \E n \in Names, t \in Tenants, access \in Access : Grant(n, t, access)
  \/ \E file \in TokenFiles : EditTokens(file)

Request ==
  \E a \in Addresses :
    \/ Read(a) \/ AddStream(a) \/ Remember(a) \/ Remembered(a)
    \/ \E i \in 1..MaxRequests : ArchiveAtom(a, i)
    \/ Distill(a) \/ DistillTool(a)

PassStep ==
  \/ \E a \in Addresses : BeginPass(a)
  \/ CommitL1 \/ UpdateScenes \/ UpdateCore
  \/ ExtractFails \/ PassBreaksOff \/ EndPass

Next == Administration \/ Request \/ Sweep \/ PassStep \/ Restart

Spec == Init /\ [][Next]_vars
-----------------------------------------------------------------------------
(***************************************************************************)
(* Properties.                                                             *)
(***************************************************************************)
StoreType ==
  LET Atoms == Nat \ {0}
  IN  [turns : Seq(Tenants), notes : SUBSET Tenants,
       known : SUBSET Atoms, archived : SUBSET Atoms,
       scenes : SUBSET Atoms, text : SUBSET Atoms, core : SUBSET Atoms,
       seen : [Tenants -> Nat], hash : [Tenants -> {None} \cup SUBSET Atoms],
       marks : SUBSET Tenants]

\* The atoms come from the turns, and what a key has consumed is there.
StoreOK(s) ==
  /\ s.known \subseteq DOMAIN s.turns
  /\ \A t \in Tenants : s.seen[t] <= Len(s.turns)

\* Types, and what holds of every store.
TypeOK ==
  /\ reg \in [Names -> {None} \cup Rosters]
  /\ tokens \in TokenFiles
  /\ handles \in [Names -> {None} \cup Tenants]
  /\ store \in [Paths -> StoreType]
  /\ \A p \in Paths : StoreOK(store[p])
  /\ calls \subseteq Addresses
  /\ owed \subseteq Addresses
  /\ pass \in {NoPass} \cup
       [key : Addresses, upto : Nat,
        phase : {"extract", "scenes", "core", "core after a failure",
                 "done", "failed"}]
  /\ writers \subseteq Addresses
  /\ lost \subseteq Paths
  /\ requests \in Nat /\ changes \in Nat /\ restarts \in Nat

\* Who has left a trace in a store: a turn, an atom, a watermark, a hash.
Traces(s) ==
  {s.turns[i] : i \in DOMAIN s.turns} \cup s.notes
    \cup {t \in Tenants : s.seen[t] > 0 \/ s.hash[t] # None}

\* A store bears traces only of tenants that once could write it: itself for
\* a private store (docs/POOLS.md, physical isolation), members with
\* readwrite for a pool.  Handles opened by readers, jobs that readers queue
\* and requests that outlive their grant do not get around this.
TracesAreGranted ==
  \A t \in Tenants, n \in Names \cup {Self} :
    \A u \in Traces(StoreOf(<<t, n>>)) :
      <<u, n>> \in writers /\ (n = Self => u = t)

\* What the early return of a pass relies on (core.ts:641-655), for private
\* stores: when neither turns nor a mark ask for a pass, scenes, their text and
\* the core are those of the active atoms, except after a loss (LagIsSeen).
SelfIsCurrent ==
  Idle => \A a \in Addresses :
    (a[2] = Self /\ ~Outdated(a) /\ PathOf(a) \notin lost) =>
      Derived(StoreOf(a)) /\ StoreOf(a).core = StoreOf(a).scenes

\* Of any store, pools too: scenes that lag behind the active atoms are
\* marked under the key of some member (pools.ts:281-285, store_dirty), except
\* after a loss (LagIsSeen).
StaleIsMarked ==
  Idle => \A p \in Paths \ lost :
    ~Derived(store[p]) => store[p].marks # {}

\* A lag goes unseen for two reasons only.  A pass over a store without marks
\* broke off after L1's transaction (core.ts:1084-1481, the fault the run
\* retry_skips_scenes exhibits), or a pass cleared the mark of a change made
\* while it was busy with the core; both until a later pass has been through
\* the scenes.  In every other store, whatever the handle's key hides from the
\* pass of one member is marked for another's, and nothing is hidden from the
\* pass of a private store: model failures, grants that end, dead jobs and
\* keys that differ from the handle's do no harm.
LagIsSeen == SelfIsCurrent /\ StaleIsMarked
=============================================================================
