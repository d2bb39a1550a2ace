------------------------------ MODULE FaldaRoot ------------------------------
(***************************************************************************)
(* One FALDA_ROOT under its server and the offline commands reembed,       *)
(* backup and restore (boot.ts, reembed.ts, backup.ts, restore.ts).  All   *)
(* vectors of a root should come from one embedder; the manifest           *)
(* EMBEDDING.json records a model name and a dimension, and neither the    *)
(* kind of the embedder nor its endpoint, so two embedders may look alike  *)
(* to it.  A store's vector tables are created for one dimension.  A row   *)
(* stands for any embedded text of a store and is named by the embedder    *)
(* its vector came from; so is a manifest by the embedder of the process   *)
(* that wrote it, though only Name and Dim are read.  Server and commands  *)
(* are processes that may die at any step; a store that was open then      *)
(* keeps its write-ahead log.  As docs/OPERATIONS.md asks, reembed and     *)
(* restore run with the server stopped, one command at a time.             *)
(***************************************************************************)
EXTENDS Naturals, Sequences, SequencesExt

CONSTANTS
  Stores,        \* the stores, self stores and pools
  Pools,         \* those that are listed before they have a database
  Configs,       \* embedders: local, onnx or an endpoint, with their settings
  Name,          \* FALDA_EMBED_MODEL of each, as the manifest records it
  Dim,           \* FALDA_DIM of each
  NoConfig,      \* no vector, no manifest
  Torn,          \* a manifest that was truncated and not written
  Targets,       \* bound: the embedders that reembed is run for
  MaxRows,       \* bound: rows of a store
  MaxBoots,      \* bound: starts of the server
  MaxCommands,   \* bound: offline commands
  MaxDeaths      \* bound: processes killed or commands that throw

NoDim == 0

ASSUME RootAssumption ==
  /\ Pools \subseteq Stores
  /\ DOMAIN Name = Configs
  /\ Dim \in [Configs -> Nat \ {NoDim}]
  /\ Targets \subseteq Configs
  /\ NoConfig \notin Configs
  /\ Torn \notin Configs \cup {NoConfig}
  /\ {MaxRows, MaxBoots, MaxCommands, MaxDeaths} \subseteq Nat

VARIABLES
  exists,     \* the root directory is there
  lock,       \* EMBEDDING.json
  db,         \* the stores: dimension of the vector tables, and the rows
  wal,        \* stores that have a write-ahead log on disk
  server,     \* the serving process
  command,    \* the offline command
  copy,       \* what the running backup has captured
  pack,       \* the last complete backup
  trusted,    \* history: nothing has happened that the manifest cannot tell
  boots, commands, deaths

vars == <<exists, lock, db, wal, server, command, copy, pack, trusted,
          boots, commands, deaths>>

Vectors == Configs \cup {NoConfig}
Locks == Configs \cup {NoConfig, Torn}
Dims == {NoDim} \cup {Dim[c] : c \in Configs}

\* A store without a database, or with an empty one that has no vector tables.
Absent == [dim |-> NoDim, rows |-> <<>>]
Listed == {s \in Stores : exists /\ (db[s] # Absent \/ s \in Pools)}

Down == [pc |-> "down", conf |-> NoConfig, open |-> {}]
Idle == [kind |-> "none", step |-> "idle", conf |-> NoConfig,
         todo |-> {}, at |-> {}, all |-> FALSE]
Nothing == [s \in {} |-> Absent]
NoPack == [rootDim |-> NoDim, lock |-> NoConfig, db |-> Nothing,
           trusted |-> FALSE]

Offline == server = Down /\ command = Idle

\* The store as the constructor of Falda leaves it: CREATE ... IF NOT EXISTS.
Opened(store, c) ==
  [store EXCEPT !.dim = IF @ = NoDim THEN Dim[c] ELSE @]

\* Mutant: the table's dimension is not checked.
InsertableAnywhere(store, c) == {NoConfig, c}

\* An insert into a table of another dimension fails and leaves the row bare.
Insertable(store, c) == {NoConfig} \cup {v \in {c} : store.dim = Dim[v]}
-----------------------------------------------------------------------------
(***************************************************************************)
(* The server.                                                             *)
(***************************************************************************)

\* Mutant: only the dimensions are compared.
MatchesDim(c) == Dim[lock] = Dim[c]

\* enforceEmbeddingLock lets a server with embedder c pass the manifest.
Matches(c) == Name[lock] = Name[c] /\ Dim[lock] = Dim[c]

\* Another embedder than the one the manifest is from, of that name and
\* dimension: local, onnx and remote with FALDA_EMBED_MODEL unset, say.
LooksAlike(c) == lock # c /\ Name[lock] = Name[c] /\ Dim[lock] = Dim[c]

Up(c) == [pc |-> "up", conf |-> c, open |-> {}]

Starting(c) ==
  /\ server = Down
  /\ command.kind \notin {"reembed", "restore"}
  /\ boots < MaxBoots
  /\ boots' = boots + 1
  /\ UNCHANGED <<db, wal, command, copy, pack, commands, deaths>>

\* The manifest is there and agrees; when it does not, the process exits.
Boot(c) ==
  /\ Starting(c)
  /\ lock \in Configs /\ Matches(c)
  /\ server' = Up(c)
  /\ trusted' = (trusted /\ ~LooksAlike(c))
  /\ UNCHANGED <<exists, lock>>

\* No manifest, or one that cannot be parsed: it is written for this
\* configuration.  writeFileSync truncates first.
BootFirst(c) ==
  /\ Starting(c)
  /\ exists /\ lock \notin Configs
  /\ lock' = Torn
  /\ server' = [pc |-> "locking", conf |-> c, open |-> {}]
  /\ UNCHANGED <<exists, trusted>>

LockWritten ==
  /\ server.pc = "locking"
  /\ lock' = server.conf
  /\ server' = Up(server.conf)
  /\ UNCHANGED <<exists, db, wal, command, copy, pack, trusted,
                 boots, commands, deaths>>

\* The root is created after the manifest is written, so the very first write
\* fails; the failure is swallowed and the server runs without a manifest.
BootWithoutRoot(c) ==
  /\ Starting(c)
  /\ ~exists
  /\ exists' = TRUE
  /\ server' = Up(c)
  /\ trusted' = FALSE
  /\ UNCHANGED lock

\* A request that embeds; when the embedder fails the row stays bare.
Write(s) ==
  /\ server.pc = "up"
  /\ Len(db[s].rows) < MaxRows
  /\ LET store == Opened(db[s], server.conf)
     IN  \E v \in Insertable(store, server.conf) :
           db' = [db EXCEPT ![s] = [store EXCEPT !.rows = Append(@, v)]]
  /\ server' = [server EXCEPT !.open = @ \cup {s}]
  /\ wal' = wal \cup {s}
  /\ UNCHANGED <<exists, lock, command, copy, pack, trusted,
                 boots, commands, deaths>>

\* A clean shutdown closes the stores, which folds their logs in.
Stop ==
  /\ server.pc = "up"
  /\ server' = Down
  /\ wal' = wal \ server.open
  /\ UNCHANGED <<exists, lock, db, command, copy, pack, trusted,
                 boots, commands, deaths>>

Crash ==
  /\ server # Down
  /\ deaths < MaxDeaths
  /\ server' = Down
  /\ deaths' = deaths + 1
  /\ UNCHANGED <<exists, lock, db, wal, command, copy, pack, trusted,
                 boots, commands>>
-----------------------------------------------------------------------------
(***************************************************************************)
(* falda reembed: one store after the other, then the manifest.            *)
(***************************************************************************)
ServerKept == UNCHANGED <<server, boots>>

Begun(kind, step, c, todo, all) ==
  /\ commands < MaxCommands
  /\ commands' = commands + 1
  /\ command' = [kind |-> kind, step |-> step, conf |-> c,
                 todo |-> todo, at |-> {}, all |-> all]

\* Of all listed stores, or of one; the manifest in force is not looked at.
BeginReembed(c) ==
  /\ Offline
  /\ Listed # {}
  /\ \E todo \in {Listed} \cup {{s} : s \in Listed} :
       Begun("reembed", "next", c, todo, todo = Listed)
  /\ trusted' = FALSE
  /\ ServerKept /\ UNCHANGED <<exists, lock, db, wal, copy, pack, deaths>>

Reembedding(step) == command.kind = "reembed" /\ command.step = step
ReembedKeeps == ServerKept /\ UNCHANGED <<exists, copy, pack, commands, deaths>>

\* Mutant: tables of the right dimension are kept.
DroppedIfNew(store) ==
  IF store.dim = Dim[command.conf] THEN store
  ELSE [dim |-> NoDim, rows |-> [i \in DOMAIN store.rows |-> NoConfig]]

Dropped(store) ==
  [dim |-> NoDim, rows |-> [i \in DOMAIN store.rows |-> NoConfig]]

DropTables(s) ==
  /\ Reembedding("next")
  /\ s \in command.todo
  /\ db' = [db EXCEPT ![s] = Dropped(@)]
  /\ wal' = wal \cup {s}
  /\ command' = [command EXCEPT !.step = "create", !.at = {s},
                                !.todo = @ \ {s}]
  /\ ReembedKeeps /\ UNCHANGED <<lock, trusted>>

CreateTables(s) ==
  /\ Reembedding("create") /\ command.at = {s}
  /\ db' = [db EXCEPT ![s] = [@ EXCEPT !.dim = Dim[command.conf]]]
  /\ command' = [command EXCEPT !.step = "embed"]
  /\ ReembedKeeps /\ UNCHANGED <<lock, wal, trusted>>

Bare(s) == {i \in DOMAIN db[s].rows : db[s].rows[i] = NoConfig}

Embedded(store, i, c) ==
  [dim |-> store.dim, rows |-> [store.rows EXCEPT ![i] = c]]

EmbedRow(s) ==
  /\ Reembedding("embed") /\ command.at = {s}
  /\ \E i \in Bare(s) :
       /\ \A j \in Bare(s) : i <= j
       /\ db' = [db EXCEPT ![s] = Embedded(@, i, command.conf)]
  /\ ReembedKeeps /\ UNCHANGED <<lock, wal, command, trusted>>

CloseStore(s) ==
  /\ Reembedding("embed") /\ command.at = {s}
  /\ Bare(s) = {}
  /\ wal' = wal \ {s}
  /\ command' = [command EXCEPT !.step = "next", !.at = {}]
  /\ ReembedKeeps /\ UNCHANGED <<lock, db, trusted>>

TruncateManifest ==
  /\ Reembedding("next") /\ command.todo = {}
  /\ lock' = Torn
  /\ command' = [command EXCEPT !.step = "manifest"]
  /\ ReembedKeeps /\ UNCHANGED <<db, wal, trusted>>

WriteManifest ==
  /\ Reembedding("manifest")
  /\ lock' = command.conf
  /\ command' = Idle
  /\ trusted' = command.all
  /\ ReembedKeeps /\ UNCHANGED <<db, wal>>
-----------------------------------------------------------------------------
(***************************************************************************)
(* falda backup, which may run beside the server, and falda restore.       *)
(***************************************************************************)

\* The dimension goes into the backup's manifest, read before the stores.
BeginBackup ==
  /\ command = Idle
  /\ Listed # {}
  /\ \E todo \in {Listed} \cup {{s} : s \in Listed} :
       Begun("backup", "next", NoConfig, todo, todo = Listed)
  /\ copy' = [rootDim |-> IF lock \in Configs THEN Dim[lock] ELSE NoDim,
              lock |-> NoConfig, db |-> Nothing, trusted |-> trusted]
  /\ ServerKept /\ UNCHANGED <<exists, lock, db, wal, pack, trusted, deaths>>

Copying(step) == command.kind = "backup" /\ command.step = step
BackupKeeps ==
  ServerKept /\ UNCHANGED <<exists, lock, db, wal, trusted, commands, deaths>>

\* VACUUM INTO: one store as a transaction sees it.
Snapshot(s) ==
  /\ command.kind = "backup"
  /\ s \in command.todo
  /\ copy' = [copy EXCEPT
       !.db = [t \in DOMAIN @ \cup {s} |-> IF t = s THEN db[s] ELSE @[t]]]
  /\ command' = [command EXCEPT !.todo = @ \ {s}]
  /\ BackupKeeps /\ UNCHANGED pack

\* Mutant: the manifest may be copied before a store.
CopiedAnyTime == TRUE

\* EMBEDDING.json is copied after the stores.
StoresCopied == command.todo = {}

CopyLock ==
  /\ Copying("next") /\ StoresCopied
  /\ copy' = [copy EXCEPT !.lock = lock]
  /\ command' = [command EXCEPT !.step = "manifest"]
  /\ BackupKeeps /\ UNCHANGED pack

\* Without backup-manifest.json a directory is no backup.
EndBackup ==
  /\ Copying("manifest") /\ command.todo = {}
  /\ pack' = [copy EXCEPT !.trusted = @ /\ trusted]
  /\ copy' = NoPack
  /\ command' = Idle
  /\ BackupKeeps

\* Only the dimension is compared, with a manifest that can be parsed.
DimCompatible ==
  (pack.rootDim # NoDim /\ lock \in Configs) => Dim[lock] = pack.rootDim

\* Into a fresh root that takes the place of this one.
BeginRestoreFresh ==
  /\ Offline /\ pack # NoPack
  /\ Begun("restore", "lock", NoConfig, DOMAIN pack.db, TRUE)
  /\ exists' = TRUE
  /\ lock' = NoConfig
  /\ db' = [s \in Stores |-> Absent]
  /\ wal' = {}
  /\ trusted' = pack.trusted
  /\ ServerKept /\ UNCHANGED <<copy, pack, deaths>>

\* In place, with --yes.
BeginRestoreOver ==
  /\ Offline /\ pack # NoPack
  /\ DimCompatible
  /\ Begun("restore", "lock", NoConfig, DOMAIN pack.db, FALSE)
  /\ exists' = TRUE
  /\ trusted' = (trusted /\ pack.trusted /\ lock = pack.lock)
  /\ ServerKept /\ UNCHANGED <<lock, db, wal, copy, pack, deaths>>

Restoring(step) == command.kind = "restore" /\ command.step = step
RestoreKeeps == ServerKept /\ UNCHANGED <<exists, wal, copy, pack, commands, deaths>>

\* The files at the root come first.
RestoreLock ==
  /\ Restoring("lock")
  /\ lock' = IF pack.lock = NoConfig THEN lock ELSE pack.lock
  /\ command' = [command EXCEPT !.step = "next"]
  /\ RestoreKeeps /\ UNCHANGED <<db, trusted>>

\* A log left by a killed process is not removed, and SQLite may replay it
\* over the file it finds.  A store without a database has nothing to copy.
Restored(s) ==
  IF pack.db[s] = Absent THEN {db[s]}
  ELSE {pack.db[s]} \cup (IF s \in wal THEN {db[s]} ELSE {})

RestoreStore(s) ==
  /\ Restoring("next")
  /\ s \in command.todo
  /\ \E store \in Restored(s) : db' = [db EXCEPT ![s] = store]
  /\ command' = [command EXCEPT !.todo = @ \ {s}]
  /\ RestoreKeeps /\ UNCHANGED <<lock, trusted>>

\* The manifest tells the truth again if every store came from the backup.
Replaced ==
  \A s \in Stores :
    db[s] # Absent => s \in DOMAIN pack.db \ wal /\ pack.db[s] # Absent

EndRestore ==
  /\ Restoring("next") /\ command.todo = {}
  /\ command' = Idle
  /\ trusted' = (trusted \/ (pack.trusted /\ pack.lock \in Configs /\ Replaced))
  /\ RestoreKeeps /\ UNCHANGED <<lock, db>>

\* Killed, or an error that closes the open store: nothing is undone.
CommandDies ==
  /\ command # Idle
  /\ deaths < MaxDeaths
  /\ deaths' = deaths + 1
  /\ wal' \in {wal, wal \ command.at}
  /\ command' = Idle
  /\ copy' = NoPack
  /\ ServerKept /\ UNCHANGED <<exists, lock, db, pack, trusted, commands>>
-----------------------------------------------------------------------------
Init ==
  /\ exists \in BOOLEAN
  /\ lock = NoConfig
  /\ db = [s \in Stores |-> Absent]
  /\ wal = {}
  /\ server = Down
  /\ command = Idle
  /\ copy = NoPack
  /\ pack = NoPack
  /\ trusted = TRUE
  /\ boots = 0 /\ commands = 0 /\ deaths = 0

ServerStep ==
  \/ \E c \in Configs : Boot(c) \/ BootFirst(c) \/ BootWithoutRoot(c)
  \/ LockWritten
  \/ \E s \in Stores : Write(s)
  \/ Stop
  \/ Crash

ReembedStep ==
  \/ \E c \in Targets : BeginReembed(c)
  \/ \E s \in Stores :
       DropTables(s) \/ CreateTables(s) \/ EmbedRow(s) \/ CloseStore(s)
  \/ TruncateManifest
  \/ WriteManifest

BackupStep ==
  BeginBackup \/ (\E s \in Stores : Snapshot(s)) \/ CopyLock \/ EndBackup

RestoreStep ==
  \/ BeginRestoreFresh
  \/ BeginRestoreOver
  \/ RestoreLock
  \/ \E s \in Stores : RestoreStore(s)
  \/ EndRestore

Next == ServerStep \/ ReembedStep \/ BackupStep \/ RestoreStep \/ CommandDies

Spec == Init /\ [][Next]_vars
-----------------------------------------------------------------------------
(***************************************************************************)
(* Properties.                                                             *)
(***************************************************************************)

StoreType == {store \in [dim : Dims, rows : Seq(Vectors)] :
  \A i \in DOMAIN store.rows :
    store.rows[i] # NoConfig => store.dim = Dim[store.rows[i]]}

IsPack(p) ==
  /\ p = [rootDim |-> p.rootDim, lock |-> p.lock, db |-> p.db,
           trusted |-> p.trusted]
  /\ p.rootDim \in Dims /\ p.lock \in Locks /\ p.trusted \in BOOLEAN
  /\ DOMAIN p.db \subseteq Stores
  /\ p.db \in [DOMAIN p.db -> StoreType]

\* Types: a vector always has the dimension of the table it is in
\* (falda.ts:1246-1254, schema.ts), through drops, restores and deaths.
TypeOK ==
  /\ exists \in BOOLEAN
  /\ lock \in Locks
  /\ db \in [Stores -> StoreType]
  /\ wal \subseteq Stores
  /\ server \in [pc : {"down", "locking", "up"}, conf : Vectors,
                 open : SUBSET Stores]
  /\ command \in [kind : {"none", "reembed", "backup", "restore"},
                  step : {"idle", "next", "create", "embed", "manifest", "lock"},
                  conf : Vectors, todo : SUBSET Stores,
                  at : SUBSET Stores, all : BOOLEAN]
  /\ IsPack(copy)
  /\ IsPack(pack)
  /\ trusted \in BOOLEAN
  /\ boots \in 0..MaxBoots
  /\ commands \in 0..MaxCommands
  /\ deaths \in 0..MaxDeaths

\* The tables and vectors of a store come from configuration c.
From(store, c) ==
  /\ store.dim = Dim[c]
  /\ \A i \in DOMAIN store.rows : store.rows[i] \in {NoConfig, c}

\* What the manifest says of all stores is so.
Agree(l, stores) ==
  \A s \in DOMAIN stores :
    stores[s] # Absent => l \in Configs /\ From(stores[s], l)

\* While a server answers, every vector of the root is of the embedder it was
\* started with (boot.ts:3-6), as long as no boot found the root missing, none
\* was of another embedder with the model name and the dimension of the
\* manifest (boot.ts:33-49 is not recorded in it), no reembed was scoped or cut
\* short, and no backup was restored over stores of another embedder.
\* Truncated manifests, deaths of the server while it writes one, and restores
\* that break off do no harm, and a complete reembed puts the others right.
ServedVectorsMatch ==
  (server.pc = "up" /\ trusted) => lock = server.conf /\ Agree(lock, db)

\* A backup is as coherent as its root was, though a server may have started
\* for the first time, and written its manifest, between two of its copies.
PackMatchesItsLock ==
  pack.trusted => Agree(pack.lock, pack.db)

\* An unscoped reembed that gets to its end leaves every store with all its
\* vectors from the new configuration, whatever broke off before it
\* (docs/OPERATIONS.md, "re-running is safe").
ReembedUnifies ==
  [][(Reembedding("manifest") /\ command.all /\ lock' \in Configs) =>
       \A s \in Stores : db'[s] # Absent =>
         /\ From(db'[s], lock')
         /\ NoConfig \notin Range(db'[s].rows)]_vars
=============================================================================
