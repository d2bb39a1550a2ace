--------------------------- MODULE FaldaRootProofs ---------------------------
(***************************************************************************)
(* Proofs about FaldaRoot, for any stores, configurations and bounds: what *)
(* the manifest promises holds, through deaths of server and commands,     *)
(* while "trusted" does.                                                   *)
(***************************************************************************)
EXTENDS FaldaRoot, SequenceTheorems, TLAPS

\* Nothing is in a root that is not there.
RootThere ==
  ~exists => lock = NoConfig /\ server = Down /\ db = [s \in Stores |-> Absent]

ServerShape ==
  /\ server.pc = "down" => server = Down
  /\ server.pc # "down" => server.conf \in Configs /\ exists
  /\ server.pc = "locking" => lock = Torn

CommandShape ==
  /\ command.kind = "none" => command = Idle
  /\ command.kind \in {"reembed", "restore"} => server = Down /\ exists
  /\ command.kind = "reembed" =>
       /\ command.conf \in Configs
       /\ command.step \in {"next", "create", "embed", "manifest"}
       /\ command.step \in {"next", "manifest"} => command.at = {}
  /\ command.kind \in {"reembed", "backup"} /\ command.step = "manifest" =>
       command.todo = {}
  /\ command.kind = "reembed" /\ command.step = "manifest" => lock = Torn
  /\ command.kind = "restore" => command.step \in {"lock", "next"}

\* What the history promises of the manifest.
LockIsTrue ==
  trusted => /\ Agree(lock, db)
             /\ server.pc = "up" => lock = server.conf
             /\ command.kind # "reembed"

\* The tables of the store that is being embedded again.
TablesReady ==
  command.kind = "reembed" =>
    \A s \in command.at :
      /\ command.step = "create" =>
           \A i \in DOMAIN db[s].rows : db[s].rows[i] = NoConfig
      /\ command.step = "embed" => From(db[s], command.conf)

\* What an unscoped reembed has done so far.
Rebuilt ==
  (command.kind = "reembed" /\ command.all) =>
    \A s \in Stores \ (command.todo \cup command.at) :
      db[s] # Absent => From(db[s], command.conf) /\ Bare(s) = {}

\* What a backup has captured so far.
CopyIsCoherent ==
  (command.kind = "backup" /\ copy.trusted /\ trusted) =>
    Agree(IF command.step = "manifest" THEN copy.lock ELSE lock, copy.db)

\* What a restore has laid out so far.
RestoreIsCoherent ==
  command.kind = "restore" =>
    /\ command.todo \subseteq DOMAIN pack.db
    /\ trusted => /\ pack.trusted
                  /\ \/ lock = pack.lock
                     \/ command.step = "lock" /\ lock = NoConfig
    /\ (command.step = "next" /\ pack.lock \in Configs) => lock = pack.lock
    /\ \A s \in DOMAIN pack.db \ (command.todo \cup wal) :
         pack.db[s] # Absent => db[s] = pack.db[s]

Inv ==
  /\ TypeOK /\ RootThere /\ ServerShape /\ CommandShape
  /\ LockIsTrue /\ TablesReady /\ Rebuilt
  /\ CopyIsCoherent /\ PackMatchesItsLock /\ RestoreIsCoherent
-----------------------------------------------------------------------------
(***************************************************************************)
(* Stores.                                                                 *)
(***************************************************************************)

LEMMA StoreFields ==
  ASSUME NEW store \in StoreType
  PROVE  /\ store.dim \in Dims
         /\ store.rows \in Seq(Vectors)
         /\ store = [dim |-> store.dim, rows |-> store.rows]
         /\ Len(store.rows) \in Nat
         /\ DOMAIN store.rows = 1..Len(store.rows)
         /\ \A i \in DOMAIN store.rows :
              /\ store.rows[i] \in Vectors
              /\ store.rows[i] # NoConfig => store.dim = Dim[store.rows[i]]
  BY DEF StoreType

LEMMA StoreIntro ==
  ASSUME NEW d \in Dims, NEW r \in Seq(Vectors),
         \A i \in DOMAIN r : r[i] # NoConfig => d = Dim[r[i]]
  PROVE  [dim |-> d, rows |-> r] \in StoreType
  BY DEF StoreType

LEMMA SequenceIntro ==
  ASSUME NEW n \in Nat, NEW r \in [1..n -> Vectors]
  PROVE  r \in Seq(Vectors)
  BY SeqDef

LEMMA AbsentIsAStore == Absent \in StoreType
  <1>1. <<>> \in Seq(Vectors) /\ DOMAIN <<>> = {}
    OBVIOUS
  <1> QED BY <1>1, StoreIntro DEF Absent, Dims

LEMMA DimIsADim ==
  ASSUME NEW c \in Configs
  PROVE  Dim[c] \in Dims /\ Dim[c] # NoDim
  BY RootAssumption DEF Dims, NoDim

\* Opening a store keeps its rows and gives it tables.
LEMMA OpenedStore ==
  ASSUME NEW store \in StoreType, NEW c \in Configs
  PROVE  /\ Opened(store, c) \in StoreType
         /\ Opened(store, c).rows = store.rows
         /\ Opened(store, c).dim = IF store.dim = NoDim THEN Dim[c] ELSE store.dim
  <1> DEFINE d == IF store.dim = NoDim THEN Dim[c] ELSE store.dim
  <1>1. Opened(store, c) = [dim |-> d, rows |-> store.rows]
    BY StoreFields DEF Opened
  <1>2. \A i \in DOMAIN store.rows :
          store.rows[i] # NoConfig => d = Dim[store.rows[i]]
    BY StoreFields, DimIsADim DEF Vectors
  <1>3. d \in Dims
    BY StoreFields, DimIsADim
  <1> QED BY <1>1, <1>2, <1>3, StoreFields, StoreIntro

\* A row is appended with a vector that fits, or with none.
LEMMA WrittenStore ==
  ASSUME NEW store \in StoreType, NEW c \in Configs,
         NEW v \in Insertable(store, c)
  PROVE  /\ [store EXCEPT !.rows = Append(@, v)] \in StoreType
         /\ From(store, c) => From([store EXCEPT !.rows = Append(@, v)], c)
  <1> DEFINE r == Append(store.rows, v)
  <1>1. [store EXCEPT !.rows = Append(@, v)] = [dim |-> store.dim, rows |-> r]
    BY StoreFields
  <1>2. v \in Vectors /\ (v # NoConfig => store.dim = Dim[v]) /\ v \in {NoConfig, c}
    BY DEF Insertable, Vectors
  <1>3. /\ r \in Seq(Vectors)
        /\ DOMAIN r = 1..(Len(store.rows) + 1)
        /\ \A i \in DOMAIN r :
             r[i] = IF i = Len(store.rows) + 1 THEN v ELSE store.rows[i]
    BY <1>2, StoreFields
  <1>4. \A i \in DOMAIN r : r[i] # NoConfig => store.dim = Dim[r[i]]
    BY <1>2, <1>3, StoreFields
  <1>5. [dim |-> store.dim, rows |-> r] \in StoreType
    BY <1>3, <1>4, StoreFields, StoreIntro
  <1>6. From(store, c) => From([dim |-> store.dim, rows |-> r], c)
    BY <1>2, <1>3, StoreFields DEF From
  <1> QED BY <1>1, <1>5, <1>6

LEMMA DroppedStore ==
  ASSUME NEW store \in StoreType
  PROVE  /\ Dropped(store) \in StoreType
         /\ \A i \in DOMAIN Dropped(store).rows : Dropped(store).rows[i] = NoConfig
  <1> DEFINE r == [i \in DOMAIN store.rows |-> NoConfig]
  <1>1. r \in [1..Len(store.rows) -> Vectors]
    BY StoreFields DEF Vectors
  <1>2. r \in Seq(Vectors)
    BY <1>1, StoreFields, SequenceIntro
  <1> QED BY <1>2, StoreIntro DEF Dropped, Dims

\* Bare tables can be created for any configuration.
LEMMA CreatedStore ==
  ASSUME NEW store \in StoreType, NEW c \in Configs,
         \A i \in DOMAIN store.rows : store.rows[i] = NoConfig
  PROVE  /\ [store EXCEPT !.dim = Dim[c]] \in StoreType
         /\ From([store EXCEPT !.dim = Dim[c]], c)
  <1>1. [store EXCEPT !.dim = Dim[c]] = [dim |-> Dim[c], rows |-> store.rows]
    BY StoreFields
  <1> QED BY <1>1, StoreFields, StoreIntro, DimIsADim DEF From

LEMMA EmbeddedStore ==
  ASSUME NEW store \in StoreType, NEW c \in Configs, From(store, c),
         NEW i \in DOMAIN store.rows
  PROVE  /\ Embedded(store, i, c) \in StoreType
         /\ From(Embedded(store, i, c), c)
  <1> DEFINE r == [store.rows EXCEPT ![i] = c]
  <1>1. Embedded(store, i, c) = [dim |-> store.dim, rows |-> r]
    BY DEF Embedded
  <1>2. r \in [1..Len(store.rows) -> Vectors]
    BY StoreFields DEF Vectors
  <1>3. r \in Seq(Vectors)
    BY <1>2, StoreFields, SequenceIntro
  <1>4. \A j \in DOMAIN r : r[j] # NoConfig => store.dim = Dim[r[j]]
    BY StoreFields DEF From
  <1>5. \A j \in DOMAIN r : r[j] \in {NoConfig, c}
    BY <1>2, StoreFields DEF From
  <1>6. store.dim \in Dims /\ store.dim = Dim[c]
    BY StoreFields DEF From
  <1>7. [dim |-> store.dim, rows |-> r] \in StoreType
    BY <1>3, <1>4, <1>6, StoreIntro
  <1>8. From([dim |-> store.dim, rows |-> r], c)
    BY <1>5, <1>6 DEF From
  <1> QED BY <1>1, <1>7, <1>8
-----------------------------------------------------------------------------
(***************************************************************************)
(* The server.                                                             *)
(***************************************************************************)

LEMMA BootKeeps ==
  ASSUME Inv, NEW c \in Configs, Boot(c)
  PROVE  Inv'
  <1> USE DEF Boot, Starting, Up
  <1>1. TypeOK'
    BY RootAssumption DEF Inv, TypeOK, Down, Vectors
  <1>2. RootThere' /\ ServerShape' /\ CommandShape'
    BY RootAssumption DEF Inv, RootThere, ServerShape, CommandShape, Down
  <1>3. LockIsTrue'
    <2>1. trusted' => trusted /\ c = lock
      BY DEF Matches, LooksAlike
    <2> QED BY <2>1 DEF Inv, LockIsTrue, Agree, From
  <1>4. TablesReady' /\ Rebuilt'
    BY DEF Inv, TablesReady, Rebuilt, From, Bare
  <1>5. CopyIsCoherent' /\ PackMatchesItsLock' /\ RestoreIsCoherent'
    BY DEF Inv, CopyIsCoherent, PackMatchesItsLock, RestoreIsCoherent, Agree, From
  <1> QED BY <1>1, <1>2, <1>3, <1>4, <1>5 DEF Inv

LEMMA BootFirstKeeps ==
  ASSUME Inv, NEW c \in Configs, BootFirst(c)
  PROVE  Inv'
  <1> USE DEF BootFirst, Starting
  <1>1. TypeOK'
    BY RootAssumption DEF Inv, TypeOK, Down, Vectors, Locks
  <1>2. RootThere' /\ ServerShape' /\ CommandShape'
    BY RootAssumption DEF Inv, RootThere, ServerShape, CommandShape, Down
  <1>3. LockIsTrue'
    BY DEF Inv, LockIsTrue, Agree, From
  <1>4. TablesReady' /\ Rebuilt'
    BY DEF Inv, TablesReady, Rebuilt, From, Bare
  <1>5. CopyIsCoherent' /\ PackMatchesItsLock' /\ RestoreIsCoherent'
    BY DEF Inv, CopyIsCoherent, PackMatchesItsLock, RestoreIsCoherent, Agree, From
  <1> QED BY <1>1, <1>2, <1>3, <1>4, <1>5 DEF Inv

LEMMA LockWrittenKeeps ==
  ASSUME Inv, LockWritten
  PROVE  Inv'
  <1> USE DEF LockWritten, Up
  <1>1. TypeOK'
    BY DEF Inv, TypeOK, ServerShape, Vectors, Locks
  <1>2. RootThere' /\ ServerShape' /\ CommandShape'
    BY RootAssumption DEF Inv, RootThere, ServerShape, CommandShape, Down
  <1>3. LockIsTrue'
    BY RootAssumption DEF Inv, LockIsTrue, ServerShape, Agree, From
  <1>4. TablesReady' /\ Rebuilt'
    BY DEF Inv, TablesReady, Rebuilt, From, Bare
  <1>5. CopyIsCoherent' /\ PackMatchesItsLock' /\ RestoreIsCoherent'
    BY RootAssumption DEF Inv, ServerShape, CommandShape, CopyIsCoherent,
       PackMatchesItsLock, RestoreIsCoherent, Agree, From, Down
  <1> QED BY <1>1, <1>2, <1>3, <1>4, <1>5 DEF Inv

LEMMA BootWithoutRootKeeps ==
  ASSUME Inv, NEW c \in Configs, BootWithoutRoot(c)
  PROVE  Inv'
  <1> USE DEF BootWithoutRoot, Starting, Up
  <1>1. TypeOK'
    <2>1. exists' \in BOOLEAN /\ trusted' \in BOOLEAN
      OBVIOUS
    <2>2. /\ server' \in [pc : {"down", "locking", "up"}, conf : Vectors,
                          open : SUBSET Stores]
          /\ boots' \in 0..MaxBoots
      BY RootAssumption DEF Inv, TypeOK, Vectors
    <2> QED BY <2>1, <2>2 DEF Inv, TypeOK
  <1>2. RootThere' /\ ServerShape' /\ CommandShape'
    BY RootAssumption DEF Inv, RootThere, ServerShape, CommandShape, Down
  <1>3. LockIsTrue' /\ CopyIsCoherent'
    BY DEF LockIsTrue, CopyIsCoherent
  <1>4. TablesReady' /\ Rebuilt'
    BY DEF Inv, TablesReady, Rebuilt, From, Bare
  <1>5. PackMatchesItsLock' /\ RestoreIsCoherent'
    BY DEF Inv, PackMatchesItsLock, RestoreIsCoherent, Agree, From
  <1> QED BY <1>1, <1>2, <1>3, <1>4, <1>5 DEF Inv

LEMMA WriteKeeps ==
  ASSUME Inv, NEW s \in Stores, Write(s)
  PROVE  Inv'
  <1> DEFINE c == server.conf
             store == Opened(db[s], c)
  <1>1. PICK v \in Insertable(store, c) :
          db' = [db EXCEPT ![s] = [store EXCEPT !.rows = Append(@, v)]]
    BY DEF Write
  <1>2. /\ c \in Configs /\ db[s] \in StoreType /\ store \in StoreType
        /\ server.pc = "up" /\ exists
    BY OpenedStore DEF Inv, TypeOK, ServerShape, Write
  <1>3. /\ [store EXCEPT !.rows = Append(@, v)] \in StoreType
        /\ From(store, c) => From([store EXCEPT !.rows = Append(@, v)], c)
    BY <1>2, WrittenStore
  <1>4. trusted => From(store, c)
    <2>1. From(db[s], c) => From(store, c)
      BY <1>2, OpenedStore, DimIsADim DEF From
    <2>2. db[s] = Absent => From(store, c)
      BY <1>2, OpenedStore DEF From, Absent
    <2> QED BY <1>2, <2>1, <2>2 DEF Inv, LockIsTrue, Agree, TypeOK
  <1>5. TypeOK'
    BY <1>1, <1>2, <1>3 DEF Inv, TypeOK, Write
  <1>6. RootThere' /\ ServerShape' /\ CommandShape'
    BY <1>2 DEF Inv, RootThere, ServerShape, CommandShape, Down, Write
  <1>7. LockIsTrue'
    BY <1>1, <1>2, <1>3, <1>4 DEF Inv, LockIsTrue, Agree, TypeOK, From, Write
  <1>8. TablesReady' /\ Rebuilt' /\ RestoreIsCoherent'
    BY <1>2 DEF Inv, TablesReady, Rebuilt, RestoreIsCoherent, CommandShape, Down, Write
  <1>9. CopyIsCoherent' /\ PackMatchesItsLock'
    BY DEF Inv, CopyIsCoherent, PackMatchesItsLock, Agree, From, Write
  <1> QED BY <1>5, <1>6, <1>7, <1>8, <1>9 DEF Inv

\* Stop and Crash only end the process.
LEMMA ServerEnds ==
  ASSUME Inv, server' = Down, wal' \in {wal, wal \ server.open},
         UNCHANGED <<exists, lock, db, command, copy, pack, trusted>>,
         UNCHANGED <<boots, commands>>, deaths' \in 0..MaxDeaths,
         server # Down
  PROVE  Inv'
  <1>1. TypeOK'
    BY DEF Inv, TypeOK, Down, Vectors
  <1>2. RootThere' /\ ServerShape' /\ CommandShape'
    BY DEF Inv, RootThere, ServerShape, CommandShape, Down
  <1>3. LockIsTrue'
    BY DEF Inv, LockIsTrue, Agree, From, Down
  <1>4. TablesReady' /\ Rebuilt' /\ RestoreIsCoherent'
    BY DEF Inv, TablesReady, Rebuilt, RestoreIsCoherent, CommandShape
  <1>5. CopyIsCoherent' /\ PackMatchesItsLock'
    BY DEF Inv, CopyIsCoherent, PackMatchesItsLock, Agree, From
  <1> QED BY <1>1, <1>2, <1>3, <1>4, <1>5 DEF Inv

LEMMA ServerKeeps ==
  ASSUME Inv, ServerStep
  PROVE  Inv'
  <1>1. ASSUME NEW c \in Configs, Boot(c) PROVE Inv'
    BY <1>1, BootKeeps
  <1>2. ASSUME NEW c \in Configs, BootFirst(c) PROVE Inv'
    BY <1>2, BootFirstKeeps
  <1>3. ASSUME NEW c \in Configs, BootWithoutRoot(c) PROVE Inv'
    BY <1>3, BootWithoutRootKeeps
  <1>4. ASSUME NEW s \in Stores, Write(s) PROVE Inv'
    BY <1>4, WriteKeeps
  <1>5. CASE LockWritten
    BY <1>5, LockWrittenKeeps
  <1>6. CASE Stop
    BY <1>6, ServerEnds DEF Stop, Inv, TypeOK, Down
  <1>7. CASE Crash
    BY <1>7, ServerEnds, RootAssumption DEF Crash, Inv, TypeOK
  <1> QED BY <1>1, <1>2, <1>3, <1>4, <1>5, <1>6, <1>7 DEF ServerStep
-----------------------------------------------------------------------------
(***************************************************************************)
(* Reembed.  It makes the manifest untrusted until it has ended, so what a *)
(* backup or a restore needs holds for want of either.                     *)
(***************************************************************************)

LEMMA BeginReembedKeeps ==
  ASSUME Inv, NEW c \in Configs, BeginReembed(c)
  PROVE  Inv'
  <1>1. PICK todo \in {Listed} \cup {{s} : s \in Listed} :
          Begun("reembed", "next", c, todo, todo = Listed)
    BY DEF BeginReembed
  <1>2. /\ exists /\ server = Down /\ Listed \subseteq Stores
        /\ todo \subseteq Stores
        /\ commands' \in 0..MaxCommands
        /\ command' = [kind |-> "reembed", step |-> "next", conf |-> c,
                       todo |-> todo, at |-> {}, all |-> (todo = Listed)]
    <2>1. exists /\ server = Down /\ Listed \subseteq Stores
      BY DEF BeginReembed, Offline, Listed
    <2>2. commands' \in 0..MaxCommands
      BY <1>1, RootAssumption DEF Begun, Inv, TypeOK
    <2>3. command' = [kind |-> "reembed", step |-> "next", conf |-> c,
                      todo |-> todo, at |-> {}, all |-> (todo = Listed)]
      BY <1>1 DEF Begun
    <2> QED BY <2>1, <2>2, <2>3
  <1>3. TypeOK'
    BY <1>2 DEF BeginReembed, ServerKept, Inv, TypeOK, Vectors
  <1>4. RootThere' /\ ServerShape' /\ CommandShape'
    BY <1>2 DEF BeginReembed, ServerKept, Inv, RootThere, ServerShape,
                CommandShape, Down
  <1>5. LockIsTrue' /\ TablesReady' /\ CopyIsCoherent' /\ RestoreIsCoherent'
    BY <1>2 DEF BeginReembed, LockIsTrue, TablesReady, CopyIsCoherent,
                RestoreIsCoherent
  <1>6. Rebuilt'
    BY <1>2 DEF BeginReembed, Rebuilt, Listed
  <1>7. PackMatchesItsLock'
    BY DEF BeginReembed, Inv, PackMatchesItsLock, Agree, From
  <1> QED BY <1>3, <1>4, <1>5, <1>6, <1>7 DEF Inv

\* What every step of a reembed leaves alone.
LEMMA ReembedFrame ==
  ASSUME Inv, ReembedKeeps, command.kind = "reembed",
         command'.kind \in {"none", "reembed"}
  PROVE  /\ ~trusted /\ exists /\ server = Down /\ command.conf \in Configs
         /\ RootThere' /\ ServerShape' /\ CopyIsCoherent'
         /\ PackMatchesItsLock' /\ RestoreIsCoherent'
  <1>1. ~trusted /\ exists /\ server = Down /\ command.conf \in Configs
    BY DEF Inv, LockIsTrue, CommandShape
  <1>2. RootThere' /\ ServerShape'
    BY <1>1 DEF ReembedKeeps, ServerKept, RootThere, ServerShape, Down
  <1>3. CopyIsCoherent' /\ RestoreIsCoherent'
    BY DEF CopyIsCoherent, RestoreIsCoherent
  <1>4. PackMatchesItsLock'
    BY DEF ReembedKeeps, Inv, PackMatchesItsLock, Agree, From
  <1> QED BY <1>1, <1>2, <1>3, <1>4

LEMMA DropTablesKeeps ==
  ASSUME Inv, NEW s \in Stores, DropTables(s)
  PROVE  Inv'
  <1> USE DEF DropTables, Reembedding
  <1>1. db[s] \in StoreType /\ db \in [Stores -> StoreType]
    BY DEF Inv, TypeOK
  <1>2. /\ ReembedKeeps /\ command.kind = "reembed" /\ command.at = {}
        /\ command' = [command EXCEPT !.step = "create", !.at = {s},
                                      !.todo = @ \ {s}]
        /\ command'.kind = "reembed" /\ command'.step = "create"
        /\ command'.at = {s} /\ command'.conf = command.conf
        /\ command'.todo = command.todo \ {s} /\ command'.all = command.all
    BY DEF Inv, TypeOK, CommandShape
  <1>3. /\ ~trusted /\ exists /\ server = Down /\ command.conf \in Configs
        /\ RootThere' /\ ServerShape' /\ CopyIsCoherent'
        /\ PackMatchesItsLock' /\ RestoreIsCoherent'
    BY <1>2, ReembedFrame
  <1>4. TypeOK'
    BY <1>1, <1>2, DroppedStore DEF Inv, TypeOK, ReembedKeeps, ServerKept
  <1>5. CommandShape' /\ LockIsTrue'
    BY <1>2, <1>3 DEF CommandShape, LockIsTrue, ReembedKeeps, ServerKept
  <1>6. TablesReady'
    BY <1>1, <1>2, DroppedStore DEF TablesReady
  <1>7. Rebuilt'
    BY <1>1, <1>2 DEF Inv, Rebuilt, From, Bare
  <1> QED BY <1>3, <1>4, <1>5, <1>6, <1>7 DEF Inv

LEMMA CreateTablesKeeps ==
  ASSUME Inv, NEW s \in Stores, CreateTables(s)
  PROVE  Inv'
  <1> USE DEF CreateTables, Reembedding
  <1>1. db[s] \in StoreType /\ db \in [Stores -> StoreType]
    BY DEF Inv, TypeOK
  <1>2. /\ ReembedKeeps /\ command.kind = "reembed" /\ command.at = {s}
        /\ command' = [command EXCEPT !.step = "embed"]
        /\ command'.kind = "reembed" /\ command'.step = "embed"
        /\ command'.at = {s} /\ command'.conf = command.conf
        /\ command'.todo = command.todo /\ command'.all = command.all
    BY DEF Inv, TypeOK
  <1>3. /\ ~trusted /\ exists /\ server = Down /\ command.conf \in Configs
        /\ RootThere' /\ ServerShape' /\ CopyIsCoherent'
        /\ PackMatchesItsLock' /\ RestoreIsCoherent'
    BY <1>2, ReembedFrame
  <1>4. /\ [db[s] EXCEPT !.dim = Dim[command.conf]] \in StoreType
        /\ From([db[s] EXCEPT !.dim = Dim[command.conf]], command.conf)
    BY <1>1, <1>3, CreatedStore DEF Inv, TablesReady
  <1>5. TypeOK'
    BY <1>1, <1>2, <1>4 DEF Inv, TypeOK, ReembedKeeps, ServerKept
  <1>6. CommandShape' /\ LockIsTrue'
    BY <1>2, <1>3 DEF CommandShape, LockIsTrue, ReembedKeeps, ServerKept
  <1>7. TablesReady'
    BY <1>1, <1>2, <1>4 DEF TablesReady, From
  <1>8. Rebuilt'
    BY <1>1, <1>2 DEF Inv, Rebuilt, From, Bare
  <1> QED BY <1>3, <1>5, <1>6, <1>7, <1>8 DEF Inv

LEMMA EmbedRowKeeps ==
  ASSUME Inv, NEW s \in Stores, EmbedRow(s)
  PROVE  Inv'
  <1> USE DEF Reembedding
  <1>1. db[s] \in StoreType /\ db \in [Stores -> StoreType]
    BY DEF Inv, TypeOK
  <1>2. /\ ReembedKeeps /\ command.kind = "reembed" /\ command.at = {s}
        /\ command.step = "embed" /\ command' = command
        /\ UNCHANGED <<lock, wal, trusted>>
    BY DEF EmbedRow
  <1>3. PICK i \in DOMAIN db[s].rows :
          db' = [db EXCEPT ![s] = Embedded(@, i, command.conf)]
    BY DEF EmbedRow, Bare
  <1>4. /\ ~trusted /\ exists /\ server = Down /\ command.conf \in Configs
        /\ RootThere' /\ ServerShape' /\ CopyIsCoherent'
        /\ PackMatchesItsLock' /\ RestoreIsCoherent'
    BY <1>2, ReembedFrame
  <1>5. /\ Embedded(db[s], i, command.conf) \in StoreType
        /\ From(Embedded(db[s], i, command.conf), command.conf)
    BY <1>1, <1>2, <1>4, EmbeddedStore DEF Inv, TablesReady
  <1>6. TypeOK'
    BY <1>1, <1>2, <1>3, <1>5 DEF Inv, TypeOK, ReembedKeeps, ServerKept
  <1>7. CommandShape' /\ LockIsTrue'
    BY <1>2, <1>4 DEF Inv, CommandShape, LockIsTrue, ReembedKeeps, ServerKept
  <1>8. TablesReady'
    BY <1>1, <1>2, <1>3, <1>5 DEF TablesReady, From
  <1>9. Rebuilt'
    BY <1>1, <1>2, <1>3 DEF Inv, Rebuilt, From, Bare
  <1> QED BY <1>4, <1>6, <1>7, <1>8, <1>9 DEF Inv

LEMMA CloseStoreKeeps ==
  ASSUME Inv, NEW s \in Stores, CloseStore(s)
  PROVE  Inv'
  <1> USE DEF CloseStore, Reembedding
  <1>1. /\ ReembedKeeps /\ command.kind = "reembed" /\ command.at = {s}
        /\ command' = [command EXCEPT !.step = "next", !.at = {}]
        /\ command'.kind = "reembed" /\ command'.step = "next"
        /\ command'.at = {} /\ command'.conf = command.conf
        /\ command'.todo = command.todo /\ command'.all = command.all
    BY DEF Inv, TypeOK
  <1>2. /\ ~trusted /\ exists /\ server = Down /\ command.conf \in Configs
        /\ RootThere' /\ ServerShape' /\ CopyIsCoherent'
        /\ PackMatchesItsLock' /\ RestoreIsCoherent'
    BY <1>1, ReembedFrame
  <1>3. TypeOK'
    BY <1>1 DEF Inv, TypeOK, ReembedKeeps, ServerKept
  <1>4. CommandShape' /\ LockIsTrue' /\ TablesReady'
    BY <1>1, <1>2 DEF CommandShape, LockIsTrue, TablesReady, ReembedKeeps, ServerKept
  <1>5. From(db[s], command.conf) /\ Bare(s) = {}
    BY <1>1 DEF Inv, TablesReady
  <1>6. Rebuilt'
    BY <1>1, <1>5 DEF Inv, Rebuilt, From, Bare
  <1> QED BY <1>2, <1>3, <1>4, <1>6 DEF Inv

LEMMA TruncateManifestKeeps ==
  ASSUME Inv, TruncateManifest
  PROVE  Inv'
  <1> USE DEF TruncateManifest, Reembedding
  <1>1. /\ ReembedKeeps /\ command.kind = "reembed" /\ command.at = {}
        /\ command' = [command EXCEPT !.step = "manifest"]
        /\ command'.kind = "reembed" /\ command'.step = "manifest"
        /\ command'.at = {} /\ command'.conf = command.conf
        /\ command'.todo = {} /\ command.todo = {} /\ command'.all = command.all
    BY DEF Inv, TypeOK, CommandShape
  <1>2. /\ ~trusted /\ exists /\ server = Down /\ command.conf \in Configs
        /\ RootThere' /\ ServerShape' /\ CopyIsCoherent'
        /\ PackMatchesItsLock' /\ RestoreIsCoherent'
    BY <1>1, ReembedFrame
  <1>3. TypeOK'
    BY <1>1 DEF Inv, TypeOK, ReembedKeeps, ServerKept, Locks
  <1>4. CommandShape' /\ LockIsTrue' /\ TablesReady'
    BY <1>1, <1>2 DEF CommandShape, LockIsTrue, TablesReady, ReembedKeeps, ServerKept
  <1>5. Rebuilt'
    BY <1>1 DEF Inv, Rebuilt, From, Bare
  <1> QED BY <1>2, <1>3, <1>4, <1>5 DEF Inv

\* All stores are rebuilt when the manifest is written.
LEMMA AllRebuilt ==
  ASSUME Inv, Reembedding("manifest"), command.all, NEW s \in Stores,
         db[s] # Absent
  PROVE  From(db[s], command.conf) /\ Bare(s) = {}
  BY DEF Inv, Rebuilt, CommandShape, Reembedding

LEMMA WriteManifestKeeps ==
  ASSUME Inv, WriteManifest
  PROVE  Inv'
  <1> USE DEF WriteManifest, Reembedding, Idle
  <1>1. ReembedKeeps /\ command.kind = "reembed" /\ command'.kind = "none"
    OBVIOUS
  <1>2. /\ ~trusted /\ exists /\ server = Down /\ command.conf \in Configs
        /\ RootThere' /\ ServerShape' /\ CopyIsCoherent'
        /\ PackMatchesItsLock' /\ RestoreIsCoherent'
    BY <1>1, ReembedFrame
  <1>3. TypeOK'
    BY <1>1, <1>2 DEF Inv, TypeOK, ReembedKeeps, ServerKept, Locks, Vectors
  <1>4. CommandShape' /\ TablesReady' /\ Rebuilt'
    BY <1>1 DEF CommandShape, TablesReady, Rebuilt
  <1>5. command.all => Agree(command.conf, db)
    BY <1>1, <1>2, AllRebuilt DEF Agree, Inv, TypeOK
  <1>6. LockIsTrue'
    BY <1>1, <1>2, <1>5 DEF LockIsTrue, Agree, From, ReembedKeeps, ServerKept, Down
  <1> QED BY <1>2, <1>3, <1>4, <1>6 DEF Inv

LEMMA ReembedStepKeeps ==
  ASSUME Inv, ReembedStep
  PROVE  Inv'
  <1>1. ASSUME NEW c \in Targets, BeginReembed(c) PROVE Inv'
    BY <1>1, BeginReembedKeeps, RootAssumption
  <1>2. ASSUME NEW s \in Stores, DropTables(s) PROVE Inv'
    BY <1>2, DropTablesKeeps
  <1>3. ASSUME NEW s \in Stores, CreateTables(s) PROVE Inv'
    BY <1>3, CreateTablesKeeps
  <1>4. ASSUME NEW s \in Stores, EmbedRow(s) PROVE Inv'
    BY <1>4, EmbedRowKeeps
  <1>5. ASSUME NEW s \in Stores, CloseStore(s) PROVE Inv'
    BY <1>5, CloseStoreKeeps
  <1> QED
    BY <1>1, <1>2, <1>3, <1>4, <1>5, TruncateManifestKeeps, WriteManifestKeeps
    DEF ReembedStep
-----------------------------------------------------------------------------
(***************************************************************************)
(* Backup.  Until the manifest is copied the stores captured agree with    *)
(* the manifest in force, then with the copy.                              *)
(***************************************************************************)

LEMMA BeginBackupKeeps ==
  ASSUME Inv, BeginBackup
  PROVE  Inv'
  <1>1. PICK todo \in {Listed} \cup {{s} : s \in Listed} :
          Begun("backup", "next", NoConfig, todo, todo = Listed)
    BY DEF BeginBackup
  <1>2. /\ todo \subseteq Stores
        /\ commands' \in 0..MaxCommands
        /\ command' = [kind |-> "backup", step |-> "next", conf |-> NoConfig,
                       todo |-> todo, at |-> {}, all |-> (todo = Listed)]
    <2>1. commands' \in 0..MaxCommands
      BY <1>1, RootAssumption DEF Begun, Inv, TypeOK
    <2>2. command' = [kind |-> "backup", step |-> "next", conf |-> NoConfig,
                      todo |-> todo, at |-> {}, all |-> (todo = Listed)]
      BY <1>1 DEF Begun
    <2> QED BY <2>1, <2>2 DEF Listed
  <1>3. IsPack(copy')
    BY DEF BeginBackup, IsPack, Nothing, Inv, TypeOK, Dims, Locks
  <1>4. TypeOK'
    BY <1>2, <1>3 DEF BeginBackup, ServerKept, Inv, TypeOK, Vectors
  <1>5. RootThere' /\ ServerShape' /\ CommandShape' /\ LockIsTrue'
    BY <1>2 DEF BeginBackup, ServerKept, Inv, RootThere, ServerShape,
                CommandShape, LockIsTrue, Agree, From
  <1>6. TablesReady' /\ Rebuilt' /\ RestoreIsCoherent'
    BY <1>2 DEF TablesReady, Rebuilt, RestoreIsCoherent
  <1>7. CopyIsCoherent'
    BY <1>2 DEF BeginBackup, CopyIsCoherent, Agree, Nothing
  <1>8. PackMatchesItsLock'
    BY DEF BeginBackup, Inv, PackMatchesItsLock, Agree, From
  <1> QED BY <1>4, <1>5, <1>6, <1>7, <1>8 DEF Inv

LEMMA SnapshotKeeps ==
  ASSUME Inv, NEW s \in Stores, Snapshot(s)
  PROVE  Inv'
  <1> DEFINE d == [t \in DOMAIN copy.db \cup {s} |->
                     IF t = s THEN db[s] ELSE copy.db[t]]
  <1>1. /\ copy = [rootDim |-> copy.rootDim, lock |-> copy.lock,
                   db |-> copy.db, trusted |-> copy.trusted]
        /\ copy.rootDim \in Dims /\ copy.lock \in Locks /\ copy.trusted \in BOOLEAN
        /\ DOMAIN copy.db \subseteq Stores
        /\ copy.db \in [DOMAIN copy.db -> StoreType]
        /\ db \in [Stores -> StoreType]
    BY DEF Inv, TypeOK, IsPack
  <1>2. copy' = [rootDim |-> copy.rootDim, lock |-> copy.lock,
                 db |-> d, trusted |-> copy.trusted]
    BY <1>1 DEF Snapshot
  <1>3. /\ command.kind = "backup"
        /\ command' = [command EXCEPT !.todo = @ \ {s}]
        /\ command'.kind = "backup" /\ command'.step = command.step
    BY DEF Snapshot, Inv, TypeOK
  <1>4. IsPack(copy')
    BY <1>1, <1>2 DEF IsPack
  <1>5. TypeOK'
    BY <1>3, <1>4 DEF Snapshot, BackupKeeps, ServerKept, Inv, TypeOK
  <1>6. RootThere' /\ ServerShape' /\ CommandShape' /\ LockIsTrue'
    BY <1>3 DEF Snapshot, BackupKeeps, ServerKept, Inv, RootThere, ServerShape,
                CommandShape, LockIsTrue, Agree, From
  <1>7. TablesReady' /\ Rebuilt' /\ RestoreIsCoherent'
    BY <1>3 DEF TablesReady, Rebuilt, RestoreIsCoherent
  <1>8. command.step # "manifest"
    BY DEF Snapshot, Inv, CommandShape
  <1>9. CopyIsCoherent'
    <2>1. /\ copy'.db = d /\ copy'.trusted = copy.trusted
          /\ trusted' = trusted /\ lock' = lock
      BY <1>2 DEF Snapshot, BackupKeeps
    <2>2. ASSUME copy.trusted, trusted PROVE Agree(lock, d)
      <3>1. Agree(lock, copy.db) /\ Agree(lock, db)
        BY <1>3, <1>8, <2>2 DEF Inv, CopyIsCoherent, LockIsTrue
      <3> QED BY <1>1, <3>1 DEF Agree
    <2>3. copy'.trusted /\ trusted' => Agree(lock', copy'.db)
      BY <2>1, <2>2
    <2> HIDE DEF d
    <2> QED BY <1>3, <1>8, <2>3 DEF CopyIsCoherent
  <1>10. PackMatchesItsLock'
    BY DEF Snapshot, BackupKeeps, Inv, PackMatchesItsLock, Agree, From
  <1> QED BY <1>5, <1>6, <1>7, <1>9, <1>10 DEF Inv

LEMMA CopyLockKeeps ==
  ASSUME Inv, CopyLock
  PROVE  Inv'
  <1>1. /\ copy = [rootDim |-> copy.rootDim, lock |-> copy.lock,
                   db |-> copy.db, trusted |-> copy.trusted]
        /\ copy.rootDim \in Dims /\ copy.trusted \in BOOLEAN
        /\ DOMAIN copy.db \subseteq Stores
        /\ copy.db \in [DOMAIN copy.db -> StoreType]
        /\ lock \in Locks
    BY DEF Inv, TypeOK, IsPack
  <1>2. copy' = [rootDim |-> copy.rootDim, lock |-> lock,
                 db |-> copy.db, trusted |-> copy.trusted]
    BY <1>1 DEF CopyLock
  <1>3. /\ command.kind = "backup" /\ command.step = "next" /\ command.todo = {}
        /\ command' = [command EXCEPT !.step = "manifest"]
        /\ command'.kind = "backup" /\ command'.step = "manifest"
        /\ command'.todo = {}
    BY DEF CopyLock, Copying, StoresCopied, Inv, TypeOK
  <1>4. IsPack(copy')
    BY <1>1, <1>2 DEF IsPack
  <1>5. TypeOK'
    BY <1>3, <1>4 DEF CopyLock, BackupKeeps, ServerKept, Inv, TypeOK
  <1>6. RootThere' /\ ServerShape' /\ CommandShape' /\ LockIsTrue'
    BY <1>3 DEF CopyLock, BackupKeeps, ServerKept, Inv, RootThere, ServerShape,
                CommandShape, LockIsTrue, Agree, From
  <1>7. TablesReady' /\ Rebuilt' /\ RestoreIsCoherent'
    BY <1>3 DEF TablesReady, Rebuilt, RestoreIsCoherent
  <1>8. CopyIsCoherent'
    BY <1>2, <1>3 DEF CopyLock, BackupKeeps, Inv, CopyIsCoherent, Agree, From
  <1>9. PackMatchesItsLock'
    BY DEF CopyLock, BackupKeeps, Inv, PackMatchesItsLock, Agree, From
  <1> QED BY <1>5, <1>6, <1>7, <1>8, <1>9 DEF Inv

LEMMA NoPackType == IsPack(NoPack)
  BY DEF IsPack, NoPack, Nothing, Dims, Locks

LEMMA EndBackupKeeps ==
  ASSUME Inv, EndBackup
  PROVE  Inv'
  <1> USE DEF EndBackup, Copying, Idle
  <1>1. /\ copy = [rootDim |-> copy.rootDim, lock |-> copy.lock,
                   db |-> copy.db, trusted |-> copy.trusted]
        /\ copy.rootDim \in Dims /\ copy.lock \in Locks
        /\ copy.trusted \in BOOLEAN /\ trusted \in BOOLEAN
        /\ DOMAIN copy.db \subseteq Stores
        /\ copy.db \in [DOMAIN copy.db -> StoreType]
    BY DEF Inv, TypeOK, IsPack
  <1>2. pack' = [rootDim |-> copy.rootDim, lock |-> copy.lock,
                 db |-> copy.db, trusted |-> (copy.trusted /\ trusted)]
    BY <1>1
  <1>3. IsPack(pack')
    BY <1>1, <1>2 DEF IsPack
  <1>4. TypeOK'
    BY <1>3, NoPackType DEF BackupKeeps, ServerKept, Inv, TypeOK, Vectors
  <1>5. RootThere' /\ ServerShape' /\ CommandShape' /\ LockIsTrue'
    BY DEF BackupKeeps, ServerKept, Inv, RootThere, ServerShape, CommandShape,
           LockIsTrue, Agree, From
  <1>6. TablesReady' /\ Rebuilt' /\ RestoreIsCoherent' /\ CopyIsCoherent'
    BY DEF TablesReady, Rebuilt, RestoreIsCoherent, CopyIsCoherent
  <1>7. PackMatchesItsLock'
    <2>1. copy.trusted /\ trusted => Agree(copy.lock, copy.db)
      BY DEF Inv, CopyIsCoherent
    <2>2. pack'.trusted => Agree(pack'.lock, pack'.db)
      BY <1>2, <2>1
    <2> QED BY <2>2 DEF PackMatchesItsLock
  <1> QED BY <1>4, <1>5, <1>6, <1>7 DEF Inv

LEMMA BackupStepKeeps ==
  ASSUME Inv, BackupStep
  PROVE  Inv'
  <1>1. ASSUME NEW s \in Stores, Snapshot(s) PROVE Inv'
    BY <1>1, SnapshotKeeps
  <1> QED BY <1>1, BeginBackupKeeps, CopyLockKeeps, EndBackupKeeps DEF BackupStep
-----------------------------------------------------------------------------
(***************************************************************************)
(* Restore.                                                                *)
(***************************************************************************)

LEMMA BeginRestoreFreshKeeps ==
  ASSUME Inv, BeginRestoreFresh
  PROVE  Inv'
  <1> USE DEF BeginRestoreFresh
  <1>1. /\ server' = Down /\ exists' /\ lock' = NoConfig /\ wal' = {}
        /\ db' = [s \in Stores |-> Absent] /\ trusted' = pack.trusted
        /\ pack' = pack /\ copy' = copy /\ boots' = boots /\ deaths' = deaths
    BY DEF Offline, ServerKept
  <1>2. /\ command' = [kind |-> "restore", step |-> "lock", conf |-> NoConfig,
                       todo |-> DOMAIN pack.db, at |-> {}, all |-> TRUE]
        /\ commands' \in 0..MaxCommands
    BY RootAssumption DEF Begun, Inv, TypeOK
  <1>3. DOMAIN pack.db \subseteq Stores /\ pack.trusted \in BOOLEAN
    BY DEF Inv, TypeOK, IsPack
  <1>4. TypeOK'
    <2>1. command' \in [kind : {"none", "reembed", "backup", "restore"},
                        step : {"idle", "next", "create", "embed", "manifest", "lock"},
                        conf : Vectors, todo : SUBSET Stores,
                        at : SUBSET Stores, all : BOOLEAN]
      BY <1>2, <1>3 DEF Vectors
    <2>2. db' \in [Stores -> StoreType]
      BY <1>1, AbsentIsAStore
    <2>3. exists' \in BOOLEAN /\ trusted' \in BOOLEAN
      BY <1>3
    <2> QED BY <1>1, <1>2, <2>1, <2>2, <2>3 DEF Inv, TypeOK, Down, Vectors, Locks
  <1>5. RootThere' /\ ServerShape' /\ CommandShape'
    BY <1>1, <1>2 DEF RootThere, ServerShape, CommandShape, Down
  <1>6. LockIsTrue' /\ TablesReady' /\ Rebuilt' /\ CopyIsCoherent'
    BY <1>1, <1>2 DEF LockIsTrue, TablesReady, Rebuilt, CopyIsCoherent, Agree, Down
  <1>7. PackMatchesItsLock'
    BY <1>1 DEF Inv, PackMatchesItsLock, Agree, From
  <1>8. RestoreIsCoherent'
    BY <1>1, <1>2 DEF RestoreIsCoherent
  <1> QED BY <1>4, <1>5, <1>6, <1>7, <1>8 DEF Inv

LEMMA BeginRestoreOverKeeps ==
  ASSUME Inv, BeginRestoreOver
  PROVE  Inv'
  <1> USE DEF BeginRestoreOver
  <1>1. /\ server = Down /\ server' = Down /\ exists'
        /\ trusted' = (trusted /\ pack.trusted /\ lock = pack.lock)
        /\ UNCHANGED <<lock, db, wal, copy, pack, boots, deaths>>
    BY DEF Offline, ServerKept
  <1>2. /\ command' = [kind |-> "restore", step |-> "lock", conf |-> NoConfig,
                       todo |-> DOMAIN pack.db, at |-> {}, all |-> FALSE]
        /\ commands' \in 0..MaxCommands
    BY RootAssumption DEF Begun, Inv, TypeOK
  <1>3. DOMAIN pack.db \subseteq Stores /\ pack.trusted \in BOOLEAN
    BY DEF Inv, TypeOK, IsPack
  <1>4. TypeOK'
    <2>1. command' \in [kind : {"none", "reembed", "backup", "restore"},
                        step : {"idle", "next", "create", "embed", "manifest", "lock"},
                        conf : Vectors, todo : SUBSET Stores,
                        at : SUBSET Stores, all : BOOLEAN]
      BY <1>2, <1>3 DEF Vectors
    <2>2. exists' \in BOOLEAN /\ trusted' \in BOOLEAN
      BY <1>1, <1>3 DEF Inv, TypeOK
    <2> QED BY <1>1, <1>2, <2>1, <2>2 DEF Inv, TypeOK
  <1>5. RootThere' /\ ServerShape' /\ CommandShape'
    BY <1>1, <1>2 DEF RootThere, ServerShape, CommandShape, Down
  <1>6. LockIsTrue' /\ TablesReady' /\ Rebuilt' /\ CopyIsCoherent'
    BY <1>1, <1>2 DEF Inv, LockIsTrue, TablesReady, Rebuilt, CopyIsCoherent, Agree,
                      From, Down
  <1>7. PackMatchesItsLock'
    BY <1>1 DEF Inv, PackMatchesItsLock, Agree, From
  <1>8. RestoreIsCoherent'
    BY <1>1, <1>2 DEF RestoreIsCoherent
  <1> QED BY <1>4, <1>5, <1>6, <1>7, <1>8 DEF Inv

LEMMA RestoreLockKeeps ==
  ASSUME Inv, RestoreLock
  PROVE  Inv'
  <1> USE DEF RestoreLock, Restoring, RestoreKeeps, ServerKept
  <1>1. /\ server = Down /\ exists /\ lock \in Locks /\ pack.lock \in Locks
        /\ command' = [command EXCEPT !.step = "next"]
        /\ command'.kind = "restore" /\ command'.step = "next"
        /\ command'.todo = command.todo
    BY DEF Inv, TypeOK, IsPack, CommandShape
  <1>2. TypeOK'
    BY <1>1 DEF Inv, TypeOK
  <1>3. RootThere' /\ ServerShape' /\ CommandShape'
    BY <1>1 DEF RootThere, ServerShape, CommandShape, Down
  <1>4. trusted => lock' = pack.lock
    BY <1>1 DEF Inv, RestoreIsCoherent
  <1>5. LockIsTrue'
    <2>1. trusted => Agree(lock, db) /\ (lock = pack.lock \/ lock = NoConfig)
      BY <1>1 DEF Inv, LockIsTrue, RestoreIsCoherent
    <2>2. trusted => Agree(pack.lock, db)
      BY <2>1, RootAssumption DEF Agree
    <2> QED BY <1>1, <1>4, <2>2 DEF LockIsTrue, Agree, From, Down
  <1>6. TablesReady' /\ Rebuilt' /\ CopyIsCoherent'
    BY <1>1 DEF TablesReady, Rebuilt, CopyIsCoherent
  <1>7. PackMatchesItsLock'
    BY DEF Inv, PackMatchesItsLock, Agree, From
  <1>8. RestoreIsCoherent'
    BY <1>1, <1>4, RootAssumption DEF Inv, RestoreIsCoherent
  <1> QED BY <1>2, <1>3, <1>5, <1>6, <1>7, <1>8 DEF Inv

LEMMA RestoreStoreKeeps ==
  ASSUME Inv, NEW s \in Stores, RestoreStore(s)
  PROVE  Inv'
  <1> USE DEF RestoreStore, Restoring, RestoreKeeps, ServerKept
  <1>1. /\ server = Down /\ exists /\ command.step = "next"
        /\ command' = [command EXCEPT !.todo = @ \ {s}]
        /\ command'.kind = "restore" /\ command'.step = "next"
        /\ command'.todo = command.todo \ {s} /\ s \in command.todo
        /\ db \in [Stores -> StoreType]
        /\ pack.db \in [DOMAIN pack.db -> StoreType] /\ DOMAIN pack.db \subseteq Stores
    BY DEF Inv, TypeOK, IsPack, CommandShape
  <1>2. PICK store \in Restored(s) : db' = [db EXCEPT ![s] = store]
    OBVIOUS
  <1>3. s \in DOMAIN pack.db
    BY <1>1 DEF Inv, RestoreIsCoherent
  <1>4. /\ store \in {db[s], pack.db[s]} /\ store \in StoreType
        /\ (s \notin wal /\ pack.db[s] # Absent) => store = pack.db[s]
    BY <1>1, <1>2, <1>3 DEF Restored
  <1>5. TypeOK'
    BY <1>1, <1>2, <1>4 DEF Inv, TypeOK
  <1>6. RootThere' /\ ServerShape' /\ CommandShape'
    BY <1>1 DEF RootThere, ServerShape, CommandShape, Down
  <1>7. LockIsTrue'
    <2>1. trusted => /\ Agree(lock, db)
                     /\ lock = pack.lock /\ Agree(pack.lock, pack.db)
      BY <1>1 DEF Inv, LockIsTrue, RestoreIsCoherent, PackMatchesItsLock
    <2>2. trusted => Agree(lock, db')
      BY <1>1, <1>2, <1>3, <1>4, <2>1 DEF Agree, From
    <2> QED BY <1>1, <2>2 DEF LockIsTrue, Agree, From, Down
  <1>8. TablesReady' /\ Rebuilt' /\ CopyIsCoherent'
    BY <1>1 DEF TablesReady, Rebuilt, CopyIsCoherent
  <1>9. PackMatchesItsLock'
    BY DEF Inv, PackMatchesItsLock, Agree, From
  <1>10. RestoreIsCoherent'
    BY <1>1, <1>2, <1>4 DEF Inv, RestoreIsCoherent
  <1> QED BY <1>5, <1>6, <1>7, <1>8, <1>9, <1>10 DEF Inv

\* If every store came from the backup, the backup's manifest is true of all.
LEMMA ReplacedIsTrue ==
  ASSUME Inv, Restoring("next"), command.todo = {},
         pack.trusted, pack.lock \in Configs, Replaced
  PROVE  Agree(lock, db)
  <1>1. /\ lock = pack.lock /\ Agree(pack.lock, pack.db)
        /\ \A s \in DOMAIN pack.db \ wal : pack.db[s] # Absent => db[s] = pack.db[s]
    BY DEF Inv, RestoreIsCoherent, PackMatchesItsLock, Restoring
  <1> QED BY <1>1 DEF Replaced, Agree, Inv, TypeOK

LEMMA EndRestoreKeeps ==
  ASSUME Inv, EndRestore
  PROVE  Inv'
  <1> USE DEF EndRestore, RestoreKeeps, ServerKept, Idle
  <1>1. server = Down /\ exists
    BY DEF Restoring, Inv, CommandShape
  <1>2. TypeOK'
    <2>1. trusted' \in BOOLEAN
      BY DEF Inv, TypeOK, IsPack
    <2> QED BY <2>1 DEF Inv, TypeOK, Vectors
  <1>3. RootThere' /\ ServerShape' /\ CommandShape'
    BY <1>1 DEF RootThere, ServerShape, CommandShape, Down
  <1>4. LockIsTrue'
    <2>1. trusted' => Agree(lock, db)
      BY ReplacedIsTrue DEF Inv, LockIsTrue
    <2> QED BY <1>1, <2>1 DEF LockIsTrue, Agree, From, Down
  <1>5. TablesReady' /\ Rebuilt' /\ CopyIsCoherent' /\ RestoreIsCoherent'
    BY DEF TablesReady, Rebuilt, CopyIsCoherent, RestoreIsCoherent
  <1>6. PackMatchesItsLock'
    BY DEF Inv, PackMatchesItsLock, Agree, From
  <1> QED BY <1>2, <1>3, <1>4, <1>5, <1>6 DEF Inv

LEMMA RestoreStepKeeps ==
  ASSUME Inv, RestoreStep
  PROVE  Inv'
  <1>1. ASSUME NEW s \in Stores, RestoreStore(s) PROVE Inv'
    BY <1>1, RestoreStoreKeeps
  <1> QED BY <1>1, BeginRestoreFreshKeeps, BeginRestoreOverKeeps,
             RestoreLockKeeps, EndRestoreKeeps DEF RestoreStep
-----------------------------------------------------------------------------
(***************************************************************************)
(* Deaths of commands, and the theorems.                                   *)
(***************************************************************************)

LEMMA CommandDiesKeeps ==
  ASSUME Inv, CommandDies
  PROVE  Inv'
  <1> USE DEF CommandDies, ServerKept, Idle
  <1>1. TypeOK'
    BY NoPackType, RootAssumption DEF Inv, TypeOK, Vectors
  <1>2. RootThere' /\ ServerShape' /\ CommandShape' /\ LockIsTrue'
    BY DEF Inv, RootThere, ServerShape, CommandShape, LockIsTrue, Agree, From, Down
  <1>3. TablesReady' /\ Rebuilt' /\ CopyIsCoherent' /\ RestoreIsCoherent'
    BY DEF TablesReady, Rebuilt, CopyIsCoherent, RestoreIsCoherent
  <1>4. PackMatchesItsLock'
    BY DEF Inv, PackMatchesItsLock, Agree, From
  <1> QED BY <1>1, <1>2, <1>3, <1>4 DEF Inv

LEMMA InitInv ==
  ASSUME Init
  PROVE  Inv
  <1> USE DEF Init
  <1>1. TypeOK
    BY NoPackType, AbsentIsAStore, RootAssumption
       DEF TypeOK, Locks, Down, Idle, Vectors
  <1>2. RootThere /\ ServerShape /\ CommandShape
    BY DEF RootThere, ServerShape, CommandShape, Down, Idle
  <1>3. LockIsTrue
    BY DEF LockIsTrue, Agree, Down, Idle
  <1>4. /\ TablesReady /\ Rebuilt /\ CopyIsCoherent /\ RestoreIsCoherent
        /\ PackMatchesItsLock
    BY DEF TablesReady, Rebuilt, CopyIsCoherent, RestoreIsCoherent,
           PackMatchesItsLock, NoPack, Idle
  <1> QED BY <1>1, <1>2, <1>3, <1>4 DEF Inv

LEMMA StutterKeeps ==
  ASSUME Inv, UNCHANGED vars
  PROVE  Inv'
  <1> USE DEF vars
  <1>1. TypeOK' /\ RootThere' /\ ServerShape' /\ CommandShape'
    BY DEF Inv, TypeOK, RootThere, ServerShape, CommandShape
  <1>2. LockIsTrue' /\ TablesReady' /\ Rebuilt'
    BY DEF Inv, LockIsTrue, TablesReady, Rebuilt, Agree, From, Bare
  <1>3. CopyIsCoherent' /\ PackMatchesItsLock' /\ RestoreIsCoherent'
    BY DEF Inv, CopyIsCoherent, PackMatchesItsLock, RestoreIsCoherent, Agree, From
  <1> QED BY <1>1, <1>2, <1>3 DEF Inv

LEMMA NextKeeps == Inv /\ [Next]_vars => Inv'
  BY ServerKeeps, ReembedStepKeeps, BackupStepKeeps, RestoreStepKeeps,
     CommandDiesKeeps, StutterKeeps DEF Next

LEMMA InvHolds == Spec => []Inv
  BY InitInv, NextKeeps, PTL DEF Spec

\* Every reachable state is well typed; in particular each vector has the
\* dimension of its table (falda.ts, reembedAll).
THEOREM RootTypeCorrect == Spec => []TypeOK
  <1>1. Inv => TypeOK
    BY DEF Inv
  <1> QED BY <1>1, InvHolds, PTL

\* A server that answers serves vectors of its own embedder only, as long as
\* the history is one the manifest can tell (boot.ts, enforceEmbeddingLock): no
\* embedder that looks alike to it, no root that was missing at a start, no
\* partial reembed and no backup of another embedder since the last complete
\* reembed or restore.
THEOREM ServedVectorsAgree == Spec => []ServedVectorsMatch
  <1>1. Inv => ServedVectorsMatch
    BY DEF Inv, LockIsTrue, ServedVectorsMatch
  <1> QED BY <1>1, InvHolds, PTL

\* A backup, though it was taken beside a live server, agrees with the
\* manifest it carries (backup.ts, runBackup).
THEOREM PacksAgree == Spec => []PackMatchesItsLock
  <1>1. Inv => PackMatchesItsLock
    BY DEF Inv
  <1> QED BY <1>1, InvHolds, PTL

\* An unscoped reembed that ends has unified the root, whatever broke off
\* before (reembed.ts, main; falda.ts, reembedAll).
THEOREM ReembedIsComplete == Spec => ReembedUnifies
  <1> DEFINE Unified ==
        (Reembedding("manifest") /\ command.all /\ lock' \in Configs) =>
          \A s \in Stores : db'[s] # Absent =>
            /\ From(db'[s], lock')
            /\ NoConfig \notin Range(db'[s].rows)
  <1>1. Inv /\ [Next]_vars => [Unified]_vars
    <2> SUFFICES ASSUME Inv, Next, Reembedding("manifest"), command.all,
                        lock' \in Configs,
                        NEW s \in Stores, db'[s] # Absent
                 PROVE  From(db'[s], lock') /\ NoConfig \notin Range(db'[s].rows)
      OBVIOUS
    <2>1. /\ command.kind = "reembed" /\ command.step = "manifest"
          /\ server = Down /\ command # Idle /\ lock = Torn
      BY DEF Reembedding, Inv, CommandShape, Idle
    <2>2. CASE ServerStep
      BY <2>1, <2>2, RootAssumption
         DEF ServerStep, Boot, BootFirst, BootWithoutRoot, Starting, LockWritten,
             Write, Stop, Crash, Down
    <2>3. CASE ReembedStep
      <3>1. lock' = command.conf /\ db' = db
        BY <2>1, <2>3, RootAssumption
           DEF ReembedStep, BeginReembed, Offline, DropTables, CreateTables,
               EmbedRow, CloseStore, TruncateManifest, WriteManifest,
               Reembedding, ReembedKeeps, ServerKept
      <3>2. From(db[s], command.conf) /\ Bare(s) = {}
        BY <3>1, AllRebuilt
      <3> QED BY <3>1, <3>2 DEF Bare, Range
    <2>4. CASE BackupStep
      BY <2>1, <2>4 DEF BackupStep, BeginBackup, Snapshot, CopyLock, EndBackup,
                        Copying
    <2>5. CASE RestoreStep
      BY <2>1, <2>5 DEF RestoreStep, BeginRestoreFresh, BeginRestoreOver, Offline,
                        RestoreLock, RestoreStore, EndRestore, Restoring
    <2>6. CASE CommandDies
      BY <2>1, <2>6, RootAssumption DEF CommandDies
    <2> QED BY <2>2, <2>3, <2>4, <2>5, <2>6 DEF Next
  <1> QED BY <1>1, InvHolds, PTL DEF Spec, ReembedUnifies
=============================================================================
