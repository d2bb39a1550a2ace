----------------------------- MODULE FaldaStore ------------------------------
(***************************************************************************)
(* One store of src/falda.ts as the distiller sees it: the stream of turns *)
(* (T0), the atoms with their lifecycle and their evidence (T1), the dirty *)
(* mark, and what foreground requests do to them.                          *)
(*                                                                         *)
(*  - An atom is named by its id.  The distiller derives the id from the   *)
(*    content, so a candidate proposed twice is the same atom; an atom     *)
(*    recorded by a caller has an id of its own.                           *)
(*  - Metadata, index rows and embeddings are left out: the lifecycle does *)
(*    not depend on them.                                                  *)
(***************************************************************************)
EXTENDS Integers, FiniteSets, Sequences

CONSTANTS
  Candidates,   \* ids of the atoms the distiller may extract
  Direct,       \* ids of the atoms that callers may record
  Sessions,
  Writes,       \* kinds of foreground write considered
  MaxTurns,     \* bound: turns ever appended
  MaxWrites     \* bound: foreground writes

Atoms == Candidates \cup Direct

WriteKind ==
  {"remember", "supersede", "merge", "archive", "hard delete", "delete turns"}

ASSUME StoreAssumption ==
  /\ IsFiniteSet(Candidates) /\ IsFiniteSet(Direct)
  /\ Candidates \cap Direct = {}
  /\ Writes \subseteq WriteKind
  /\ MaxTurns \in Nat
  /\ MaxWrites \in Nat

VARIABLES
  stream,       \* the turns there are
  appended,     \* turns ever appended: a turn's id is its place among them
  status,       \* the status column of atoms; "absent" if there is no row
  evidence,     \* atom_evidence
  dirty,        \* store_dirty has a row
  writes        \* foreground writes so far

storeVars == <<stream, appended, status, evidence, dirty, writes>>

Turn == [id : Nat, seq : Nat, session : Sessions]

AtomStatus == {"absent", "active", "superseded", "merged", "archived"}

Active == {a \in Atoms : status[a] = "active"}

\* streamHeadSeq, and the MAX(seq) of addStream's INSERT: 0 if there is no turn.
HeadSeq(turns) ==
  CHOOSE n \in {0} \cup {t.seq : t \in turns} : \A t \in turns : t.seq <= n

NextSeq == HeadSeq(stream) + 1

\* addStream, one item.  A turn recorded already changes nothing.
AddStream(s) ==
  /\ appended < MaxTurns
  /\ appended' = appended + 1
  /\ stream' = stream \cup
                 {[id |-> appended + 1, seq |-> NextSeq, session |-> s]}
  /\ UNCHANGED <<status, evidence, dirty, writes>>

-----------------------------------------------------------------------------
\* Foreground writes to atoms and turns.

Write(k) ==
  /\ k \in Writes
  /\ writes < MaxWrites
  /\ writes' = writes + 1

\* The UPDATE of a status column: ids without a row are passed over.
StatusSet(ids, to) ==
  [a \in Atoms |-> IF a \in ids /\ status[a] # "absent" THEN to ELSE status[a]]

\* upsertAtom by a caller; on an existing id only metadata changes.
UpsertAtom(a) ==
  /\ Write("remember")
  /\ status[a] = "absent"
  /\ status' = [status EXCEPT ![a] = "active"]
  /\ UNCHANGED <<stream, appended, evidence, dirty>>

\* supersedeAtom: neither atom is looked at first.
SupersedeAtom(old) ==
  /\ Write("supersede")
  /\ status' = StatusSet({old}, "superseded")
  /\ dirty' = TRUE
  /\ UNCHANGED <<stream, appended, evidence>>

MergeAtoms(losers) ==
  /\ Write("merge")
  /\ losers # {}
  /\ status' = StatusSet(losers, "merged")
  /\ dirty' = TRUE
  /\ UNCHANGED <<stream, appended, evidence>>

\* Mutant: forgetting an atom does not mark the store.
ArchiveAtomUnmarked(a) ==
  /\ Write("archive")
  /\ status[a] = "active"
  /\ status' = [status EXCEPT ![a] = "archived"]
  /\ UNCHANGED <<stream, appended, evidence, dirty>>

\* archiveAtom: only an active atom is archived.
ArchiveAtom(a) ==
  /\ Write("archive")
  /\ status[a] = "active"
  /\ status' = [status EXCEPT ![a] = "archived"]
  /\ dirty' = TRUE
  /\ UNCHANGED <<stream, appended, evidence>>

\* hardDeleteAtomsUnsafe, one atom.
HardDeleteAtom(a) ==
  /\ Write("hard delete")
  /\ status[a] # "absent"
  /\ status' = [status EXCEPT ![a] = "absent"]
  /\ evidence' = {e \in evidence : e[1] # a}
  /\ dirty' = TRUE
  /\ UNCHANGED <<stream, appended>>

\* deleteStream: the turns and their evidence edges; the store is marked if
\* there were any.
DeleteStream(turns) ==
  /\ Write("delete turns")
  /\ turns # {}
  /\ stream' = stream \ turns
  /\ evidence' = {e \in evidence : \A t \in turns : e[2] # t.id}
  /\ dirty' = (dirty \/ evidence' # evidence)
  /\ UNCHANGED <<appended, status>>

StoreWrite ==
  \/ \E a \in Direct : UpsertAtom(a)
  \/ \E a \in Atoms : SupersedeAtom(a) \/ ArchiveAtom(a) \/ HardDeleteAtom(a)
  \/ \E losers \in SUBSET Atoms : MergeAtoms(losers)
  \/ \E t \in stream : DeleteStream({t})
  \/ \E s \in Sessions : DeleteStream({t \in stream : t.session = s})

StoreInit ==
  /\ stream = {}
  /\ appended = 0
  /\ status = [a \in Atoms |-> "absent"]
  /\ evidence = {}
  /\ dirty = FALSE
  /\ writes = 0

StoreTypeOK ==
  /\ stream \subseteq Turn
  /\ appended \in Nat
  /\ status \in [Atoms -> AtomStatus]
  /\ evidence \subseteq Atoms \X Nat
  /\ dirty \in BOOLEAN
  /\ writes \in Nat

-----------------------------------------------------------------------------
\* Reading the store.

\* The ids of a session's turns.
TurnsOf(s) == {t.id : t \in {u \in stream : u.session = s}}

\* atomsFromSession, the active ones.
ActiveAtomsOf(s) == {a \in Active : \E i \in TurnsOf(s) : <<a, i>> \in evidence}

\* Sessions that some evidence traces to.
EvidencedSessions ==
  {s \in Sessions : \E a \in Atoms, i \in TurnsOf(s) : <<a, i>> \in evidence}
=============================================================================
