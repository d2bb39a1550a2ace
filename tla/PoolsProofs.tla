----------------------------- MODULE PoolsProofs -----------------------------
(***************************************************************************)
(* What TLAPS proves of Pools, for any tenants, names and bounds.          *)
(*                                                                         *)
(* The inductive invariant adds to the properties what holds while a pass  *)
(* runs: its window is there, its key may write or once could, and a store *)
(* whose layers lag behind is marked, is lost or is the one the pass is    *)
(* busy with.  A mark that the pass is about to clear does not count.      *)
(***************************************************************************)
EXTENDS Pools, TLAPS

Selfs == {a \in Addresses : a[2] = Self}

\* Phases in which the pass has still to write the scenes, or any layer.
Deriving == {"scenes", "core after a failure"}
Finishing == Deriving \cup {"core"}
Writing == Finishing \cup {"extract"}

PassOK ==
  /\ pass # NoPass => pass.upto <= Len(PassStore.turns)
  /\ pass.phase \in Writing => pass \in [key : writers, upto : Nat, phase : Writing]

WritersOK ==
  /\ \A n \in Names, t \in Tenants :
       reg[n] # None /\ reg[n][t] = "readwrite" => <<t, n>> \in writers
  /\ \A t \in Tenants : <<t, Self>> \in writers
  /\ calls \subseteq writers

\* Every trace in a store is its key's or that of an address of the store.
Granted(a) ==
  \A u \in Traces(StoreOf(a)) : <<u, a[2]>> \in writers /\ (a[2] = Self => u = a[1])
TracesOK == \A a \in Addresses : Granted(a)

\* Keys whose mark in the store at p outlives the running pass.
Lasting(p) ==
  {t \in store[p].marks : ~(pass.phase = "core" /\ p = PassPath /\ t = PassKey)}

LagOK ==
  \A p \in Paths :
    ~Derived(store[p]) =>
      \/ p \in lost
      \/ Lasting(p) # {}
      \/ pass.phase \in Deriving /\ p = PassPath

\* Only its owner marks a private store.
MarksOK == \A a \in Selfs : StoreOf(a).marks \subseteq {a[1]}

Current(s) == Derived(s) /\ s.core = s.scenes

SelfOK ==
  \A a \in Selfs :
    \/ Current(StoreOf(a))
    \/ Outdated(a)
    \/ pass.phase \in Finishing /\ pass.key = a
    \/ PathOf(a) \in lost

HashOK ==
  \A a \in Selfs :
    StoreOf(a).hash[a[1]] = None \/ StoreOf(a).core = StoreOf(a).hash[a[1]]

IInv ==
  TypeOK /\ PassOK /\ WritersOK /\ TracesOK /\ LagOK /\ MarksOK /\ SelfOK /\ HashOK
-----------------------------------------------------------------------------
(***************************************************************************)
(* Addresses, paths and stores.                                            *)
(***************************************************************************)

\* A path tells the pool and, for a private store, the tenant (selfStorePath,
\* poolStorePath).
LEMMA PathsApart ==
  ASSUME NEW a \in Addresses, NEW b \in Addresses
  PROVE  /\ PathOf(a) \in Paths
         /\ a[1] \in Tenants /\ a[2] \in Names \cup {Self}
         /\ PathOf(a) = PathOf(b) => a[2] = b[2] /\ (a[2] = Self => a = b)
<1>1. PathOf(a) \in Paths
  BY DEF Paths
<1>2. PICK t \in Tenants, n \in Names \cup {Self} : a = <<t, n>>
  BY DEF Addresses
<1>3. PICK u \in Tenants, m \in Names \cup {Self} : b = <<u, m>>
  BY DEF Addresses
<1>4. ASSUME PathOf(a) = PathOf(b)
      PROVE  a[2] = b[2] /\ (a[2] = Self => a = b)
  <2>1. CASE n = Self /\ m = Self
    BY <1>2, <1>3, <1>4, <2>1 DEF PathOf
  <2>2. CASE n = Self /\ m # Self
    <3>1. <<t, n>> = <<Shared, m>>
      BY <1>2, <1>3, <1>4, <2>2 DEF PathOf
    <3>2. QED
      BY <3>1, PoolsAssumption
  <2>3. CASE n # Self /\ m = Self
    <3>1. <<Shared, n>> = <<u, m>>
      BY <1>2, <1>3, <1>4, <2>3 DEF PathOf
    <3>2. QED
      BY <3>1, PoolsAssumption
  <2>4. CASE n # Self /\ m # Self
    <3>1. <<Shared, n>> = <<Shared, m>>
      BY <1>2, <1>3, <1>4, <2>4 DEF PathOf
    <3>2. n = m
      BY <3>1
    <3>3. QED
      BY <1>2, <1>3, <2>4, <3>2
  <2>5. QED
    BY <2>1, <2>2, <2>3, <2>4
<1>5. QED
  BY <1>1, <1>2, <1>4

\* A change of one store keeps the types and leaves the other stores alone.
LEMMA StoreStep ==
  ASSUME TypeOK, NEW a \in Addresses, NEW s \in StoreType, StoreOK(s), Stored(a, s)
  PROVE  /\ store' \in [Paths -> StoreType]
         /\ \A p \in Paths : StoreOK(store'[p])
         /\ StoreOf(a)' = s
         /\ \A p \in Paths : p # PathOf(a) => store'[p] = store[p]
         /\ \A b \in Addresses : PathOf(b) # PathOf(a) => StoreOf(b)' = StoreOf(b)
         /\ \A b \in Addresses : PathOf(b) = PathOf(a) => StoreOf(b)' = s
<1>1. PathOf(a) \in Paths /\ \A b \in Addresses : PathOf(b) \in Paths
  BY PathsApart
<1>2. store \in [Paths -> StoreType] /\ \A p \in Paths : StoreOK(store[p])
  BY DEF TypeOK
<1>3. store' = [store EXCEPT ![PathOf(a)] = s]
  BY DEF Stored
<1>4. \A p \in Paths : store'[p] = IF p = PathOf(a) THEN s ELSE store[p]
  BY <1>2, <1>3
<1>5. store' \in [Paths -> StoreType]
  BY <1>2, <1>3
<1>6. \A p \in Paths : StoreOK(store'[p])
  BY <1>2, <1>4
<1>7. QED
  BY <1>1, <1>4, <1>5, <1>6 DEF StoreOf

\* What an address with write access leaves in its store is granted.
LEMMA TracesStep ==
  ASSUME IInv, NEW a \in Addresses, a \in writers, UNCHANGED writers,
         NEW s \in StoreType, StoreOK(s), Stored(a, s),
         Traces(s) \subseteq Traces(StoreOf(a)) \cup {a[1]}
  PROVE  TracesOK'
<1>1. SUFFICES ASSUME NEW b \in Addresses PROVE Granted(b)'
  BY DEF TracesOK
<1>2. Granted(b)
  BY DEF IInv, TracesOK
<1>3. CASE PathOf(b) # PathOf(a)
  BY <1>2, <1>3, StoreStep DEF Granted, IInv
<1>4. CASE PathOf(b) = PathOf(a)
  <2>1. StoreOf(b)' = s /\ StoreOf(b) = StoreOf(a)
    BY <1>4, StoreStep DEF IInv, StoreOf
  <2>2. a[2] = b[2] /\ (b[2] = Self => a = b)
    BY <1>4, PathsApart
  <2>3. <<a[1], b[2]>> = a
    BY <2>2 DEF Addresses
  <2>4. SUFFICES ASSUME NEW u \in Traces(s)
                 PROVE  <<u, b[2]>> \in writers /\ (b[2] = Self => u = b[1])
    BY <2>1 DEF Granted
  <2>5. CASE u = a[1]
    BY <2>2, <2>3, <2>5
  <2>6. CASE u # a[1]
    BY <1>2, <2>1, <2>4, <2>6 DEF Granted
  <2>7. QED
    BY <2>5, <2>6
<1>5. QED
  BY <1>3, <1>4

LEMMA Counters == TypeOK => requests \in Nat /\ changes \in Nat /\ restarts \in Nat
BY DEF TypeOK

\* The types, for a step that leaves stores and passes alone.
LEMMA TypesKept ==
  ASSUME TypeOK, UNCHANGED <<store, pass>>,
         reg' \in [Names -> {None} \cup Rosters], tokens' \in TokenFiles,
         handles' \in [Names -> {None} \cup Tenants],
         calls' \subseteq Addresses, owed' \subseteq Addresses,
         writers' \subseteq Addresses, lost' \subseteq Paths,
         requests' \in Nat, changes' \in Nat, restarts' \in Nat
  PROVE  TypeOK'
<1>1. store' \in [Paths -> StoreType] /\ \A p \in Paths : StoreOK(store'[p])
  BY DEF TypeOK
<1>2. QED
  BY <1>1 DEF TypeOK

\* A step that leaves stores and passes alone keeps what is said of them.
LEMMA QuietStep ==
  ASSUME IInv, TypeOK', WritersOK', UNCHANGED <<store, pass, lost>>,
         writers \subseteq writers'
  PROVE  IInv'
<1>1. PassOK'
  BY DEF IInv, PassOK, PassStore, StoreOf
<1>2. TracesOK'
  BY DEF IInv, TracesOK, Granted, StoreOf
<1>3. LagOK' /\ MarksOK'
  BY DEF IInv, LagOK, Lasting, PassPath, PassKey, MarksOK, StoreOf
<1>4. SelfOK' /\ HashOK'
  BY DEF IInv, SelfOK, HashOK, Outdated, StoreOf
<1>5. QED
  BY <1>1, <1>2, <1>3, <1>4 DEF IInv
-----------------------------------------------------------------------------
(***************************************************************************)
(* Changes of a store: by a request, and by the pass.                      *)
(***************************************************************************)

\* A request may add turns and atoms, and may change which atoms are active if
\* it marks the store, a private one under its own key, with a mark that stays
\* or else the store is lost.
LEMMA RequestStep ==
  ASSUME IInv, NEW a \in Addresses, a \in writers,
         NEW s \in StoreType, StoreOK(s), Stored(a, s),
         Traces(s) \subseteq Traces(StoreOf(a)) \cup {a[1]},
         Len(s.turns) >= Len(StoreOf(a).turns),
         s.scenes = StoreOf(a).scenes, s.text = StoreOf(a).text,
         s.core = StoreOf(a).core,
         s.hash = StoreOf(a).hash, s.seen = StoreOf(a).seen,
         StoreOf(a).marks \subseteq s.marks,
         a[2] = Self => s.marks \subseteq StoreOf(a).marks \cup {a[1]},
         lost \subseteq lost', lost' \subseteq Paths,
         \/ Active(s) = Active(StoreOf(a))
         \/ /\ \E t \in s.marks :
                  ~(pass.phase = "core" /\ PathOf(a) = PassPath /\ t = PassKey)
                    \/ PathOf(a) \in lost'
            /\ a[2] = Self => a[1] \in s.marks,
         UNCHANGED <<reg, tokens, pass, writers, changes, restarts, owed>>,
         calls' \subseteq calls, handles' \in [Names -> {None} \cup Tenants],
         requests' \in Nat
  PROVE  IInv'
<1>1. TypeOK'
  BY StoreStep DEF IInv, TypeOK
<1>2. PassOK'
  <2>1. ASSUME pass # NoPass PROVE pass.key \in Addresses
    BY <2>1 DEF IInv, TypeOK
  <2>2. ASSUME pass # NoPass PROVE pass.upto <= Len(PassStore.turns)'
    <3>1. CASE PathOf(pass.key) = PathOf(a)
      <4>1. PassStore' = s /\ PassStore = StoreOf(a)
        BY <2>1, <2>2, <3>1, StoreStep DEF IInv, PassStore, StoreOf
      <4>2. pass.upto <= Len(StoreOf(a).turns) /\ pass.upto \in Nat
        BY <2>2, <4>1 DEF IInv, PassOK, TypeOK
      <4>3. StoreOf(a) \in StoreType
        BY PathsApart DEF IInv, TypeOK, StoreOf
      <4>4. Len(s.turns) \in Nat /\ Len(StoreOf(a).turns) \in Nat
        BY <4>3 DEF StoreType
      <4>5. QED
        BY <4>1, <4>2, <4>4
    <3>2. CASE PathOf(pass.key) # PathOf(a)
      BY <2>1, <2>2, <3>2, StoreStep DEF IInv, PassOK, PassStore
    <3>3. QED
      BY <3>1, <3>2
  <2>3. QED
    BY <2>2 DEF IInv, PassOK
<1>3. WritersOK'
  BY DEF IInv, WritersOK
<1>4. TracesOK'
  BY TracesStep
<1>5. LagOK'
  <2>1. SUFFICES ASSUME NEW p \in Paths, ~Derived(store'[p]), p \notin lost'
                 PROVE  Lasting(p)' # {} \/ (pass.phase \in Deriving /\ p = PassPath)
    BY DEF LagOK, PassPath
  <2>2. Lasting(p)' = {t \in store'[p].marks :
                         ~(pass.phase = "core" /\ p = PassPath /\ t = PassKey)}
    BY DEF Lasting, PassPath, PassKey
  <2>3. CASE p # PathOf(a)
    BY <2>1, <2>2, <2>3, StoreStep DEF IInv, LagOK, Lasting
  <2>4. CASE p = PathOf(a)
    <3>1. store'[p] = s /\ store[p] = StoreOf(a)
      BY <2>4, StoreStep DEF IInv, StoreOf
    <3>2. CASE Active(s) = Active(StoreOf(a))
      <4>1. Lasting(p) # {} \/ (pass.phase \in Deriving /\ p = PassPath)
        BY <2>1, <3>1, <3>2 DEF IInv, LagOK, Derived
      <4>2. QED
        BY <2>2, <3>1, <4>1 DEF Lasting
    <3>3. CASE Active(s) # Active(StoreOf(a))
      <4>1. PICK t \in s.marks :
              ~(pass.phase = "core" /\ p = PassPath /\ t = PassKey)
        BY <2>1, <2>4, <3>3
      <4>2. QED
        BY <2>2, <3>1, <4>1
    <3>4. QED
      BY <3>2, <3>3
  <2>5. QED
    BY <2>3, <2>4
<1>6. MarksOK'
  <2>1. SUFFICES ASSUME NEW b \in Selfs PROVE StoreOf(b)'.marks \subseteq {b[1]}
    BY DEF MarksOK
  <2>2. b \in Addresses /\ b[2] = Self
    BY DEF Selfs
  <2>3. CASE PathOf(b) # PathOf(a)
    BY <2>2, <2>3, StoreStep DEF IInv, MarksOK
  <2>4. CASE PathOf(b) = PathOf(a)
    BY <2>2, <2>4, PathsApart, StoreStep DEF IInv, MarksOK, Selfs
  <2>5. QED
    BY <2>3, <2>4
<1>7. SelfOK' /\ HashOK'
  <2>1. SUFFICES ASSUME NEW b \in Selfs
                 PROVE  /\ \/ Current(StoreOf(b)')
                           \/ Outdated(b)'
                           \/ pass.phase \in Finishing /\ pass.key = b
                           \/ PathOf(b) \in lost'
                        /\ \/ StoreOf(b)'.hash[b[1]] = None
                           \/ StoreOf(b)'.core = StoreOf(b)'.hash[b[1]]
    BY DEF SelfOK, HashOK
  <2>2. b \in Addresses /\ b[2] = Self
    BY DEF Selfs
  <2>3. CASE PathOf(b) # PathOf(a)
    BY <2>2, <2>3, StoreStep DEF IInv, SelfOK, HashOK, Outdated
  <2>4. CASE PathOf(b) = PathOf(a)
    <3>1. a = b /\ StoreOf(a)' = s
      BY <2>2, <2>4, PathsApart, StoreStep DEF IInv
    <3>2. \/ Current(StoreOf(a))
          \/ Len(StoreOf(a).turns) > StoreOf(a).seen[a[1]]
          \/ a[1] \in StoreOf(a).marks
          \/ pass.phase \in Finishing /\ pass.key = a
          \/ PathOf(a) \in lost
      BY <3>1 DEF IInv, SelfOK, Outdated
    <3>3. StoreOf(a) \in StoreType /\ a[1] \in Tenants
      BY PathsApart DEF IInv, TypeOK, StoreOf
    <3>4. Len(s.turns) \in Nat /\ Len(StoreOf(a).turns) \in Nat /\ s.seen[a[1]] \in Nat
      BY <3>3 DEF StoreType
    <3>5. \/ Current(s)
          \/ Len(s.turns) > s.seen[a[1]]
          \/ a[1] \in s.marks
          \/ pass.phase \in Finishing /\ pass.key = a
          \/ PathOf(a) \in lost'
      <4>1. CASE Current(StoreOf(a))
        BY <2>2, <3>1, <4>1 DEF Current, Derived
      <4>2. QED
        BY <3>2, <3>4, <4>1
    <3>6. QED
      BY <3>1, <3>5 DEF IInv, HashOK, Outdated
  <2>5. QED
    BY <2>3, <2>4
<1>8. QED
  BY <1>1, <1>2, <1>3, <1>4, <1>5, <1>6, <1>7 DEF IInv

\* A pass changes its own store, and says in which phase it is then.
LEMMA WriteStep ==
  ASSUME IInv, pass.phase \in Writing,
         NEW ph \in Writing \cup {"done", "failed"}, Phase(ph),
         NEW s \in StoreType, StoreOK(s), Stored(pass.key, s),
         Traces(s) \subseteq Traces(PassStore) \cup {PassKey},
         s.turns = PassStore.turns,
         pass.key[2] = Self => s.marks \subseteq PassStore.marks \cup {PassKey},
         lost' \subseteq Paths,
         \A p \in Paths : p \in lost /\ p # PassPath => p \in lost',
         ~Derived(s) =>
           \/ PassPath \in lost' \/ ph \in Deriving
           \/ \E t \in s.marks : ~(ph = "core" /\ t = PassKey),
         pass.key[2] = Self =>
           \/ Current(s) \/ ph \in Finishing \/ PassPath \in lost'
           \/ Len(s.turns) > s.seen[PassKey] \/ PassKey \in s.marks,
         pass.key[2] = Self => s.hash[PassKey] = None \/ s.core = s.hash[PassKey],
         PassKeeps, UNCHANGED <<handles, owed>>
  PROVE  IInv'
<1>1. /\ pass \in [key : Addresses, upto : Nat, phase : Writing]
      /\ pass.key \in writers /\ pass # NoPass
  <2>1. pass \in [key : writers, upto : Nat, phase : Writing]
    BY DEF IInv, PassOK
  <2>2. writers \subseteq Addresses
    BY DEF IInv, TypeOK
  <2>3. pass.phase # "none"
    BY DEF Writing, Finishing, Deriving
  <2>4. pass # NoPass
    BY <2>3 DEF NoPass
  <2>5. QED
    BY <2>1, <2>2, <2>4
<1>2. /\ pass' \in [key : Addresses, upto : Nat, phase : Writing \cup {"done", "failed"}]
      /\ pass'.key = pass.key /\ pass'.upto = pass.upto /\ pass'.phase = ph
  BY <1>1 DEF Phase
<1>3. PassStore' = s
  BY <1>1, <1>2, StoreStep DEF IInv, PassStore, StoreOf
<1>4. TypeOK'
  BY <1>1, <1>2, StoreStep DEF IInv, TypeOK, PassKeeps, Writing, Finishing, Deriving
<1>5. PassOK'
  BY <1>1, <1>2, <1>3 DEF IInv, PassOK, PassKeeps, NoPass
<1>6. WritersOK'
  BY DEF IInv, WritersOK, PassKeeps
<1>7. TracesOK'
  BY <1>1, TracesStep DEF PassKeeps, PassStore, PassKey
<1>8. LagOK'
  <2>1. SUFFICES ASSUME NEW p \in Paths, ~Derived(store'[p]), p \notin lost'
                 PROVE  Lasting(p)' # {} \/ (ph \in Deriving /\ p = PassPath)
    BY <1>2 DEF LagOK, PassPath
  <2>2. Lasting(p)' = {t \in store'[p].marks :
                         ~(ph = "core" /\ p = PassPath /\ t = PassKey)}
    BY <1>2 DEF Lasting, PassPath, PassKey
  <2>3. CASE p # PassPath
    <3>1. store'[p] = store[p]
      BY <1>1, <2>3, StoreStep DEF IInv, PassPath
    <3>2. Lasting(p) # {}
      BY <2>1, <2>3, <3>1 DEF IInv, LagOK
    <3>3. QED
      BY <2>2, <2>3, <3>1, <3>2 DEF Lasting
  <2>4. CASE p = PassPath
    <3>1. store'[p] = s
      BY <1>1, <2>4, StoreStep DEF IInv, StoreOf, PassPath
    <3>2. ph \in Deriving \/ \E t \in s.marks : ~(ph = "core" /\ t = PassKey)
      BY <2>1, <2>4, <3>1
    <3>3. QED
      BY <2>2, <2>4, <3>1, <3>2
  <2>5. QED
    BY <2>3, <2>4
<1>9. MarksOK'
  <2>1. SUFFICES ASSUME NEW b \in Selfs PROVE StoreOf(b)'.marks \subseteq {b[1]}
    BY DEF MarksOK
  <2>2. b \in Addresses /\ b[2] = Self
    BY DEF Selfs
  <2>3. CASE PathOf(b) # PathOf(pass.key)
    BY <1>1, <2>2, <2>3, StoreStep DEF IInv, MarksOK
  <2>4. CASE PathOf(b) = PathOf(pass.key)
    <3>1. pass.key = b /\ StoreOf(b)' = s
      BY <1>1, <2>2, <2>4, PathsApart, StoreStep DEF IInv
    <3>2. PassStore.marks \subseteq {PassKey}
      BY <3>1 DEF IInv, MarksOK, PassStore, PassKey
    <3>3. QED
      BY <2>2, <3>1, <3>2 DEF PassKey
  <2>5. QED
    BY <2>3, <2>4
<1>10. SelfOK' /\ HashOK'
  <2>1. SUFFICES ASSUME NEW b \in Selfs
                 PROVE  /\ \/ Current(StoreOf(b)')
                           \/ Outdated(b)'
                           \/ ph \in Finishing /\ pass.key = b
                           \/ PathOf(b) \in lost'
                        /\ \/ StoreOf(b)'.hash[b[1]] = None
                           \/ StoreOf(b)'.core = StoreOf(b)'.hash[b[1]]
    BY <1>2 DEF SelfOK, HashOK
  <2>2. b \in Addresses /\ b[2] = Self
    BY DEF Selfs
  <2>3. CASE PathOf(b) # PathOf(pass.key)
    BY <1>1, <2>2, <2>3, StoreStep, PathsApart
       DEF IInv, SelfOK, HashOK, Outdated, PassPath
  <2>4. CASE PathOf(b) = PathOf(pass.key)
    <3>1. pass.key = b /\ StoreOf(b)' = s
      BY <1>1, <2>2, <2>4, PathsApart, StoreStep DEF IInv
    <3>2. QED
      BY <2>2, <3>1 DEF Outdated, PassKey, PassPath
  <2>5. QED
    BY <2>3, <2>4
<1>11. QED
  BY <1>4, <1>5, <1>6, <1>7, <1>8, <1>9, <1>10 DEF IInv

\* A pass begins or ends: nothing is written, and no layer is in the making.
LEMMA TurnStep ==
  ASSUME IInv, TypeOK', PassOK', UNCHANGED <<reg, store, calls, writers, lost>>,
         pass.phase \notin Finishing, pass'.phase \notin Finishing
  PROVE  IInv'
<1>1. WritersOK' /\ TracesOK'
  BY DEF IInv, WritersOK, TracesOK, Granted, StoreOf
<1>2. LagOK' /\ MarksOK'
  BY DEF IInv, LagOK, Lasting, MarksOK, Finishing, StoreOf
<1>3. SelfOK' /\ HashOK'
  BY DEF IInv, SelfOK, HashOK, Outdated, StoreOf
<1>4. QED
  BY <1>1, <1>2, <1>3 DEF IInv
-----------------------------------------------------------------------------
(***************************************************************************)
(* The actions.                                                            *)
(***************************************************************************)

\* resolve(tenant, pool, true) serves those only that the registry lets write.
LEMMA WritesGranted ==
  ASSUME IInv, NEW a \in Addresses, Writes(a)
  PROVE  a \in writers
<1>1. a = <<a[1], a[2]>> /\ a[1] \in Tenants /\ a[2] \in Names \cup {Self}
  BY DEF Addresses
<1>2. CASE a[2] = Self
  BY <1>1, <1>2 DEF IInv, WritersOK
<1>3. CASE a[2] # Self
  <2>1. reg[a[2]] # None /\ reg[a[2]][a[1]] = "readwrite"
    BY <1>3 DEF Writes, AccessOf
  <2>2. QED
    BY <1>1, <1>3, <2>1 DEF IInv, WritersOK
<1>4. QED
  BY <1>2, <1>3

\* storeAt: the handle has the key of one tenant, for a private store its own.
LEMMA OpenedKey ==
  ASSUME TypeOK, NEW a \in Addresses
  PROVE  /\ Opened(a) \in [Names -> {None} \cup Tenants]
         /\ KeyOf(a) \in Tenants
         /\ a[2] = Self => KeyOf(a) = a[1]
<1>1. a[1] \in Tenants /\ a[2] \in Names \cup {Self}
  BY DEF Addresses
<1>2. handles \in [Names -> {None} \cup Tenants]
  BY DEF TypeOK
<1>3. Opened(a) \in [Names -> {None} \cup Tenants]
  BY <1>1, <1>2 DEF Opened
<1>4. CASE a[2] = Self
  BY <1>1, <1>3, <1>4 DEF KeyOf
<1>5. CASE a[2] # Self
  <2>1. Opened(a)[a[2]] = IF handles[a[2]] = None THEN a[1] ELSE handles[a[2]]
    BY <1>1, <1>5 DEF Opened
  <2>2. QED
    BY <1>1, <1>2, <1>3, <1>5, <2>1 DEF KeyOf
<1>6. QED
  BY <1>4, <1>5

LEMMA StoreTyped ==
  ASSUME TypeOK, NEW a \in Addresses
  PROVE  StoreOf(a) \in StoreType /\ StoreOK(StoreOf(a))
BY PathsApart DEF TypeOK, StoreOf

LEMMA RegisteredStep ==
  ASSUME IInv, NEW n \in Names, NEW roster \in Rosters, Registered(n, roster)
  PROVE  IInv'
<1>1. writers' = writers \cup WritersOf(n, roster) /\ reg' = [reg EXCEPT ![n] = roster]
  BY DEF Registered
<1>2. WritersOf(n, roster) \subseteq Addresses
  BY DEF WritersOf, Addresses
<1>3. TypeOK'
  <2>1. /\ reg' \in [Names -> {None} \cup Rosters]
        /\ writers' \subseteq Addresses
    BY <1>1, <1>2 DEF IInv, TypeOK
  <2>2. changes' \in Nat
    BY Counters DEF IInv, Registered
  <2>3. QED
    BY <2>1, <2>2, TypesKept DEF IInv, TypeOK, Registered
<1>4. WritersOK'
  <2>1. ASSUME NEW m \in Names, NEW t \in Tenants,
               reg'[m] # None, reg'[m][t] = "readwrite"
        PROVE  <<t, m>> \in writers'
    <3>1. CASE m = n
      <4>1. reg'[m] = roster
        BY <1>1, <3>1 DEF IInv, TypeOK
      <4>2. QED
        BY <1>1, <2>1, <3>1, <4>1 DEF WritersOf
    <3>2. CASE m # n
      <4>1. reg'[m] = reg[m]
        BY <1>1, <3>2 DEF IInv, TypeOK
      <4>2. QED
        BY <1>1, <2>1, <4>1 DEF IInv, WritersOK
    <3>3. QED
      BY <3>1, <3>2
  <2>2. QED
    BY <1>1, <2>1 DEF IInv, WritersOK, Registered
<1>5. QED
  BY <1>1, <1>3, <1>4, QuietStep DEF Registered

LEMMA AdministrationStep == IInv /\ Administration => IInv'
<1> SUFFICES ASSUME IInv, Administration PROVE IInv'
  OBVIOUS
<1>1. ASSUME NEW n \in Names, NEW roster \in Drafts,
             DeclarePool(n, roster) \/ UpdatePool(n, roster)
      PROVE  IInv'
  <2>1. roster \in Rosters
    BY PoolsAssumption DEF Rosters
  <2>2. QED
    BY <1>1, <2>1, RegisteredStep DEF DeclarePool, UpdatePool
<1>2. ASSUME NEW n \in Names, NEW t \in Tenants, NEW access \in Access,
             Grant(n, t, access)
      PROVE  IInv'
  <2>1. reg[n] \in Rosters
    BY <1>2 DEF IInv, TypeOK, Grant
  <2>2. [reg[n] EXCEPT ![t] = access] \in Rosters
    BY <2>1 DEF Rosters
  <2>3. QED
    BY <1>2, <2>2, RegisteredStep DEF Grant
<1>3. ASSUME NEW file \in TokenFiles, EditTokens(file) PROVE IInv'
  <2>1. TypeOK'
    <3>1. changes' \in Nat
      BY <1>3, Counters DEF IInv, EditTokens
    <3>2. QED
      BY <1>3, <3>1, TypesKept DEF IInv, TypeOK, EditTokens
  <2>2. WritersOK'
    BY <1>3 DEF IInv, WritersOK, EditTokens
  <2>3. QED
    BY <1>3, <2>1, <2>2, QuietStep DEF EditTokens
<1>4. QED
  BY <1>1, <1>2, <1>3 DEF Administration

\* Requests that write nothing, or nothing yet.
LEMMA PlainRequestStep ==
  ASSUME IInv, NEW a \in Addresses,
         Read(a) \/ Remember(a) \/ Distill(a) \/ DistillTool(a)
  PROVE  IInv'
<1>1. TypeOK'
  <2>1. /\ handles' \in [Names -> {None} \cup Tenants]
        /\ calls' \subseteq Addresses /\ owed' \subseteq Addresses
    BY OpenedKey DEF IInv, TypeOK, Read, Remember, Distill, DistillTool, Admitted,
                     RequestKeeps
  <2>2. requests' \in Nat
    BY Counters DEF IInv, Read, Remember, Distill, DistillTool
  <2>3. QED
    BY <2>1, <2>2, TypesKept DEF IInv, TypeOK, Read, Remember, Distill, DistillTool,
                           RequestKeeps
<1>2. calls' \subseteq calls \cup {a} /\ (calls' # calls => Writes(a))
  BY DEF Read, Remember, Distill, DistillTool, RequestKeeps
<1>3. WritersOK'
  BY <1>2, WritesGranted DEF IInv, WritersOK, Read, Remember, Distill, DistillTool,
                             RequestKeeps
<1>4. QED
  BY <1>1, <1>3, QuietStep DEF Read, Remember, Distill, DistillTool, RequestKeeps

LEMMA AddStreamStep ==
  ASSUME IInv, NEW a \in Addresses, AddStream(a)
  PROVE  IInv'
<1> DEFINE s == [StoreOf(a) EXCEPT !.turns = Append(@, a[1])]
<1>1. StoreOf(a) \in StoreType /\ StoreOK(StoreOf(a)) /\ a[1] \in Tenants
  BY StoreTyped, PathsApart DEF IInv
<1>2. StoreOf(a).turns \in Seq(Tenants)
  BY <1>1 DEF StoreType
<1>3. /\ s.turns \in Seq(Tenants) /\ Len(s.turns) = Len(StoreOf(a).turns) + 1
      /\ DOMAIN s.turns = 1..(Len(StoreOf(a).turns) + 1)
      /\ DOMAIN StoreOf(a).turns = 1..Len(StoreOf(a).turns)
      /\ \A i \in DOMAIN s.turns : s.turns[i] = a[1] \/ s.turns[i] = StoreOf(a).turns[i]
      /\ \A i \in DOMAIN s.turns : s.turns[i] # a[1] => i \in DOMAIN StoreOf(a).turns
  BY <1>1, <1>2 DEF StoreType
<1>4. s \in StoreType
  BY <1>1, <1>3 DEF StoreType
<1>5. StoreOK(s)
  <2>1. s.known = StoreOf(a).known /\ s.seen = StoreOf(a).seen
    BY <1>1 DEF StoreType
  <2>2. s.seen \in [Tenants -> Nat]
    BY <1>1, <2>1 DEF StoreType
  <2>3. Len(StoreOf(a).turns) \in Nat
    BY <1>2
  <2>4. QED
    BY <1>1, <1>3, <2>1, <2>2, <2>3 DEF StoreOK
<1>6. Traces(s) \subseteq Traces(StoreOf(a)) \cup {a[1]}
  BY <1>1, <1>3 DEF Traces, StoreType
<1>7. /\ s.scenes = StoreOf(a).scenes /\ s.text = StoreOf(a).text /\ s.core = StoreOf(a).core
      /\ s.hash = StoreOf(a).hash /\ s.seen = StoreOf(a).seen
      /\ s.marks = StoreOf(a).marks /\ Active(s) = Active(StoreOf(a))
  BY <1>1 DEF StoreType, Active
<1>8. Len(s.turns) >= Len(StoreOf(a).turns)
  BY <1>2, <1>3
<1>9. /\ a \in writers /\ Stored(a, s) /\ calls' \subseteq calls
      /\ handles' \in [Names -> {None} \cup Tenants] /\ requests' \in Nat
      /\ UNCHANGED <<reg, tokens, pass, writers, lost, changes, restarts, owed>>
  <2>1. a \in writers /\ Opened(a) \in [Names -> {None} \cup Tenants]
    BY WritesGranted, OpenedKey DEF IInv, AddStream
  <2>2. requests' \in Nat
    BY Counters DEF IInv, AddStream
  <2>3. QED
    BY <2>1, <2>2 DEF AddStream, Admitted, RequestKeeps
<1> HIDE DEF s
<1>10. lost' \subseteq Paths
  BY <1>9 DEF IInv, TypeOK
<1>11. QED
  BY <1>4, <1>5, <1>6, <1>7, <1>8, <1>9, <1>10, RequestStep

LEMMA RememberedStep ==
  ASSUME IInv, NEW a \in Addresses, Remembered(a)
  PROVE  IInv'
<1> DEFINE s == [StoreOf(a) EXCEPT !.notes = @ \cup {a[1]}]
<1>1. StoreOf(a) \in StoreType /\ StoreOK(StoreOf(a)) /\ a[1] \in Tenants
  BY StoreTyped, PathsApart DEF IInv
<1>2. CASE UNCHANGED store
  <2>1. TypeOK' /\ WritersOK'
    BY <1>2 DEF IInv, TypeOK, WritersOK, Remembered, RequestKeeps
  <2>2. QED
    BY <1>2, <2>1, QuietStep DEF Remembered, RequestKeeps
<1>3. CASE Stored(a, s)
  <2>1. s \in StoreType /\ StoreOK(s)
    BY <1>1 DEF StoreType, StoreOK
  <2>2. Traces(s) \subseteq Traces(StoreOf(a)) \cup {a[1]}
    BY <1>1 DEF Traces, StoreType
  <2>3. /\ s.scenes = StoreOf(a).scenes /\ s.text = StoreOf(a).text /\ s.core = StoreOf(a).core
        /\ s.hash = StoreOf(a).hash /\ s.seen = StoreOf(a).seen
        /\ s.turns = StoreOf(a).turns
        /\ s.marks = StoreOf(a).marks /\ Active(s) = Active(StoreOf(a))
    BY <1>1 DEF StoreType, Active
  <2>4. Len(s.turns) >= Len(StoreOf(a).turns)
    BY <1>1, <2>3 DEF StoreType
  <2>5. /\ a \in writers /\ calls' \subseteq calls
        /\ handles' \in [Names -> {None} \cup Tenants] /\ requests' \in Nat
        /\ UNCHANGED <<reg, tokens, pass, writers, lost, changes, restarts, owed>>
        /\ lost' \subseteq Paths
    BY DEF IInv, TypeOK, WritersOK, Remembered, RequestKeeps
  <2> HIDE DEF s
  <2>6. QED
    BY <1>3, <2>1, <2>2, <2>3, <2>4, <2>5, RequestStep
<1>4. QED
  BY <1>2, <1>3 DEF Remembered

LEMMA ArchiveStep ==
  ASSUME IInv, NEW a \in Addresses, NEW i \in 1..MaxRequests, ArchiveAtom(a, i)
  PROVE  IInv'
<1> DEFINE s == [StoreOf(a) EXCEPT !.archived = @ \cup {i}, !.marks = @ \cup Marked(a)]
<1>1. StoreOf(a) \in StoreType /\ StoreOK(StoreOf(a)) /\ a[1] \in Tenants
  BY StoreTyped, PathsApart DEF IInv
<1>2. /\ Marked(a) \subseteq Tenants /\ KeyOf(a) \in Marked(a)
      /\ a[2] = Self => Marked(a) = {a[1]}
  BY OpenedKey DEF IInv, Marked
<1>3. i \in Nat \ {0}
  BY <1>1 DEF ArchiveAtom, Active, StoreType
<1>4. s \in StoreType /\ StoreOK(s)
  BY <1>1, <1>2, <1>3 DEF StoreType, StoreOK
<1>5. Traces(s) \subseteq Traces(StoreOf(a)) \cup {a[1]}
  BY <1>1 DEF Traces, StoreType
<1>6. /\ s.scenes = StoreOf(a).scenes /\ s.text = StoreOf(a).text /\ s.core = StoreOf(a).core
      /\ s.hash = StoreOf(a).hash /\ s.seen = StoreOf(a).seen
      /\ s.turns = StoreOf(a).turns
      /\ s.marks = StoreOf(a).marks \cup Marked(a)
  BY <1>1 DEF StoreType
<1>7. Len(s.turns) >= Len(StoreOf(a).turns)
  BY <1>1, <1>6 DEF StoreType
<1>8. /\ a \in writers /\ Stored(a, s) /\ calls' \subseteq calls
      /\ handles' \in [Names -> {None} \cup Tenants] /\ requests' \in Nat
      /\ UNCHANGED <<reg, tokens, pass, writers, changes, restarts, owed>>
  <2>1. a \in writers /\ Opened(a) \in [Names -> {None} \cup Tenants]
    BY WritesGranted, OpenedKey DEF IInv, ArchiveAtom
  <2>2. requests' \in Nat
    BY Counters DEF IInv, ArchiveAtom
  <2>3. QED
    BY <2>1, <2>2 DEF ArchiveAtom, Admitted, RequestKeeps
<1>9. /\ StoreOf(a).marks \subseteq s.marks /\ KeyOf(a) \in s.marks
      /\ a[2] = Self => s.marks = StoreOf(a).marks \cup {a[1]}
  BY <1>2, <1>6
<1>10. /\ lost \subseteq lost' /\ lost' \subseteq Paths
       /\ ~(pass.phase = "core" /\ PathOf(a) = PassPath /\ KeyOf(a) = PassKey)
            \/ PathOf(a) \in lost'
  BY PathsApart DEF ArchiveAtom, Overtaken, In, IInv, TypeOK
<1> HIDE DEF s
<1>11. QED
  BY <1>4, <1>5, <1>6, <1>7, <1>8, <1>9, <1>10, RequestStep

LEMMA RequestKept == IInv /\ Request => IInv'
BY PlainRequestStep, AddStreamStep, RememberedStep, ArchiveStep DEF Request

LEMMA SweepStep == IInv /\ Sweep => IInv'
<1> SUFFICES ASSUME IInv, Sweep PROVE IInv'
  OBVIOUS
<1>1. TypeOK' /\ WritersOK'
  BY DEF IInv, TypeOK, WritersOK, Sweep, RequestKeeps
<1>2. QED
  BY <1>1, QuietStep DEF Sweep, RequestKeeps

LEMMA RestartStep == IInv /\ Restart => IInv'
<1> SUFFICES ASSUME IInv, Restart PROVE IInv'
  OBVIOUS
<1>1. TypeOK' /\ WritersOK'
  <2>1. handles' \in [Names -> {None} \cup Tenants] /\ restarts' \in Nat
    BY Counters DEF IInv, Restart
  <2>2. TypeOK'
    BY <2>1, TypesKept DEF IInv, TypeOK, Restart
  <2>3. QED
    BY <2>2 DEF IInv, WritersOK, Restart
<1>2. QED
  BY <1>1, QuietStep DEF Restart
-----------------------------------------------------------------------------
(***************************************************************************)
(* The pass.                                                               *)
(***************************************************************************)

LEMMA PassFacts ==
  ASSUME IInv, pass.phase \in Writing
  PROVE  /\ pass \in [key : Addresses, upto : Nat, phase : Writing]
         /\ PassKey \in Tenants /\ pass.key \in writers
         /\ pass.upto <= Len(PassStore.turns)
         /\ PassStore \in StoreType /\ StoreOK(PassStore)
<1>1. pass \in [key : writers, upto : Nat, phase : Writing] /\ writers \subseteq Addresses
  BY DEF IInv, PassOK, TypeOK
<1>2. pass # NoPass
  <2>1. pass.phase # "none"
    BY DEF Writing, Finishing, Deriving
  <2>2. QED
    BY <2>1 DEF NoPass
<1>3. pass \in [key : Addresses, upto : Nat, phase : Writing] /\ pass.key \in Addresses
  BY <1>1
<1>4. QED
  BY <1>1, <1>2, <1>3, StoreTyped, PathsApart DEF IInv, PassOK, PassStore, PassKey

LEMMA BeginPassStep ==
  ASSUME IInv, NEW a \in Addresses, BeginPass(a)
  PROVE  IInv'
<1>1. Len(StoreOf(a).turns) \in Nat
  BY StoreTyped DEF IInv, StoreType
<1>2. owed' \subseteq Addresses /\ handles' \in [Names -> {None} \cup Tenants]
  BY OpenedKey DEF IInv, TypeOK, BeginPass
<1>3. /\ pass' \in [key : Addresses, upto : Nat, phase : {"extract", "done", "failed"}]
      /\ pass'.key = a /\ pass'.upto <= Len(StoreOf(a).turns)
      /\ pass'.phase = "extract" => a \in writers
  BY <1>1, WritesGranted DEF BeginPass
<1>4. UNCHANGED <<reg, store, calls, writers, tokens, requests, changes, restarts,
                  lost>>
  BY DEF BeginPass, PassKeeps
<1>5. TypeOK'
  <2>1. store' \in [Paths -> StoreType] /\ \A p \in Paths : StoreOK(store'[p])
    BY <1>4 DEF IInv, TypeOK
  <2>2. pass' \in [key : Addresses, upto : Nat,
                   phase : {"extract", "scenes", "core", "core after a failure",
                            "done", "failed"}]
    BY <1>3
  <2>3. QED
    BY <1>2, <1>4, <2>1, <2>2 DEF IInv, TypeOK
<1>6. PassOK'
  <2>1. PassStore' = StoreOf(a)
    BY <1>3, <1>4 DEF PassStore, StoreOf
  <2>2. pass'.phase \in Writing => pass' \in [key : writers, upto : Nat, phase : Writing]
    BY <1>3 DEF Writing, Finishing, Deriving
  <2>3. QED
    BY <1>3, <1>4, <2>1, <2>2 DEF PassOK
<1>7. pass.phase \notin Finishing /\ pass'.phase \notin Finishing
  BY <1>3 DEF BeginPass, Idle, NoPass, Finishing, Deriving
<1>8. QED
  BY <1>4, <1>5, <1>6, <1>7, TurnStep

LEMMA CommitL1Step == IInv /\ CommitL1 => IInv'
<1> SUFFICES ASSUME IInv, CommitL1 PROVE IInv'
  OBVIOUS
<1> DEFINE S == PassStore
           s == [S EXCEPT !.known = @ \cup (S.seen[PassKey] + 1)..pass.upto,
                          !.seen[PassKey] = pass.upto]
<1>1. pass.phase \in Writing /\ "scenes" \in Writing /\ "scenes" \in Deriving
      /\ "scenes" \in Finishing
  BY DEF CommitL1, In, Writing, Finishing, Deriving
<1>2. /\ S \in StoreType /\ StoreOK(S) /\ PassKey \in Tenants /\ pass.key \in Addresses
      /\ pass.upto \in Nat /\ pass.upto <= Len(S.turns)
  BY <1>1, PassFacts
<1>3. /\ s.turns = S.turns /\ s.scenes = S.scenes /\ s.core = S.core
      /\ s.hash = S.hash /\ s.notes = S.notes /\ s.marks = S.marks
      /\ s.known = S.known \cup (S.seen[PassKey] + 1)..pass.upto
      /\ s.seen = [S.seen EXCEPT ![PassKey] = pass.upto]
  BY <1>2 DEF StoreType
<1>4. S.seen \in [Tenants -> Nat] /\ Len(S.turns) \in Nat
      /\ DOMAIN S.turns = 1..Len(S.turns)
  BY <1>2 DEF StoreType
<1>5. /\ (S.seen[PassKey] + 1)..pass.upto \subseteq DOMAIN S.turns
      /\ (S.seen[PassKey] + 1)..pass.upto \subseteq Nat \ {0}
  BY <1>2, <1>4
<1>6. s \in StoreType
  BY <1>2, <1>4, <1>5 DEF StoreType
<1>7. StoreOK(s)
  BY <1>2, <1>3, <1>4, <1>5 DEF StoreOK
<1>8. Traces(s) \subseteq Traces(S) \cup {PassKey}
  BY <1>2, <1>3, <1>4 DEF Traces
<1>9. pass.key[2] = Self => s.hash[PassKey] = None \/ s.core = s.hash[PassKey]
  BY <1>2, <1>3 DEF IInv, HashOK, Selfs, PassStore, PassKey
<1>10. /\ Stored(pass.key, s) /\ Phase("scenes") /\ PassKeeps
       /\ UNCHANGED <<handles, owed, lost>> /\ lost' \subseteq Paths
  BY DEF CommitL1, Consumed, IInv, TypeOK
<1> HIDE DEF s
<1>11. QED
  BY <1>1, <1>3, <1>6, <1>7, <1>8, <1>9, <1>10, WriteStep

LEMMA UpdateScenesStep == IInv /\ UpdateScenes => IInv'
<1> SUFFICES ASSUME IInv, UpdateScenes PROVE IInv'
  OBVIOUS
<1> DEFINE S == PassStore
           s == [S EXCEPT !.scenes = Active(S), !.text = Active(S)]
           r == [S EXCEPT !.scenes = Active(S)]
<1>1. /\ pass.phase \in Writing
      /\ {"core", "core after a failure"} \subseteq Writing
      /\ {"core", "core after a failure"} \subseteq Finishing
      /\ "core after a failure" \in Deriving
  BY DEF UpdateScenes, In, Writing, Finishing, Deriving
<1>2. S \in StoreType /\ StoreOK(S) /\ pass.key \in Addresses
  BY <1>1, PassFacts
<1>3. pass.key[2] = Self => S.hash[PassKey] = None \/ S.core = S.hash[PassKey]
  BY <1>2 DEF IInv, HashOK, Selfs, PassStore, PassKey
<1>4. /\ PassKeeps /\ UNCHANGED <<handles, owed>>
      /\ lost' \subseteq Paths
      /\ \A p \in Paths : p \in lost /\ p # PassPath => p \in lost'
  BY DEF UpdateScenes, IInv, TypeOK
<1>5. CASE Stored(pass.key, s) /\ Phase("core")
  <2>1. /\ s.turns = S.turns /\ s.core = S.core /\ s.hash = S.hash
        /\ s.notes = S.notes /\ s.seen = S.seen /\ s.marks = S.marks
        /\ Derived(s)
    BY <1>2 DEF StoreType, Active, Derived
  <2>2. s \in StoreType /\ StoreOK(s)
    BY <1>2 DEF StoreType, StoreOK, Active
  <2>3. Traces(s) \subseteq Traces(S) \cup {PassKey}
    BY <2>1 DEF Traces
  <2> HIDE DEF s
  <2>4. QED
    BY <1>1, <1>3, <1>4, <1>5, <2>1, <2>2, <2>3, WriteStep
<1>6. CASE Stored(pass.key, r) /\ Phase("core after a failure")
  <2>1. /\ r.turns = S.turns /\ r.core = S.core /\ r.hash = S.hash
        /\ r.notes = S.notes /\ r.seen = S.seen /\ r.marks = S.marks
    BY <1>2 DEF StoreType
  <2>2. r \in StoreType /\ StoreOK(r)
    BY <1>2 DEF StoreType, StoreOK, Active
  <2>3. Traces(r) \subseteq Traces(S) \cup {PassKey}
    BY <2>1 DEF Traces
  <2>4. /\ "core after a failure" # "core"
        /\ "core after a failure" \in Writing /\ "core after a failure" \in Finishing
        /\ pass.key[2] = Self => r.hash[PassKey] = None \/ r.core = r.hash[PassKey]
    BY <1>1, <1>3, <2>1
  <2> HIDE DEF r
  <2>5. QED
    BY <1>1, <1>4, <1>6, <2>1, <2>2, <2>3, <2>4, WriteStep
<1>7. QED
  BY <1>5, <1>6 DEF UpdateScenes

\* The core is that of the scenes, for a private store; the rest is untouched.
LEMMA CoreFacts ==
  ASSUME IInv, pass.phase \in Writing
  PROVE  LET S == PassStore
             s == CoreWritten(S)
         IN  /\ s \in StoreType /\ StoreOK(s)
             /\ s.turns = S.turns /\ s.scenes = S.scenes /\ s.text = S.text /\ s.seen = S.seen
             /\ s.marks = S.marks /\ Active(s) = Active(S)
             /\ Traces(s) \subseteq Traces(S) \cup {PassKey}
             /\ s.hash[PassKey] = None \/ s.hash[PassKey] = s.scenes
             /\ pass.key[2] = Self => s.core = s.scenes
<1> DEFINE S == PassStore
           s == CoreWritten(S)
<1>1. S \in StoreType /\ StoreOK(S) /\ PassKey \in Tenants /\ pass.key \in Addresses
  BY PassFacts
<1>2. /\ s.turns = S.turns /\ s.scenes = S.scenes /\ s.text = S.text /\ s.seen = S.seen
      /\ s.marks = S.marks /\ s.notes = S.notes /\ s.known = S.known
      /\ s.archived = S.archived
      /\ s.core = (IF HashMatches(S) THEN S.core ELSE S.scenes)
      /\ s.hash = [S.hash EXCEPT ![PassKey] = IF S.scenes = {} THEN None ELSE S.scenes]
  BY <1>1 DEF StoreType, CoreWritten
<1>3. S.hash \in [Tenants -> {None} \cup SUBSET (Nat \ {0})] /\ S.scenes \in SUBSET (Nat \ {0})
  BY <1>1 DEF StoreType
<1>4. s.hash \in [Tenants -> {None} \cup SUBSET (Nat \ {0})]
  BY <1>2, <1>3
<1>5. s \in StoreType
  BY <1>1, <1>2, <1>4 DEF StoreType, CoreWritten
<1>6. StoreOK(s) /\ Active(s) = Active(S)
  BY <1>1, <1>2 DEF StoreOK, Active
<1>7. s.hash[PassKey] = None \/ s.hash[PassKey] = s.scenes
  BY <1>1, <1>2, <1>3
<1>8. \A t \in Tenants : t # PassKey => s.hash[t] = S.hash[t]
  BY <1>2, <1>3
<1>9. Traces(s) \subseteq Traces(S) \cup {PassKey}
  BY <1>2, <1>8 DEF Traces
<1>10. ASSUME pass.key[2] = Self PROVE s.core = s.scenes
  <2>1. S.hash[PassKey] = None \/ S.core = S.hash[PassKey]
    BY <1>1, <1>10 DEF IInv, HashOK, Selfs, PassStore, PassKey
  <2>2. QED
    BY <1>2, <2>1 DEF HashMatches
<1>11. QED
  BY <1>2, <1>5, <1>6, <1>7, <1>9, <1>10

\* A store that differs in its marks only.
LEMMA MarksOnly ==
  ASSUME NEW s \in StoreType, StoreOK(s), PassKey \in Tenants,
         NEW r \in {Cleared(s), Dirty(s)}
  PROVE  /\ r \in StoreType /\ StoreOK(r) /\ Traces(r) = Traces(s)
         /\ r.turns = s.turns /\ r.scenes = s.scenes /\ r.text = s.text /\ r.core = s.core
         /\ r.hash = s.hash /\ r.seen = s.seen /\ Active(r) = Active(s)
         /\ r = Dirty(s) => PassKey \in r.marks
         /\ r = Cleared(s) => r.marks = s.marks \ {PassKey}
         /\ r.marks \subseteq s.marks \cup {PassKey}
<1>1. /\ Cleared(s) \in StoreType /\ Dirty(s) \in StoreType
      /\ Dirty(s).marks = s.marks \cup {PassKey}
      /\ Cleared(s).marks = s.marks \ {PassKey}
  BY DEF StoreType, Cleared, Dirty
<1>2. /\ r.turns = s.turns /\ r.scenes = s.scenes /\ r.text = s.text /\ r.core = s.core
      /\ r.hash = s.hash /\ r.seen = s.seen /\ r.notes = s.notes
      /\ r.known = s.known /\ r.archived = s.archived
  BY DEF StoreType, Cleared, Dirty
<1>3. QED
  BY <1>1, <1>2 DEF StoreOK, Traces, Active

\* The members of the scenes, or their text, are written in part.
LEMMA BreaksOffStep == IInv /\ PassBreaksOff => IInv'
<1> SUFFICES ASSUME IInv, PassBreaksOff PROVE IInv'
  OBVIOUS
<1> DEFINE S == PassStore
<1>1. pass.phase \in Writing /\ "failed" # "core"
  BY DEF PassBreaksOff, In, Writing, Finishing, Deriving
<1>2. /\ S \in StoreType /\ StoreOK(S) /\ pass.key \in Addresses
      /\ PassPath \in Paths
  BY <1>1, PassFacts, PathsApart DEF PassPath
<1>3. /\ pass.key[2] = Self => S.hash[PassKey] = None \/ S.core = S.hash[PassKey]
      /\ pass.key[2] = Self => S.marks \subseteq {PassKey}
  BY <1>2 DEF IInv, HashOK, MarksOK, Selfs, PassStore, PassKey
<1>4. PICK s \in StoreType :
        /\ Stored(pass.key, s)
        /\ s.turns = S.turns /\ s.notes = S.notes /\ s.known = S.known
        /\ s.core = S.core /\ s.hash = S.hash /\ s.seen = S.seen
        /\ s.marks = S.marks
  <2>1. CASE In("scenes")
    <3>1. PICK scenes \in SUBSET (S.scenes \cup Active(S)),
               text \in SUBSET (S.text \cup Active(S)) :
            Stored(pass.key, [S EXCEPT !.scenes = scenes, !.text = text])
      <4>1. ASSUME NEW x \in Between(S.scenes, Active(S)),
                   Stored(pass.key, [S EXCEPT !.scenes = x])
            PROVE  Stored(pass.key, [S EXCEPT !.scenes = x, !.text = S.text])
        <5>1. [S EXCEPT !.scenes = x] = [S EXCEPT !.scenes = x, !.text = S.text]
          BY <1>2 DEF StoreType
        <5>2. QED
          BY <4>1, <5>1
      <4>2. \A x, y : Between(x, y) \subseteq SUBSET (x \cup y)
        BY DEF Between
      <4>3. QED
        BY <2>1, <4>1, <4>2 DEF PassBreaksOff, In
    <3> DEFINE r == [S EXCEPT !.scenes = scenes, !.text = text]
    <3>2. /\ r.turns = S.turns /\ r.notes = S.notes /\ r.known = S.known
          /\ r.core = S.core /\ r.hash = S.hash /\ r.seen = S.seen
          /\ r.marks = S.marks
      BY <1>2 DEF StoreType
    <3>3. r \in StoreType
      BY <1>2 DEF StoreType, Active
    <3>4. QED
      BY <3>1, <3>2, <3>3
  <2>2. CASE UNCHANGED store
    <3>1. Stored(pass.key, S)
      BY <1>2, <2>2 DEF Stored, PassStore, StoreOf, PassPath, IInv, TypeOK
    <3>2. QED
      BY <1>2, <3>1
  <2>3. QED
    BY <2>1, <2>2 DEF PassBreaksOff
<1>5. /\ StoreOK(s)
      /\ Traces(s) \subseteq Traces(S) \cup {PassKey}
      /\ pass.key[2] = Self => s.hash[PassKey] = None \/ s.core = s.hash[PassKey]
      /\ pass.key[2] = Self => s.marks \subseteq S.marks \cup {PassKey}
  BY <1>2, <1>3, <1>4 DEF StoreOK, Traces
<1>6. /\ Phase("failed") /\ PassKeeps /\ UNCHANGED <<handles, owed>>
      /\ lost' \subseteq Paths
      /\ \A p \in Paths : p \in lost /\ p # PassPath => p \in lost'
      /\ PassPath \in lost' \/ S.marks # {}
  BY <1>2 DEF PassBreaksOff, IInv, TypeOK
<1>7. /\ PassPath \in lost' \/ \E t \in s.marks : TRUE
      /\ pass.key[2] = Self => PassPath \in lost' \/ PassKey \in s.marks
  BY <1>3, <1>4, <1>6
<1>8. QED
  BY <1>1, <1>4, <1>5, <1>6, <1>7, WriteStep

LEMMA UpdateCoreStep == IInv /\ UpdateCore => IInv'
<1> SUFFICES ASSUME IInv, UpdateCore PROVE IInv'
  OBVIOUS
<1> DEFINE S == PassStore
           c == CoreWritten(S)
<1>1. pass.phase \in Writing
  BY DEF UpdateCore, Writing, Finishing, Deriving
<1>2. /\ S \in StoreType /\ StoreOK(S) /\ PassKey \in Tenants /\ pass.key \in Addresses
  BY <1>1, PassFacts
<1>3. PassKeeps /\ UNCHANGED <<handles, owed, lost>> /\ lost' \subseteq Paths
  BY DEF UpdateCore, IInv, TypeOK
<1>4. /\ c \in StoreType /\ StoreOK(c)
      /\ c.turns = S.turns /\ c.scenes = S.scenes /\ c.text = S.text
      /\ Active(c) = Active(S) /\ c.marks = S.marks
      /\ Traces(c) \subseteq Traces(S) \cup {PassKey}
      /\ c.hash[PassKey] = None \/ c.hash[PassKey] = c.scenes
      /\ pass.key[2] = Self => c.core = c.scenes
  BY <1>1, CoreFacts
<1> HIDE DEF c
<1>5. CASE In("core") /\ Stored(pass.key, Cleared(c)) /\ Phase("done")
  <2> DEFINE s == Cleared(c)
  <2>1. /\ s \in StoreType /\ StoreOK(s) /\ Traces(s) = Traces(c)
        /\ s.turns = c.turns /\ s.scenes = c.scenes /\ s.text = c.text
        /\ s.core = c.core
        /\ s.hash = c.hash /\ s.seen = c.seen /\ Active(s) = Active(c)
        /\ s.marks = c.marks \ {PassKey}
    BY <1>2, <1>4, MarksOnly
  <2>2. ASSUME ~Derived(s), PassPath \notin lost
        PROVE  (\E t \in s.marks : TRUE) /\ pass.key[2] # Self
    <3>1. ~Derived(S) /\ PassPath \in Paths /\ store[PassPath] = S
      BY <1>2, <1>4, <2>1, <2>2, PathsApart DEF Derived, PassPath, PassStore, StoreOf
    <3>2. pass.phase = "core" /\ pass.phase \notin Deriving
      BY <1>5 DEF In, Deriving
    <3>3. PICK t \in S.marks : t # PassKey
      BY <2>2, <3>1, <3>2 DEF IInv, LagOK, Lasting
    <3>4. pass.key[2] = Self => S.marks \subseteq {PassKey}
      BY <1>2 DEF IInv, MarksOK, Selfs, PassStore, PassKey
    <3>5. QED
      BY <1>4, <2>1, <3>3, <3>4
  <2>3. /\ pass.key[2] = Self => Current(s) \/ PassPath \in lost
        /\ pass.key[2] = Self => s.marks \subseteq S.marks \cup {PassKey}
        /\ Traces(s) \subseteq Traces(S) \cup {PassKey} /\ s.turns = S.turns
        /\ pass.key[2] = Self => s.hash[PassKey] = None \/ s.core = s.hash[PassKey]
    BY <1>4, <2>1, <2>2 DEF Current, Derived
  <2> HIDE DEF s
  <2>4. Stored(pass.key, s)
    BY <1>5 DEF s
  <2>5. QED
    BY <1>1, <1>3, <1>5, <2>1, <2>2, <2>3, <2>4, WriteStep
<1>6. CASE Stored(pass.key, Dirty(c)) /\ Phase("failed")
  <2> DEFINE s == Dirty(c)
  <2>1. /\ s \in StoreType /\ StoreOK(s) /\ Traces(s) = Traces(c)
        /\ s.turns = c.turns /\ s.scenes = c.scenes /\ s.text = c.text
        /\ s.core = c.core
        /\ s.hash = c.hash /\ s.seen = c.seen /\ Active(s) = Active(c)
        /\ PassKey \in s.marks /\ s.marks \subseteq c.marks \cup {PassKey}
    BY <1>2, <1>4, MarksOnly
  <2>2. /\ Traces(s) \subseteq Traces(S) \cup {PassKey} /\ s.turns = S.turns
        /\ pass.key[2] = Self => s.hash[PassKey] = None \/ s.core = s.hash[PassKey]
        /\ s.marks \subseteq S.marks \cup {PassKey} /\ "failed" # "core"
    BY <1>4, <2>1
  <2> HIDE DEF s
  <2>3. Stored(pass.key, s)
    BY <1>6 DEF s
  <2>4. QED
    BY <1>1, <1>3, <1>6, <2>1, <2>2, <2>3, WriteStep
<1>7. CASE Stored(pass.key, Dirty(S)) /\ Phase("failed")
  <2> DEFINE s == Dirty(S)
  <2>1. /\ s \in StoreType /\ StoreOK(s) /\ Traces(s) = Traces(S)
        /\ s.turns = S.turns /\ s.scenes = S.scenes /\ s.core = S.core
        /\ s.hash = S.hash /\ s.seen = S.seen /\ Active(s) = Active(S)
        /\ PassKey \in s.marks /\ s.marks \subseteq S.marks \cup {PassKey}
    BY <1>2, MarksOnly
  <2>2. /\ pass.key[2] = Self => s.hash[PassKey] = None \/ s.core = s.hash[PassKey]
        /\ "failed" # "core"
    BY <1>2, <2>1 DEF IInv, HashOK, Selfs, PassStore, PassKey
  <2> HIDE DEF s
  <2>3. Stored(pass.key, s)
    BY <1>7 DEF s
  <2>4. QED
    BY <1>1, <1>3, <1>7, <2>1, <2>2, <2>3, WriteStep
<1>8. QED
  BY <1>5, <1>6, <1>7 DEF UpdateCore, CoreFails, c

LEMMA ExtractFailsStep == IInv /\ ExtractFails => IInv'
<1> SUFFICES ASSUME IInv, ExtractFails PROVE IInv'
  OBVIOUS
<1>1. pass.phase \in Writing /\ pass.phase = "extract"
  BY DEF ExtractFails, In, Writing
<1>2. /\ pass' \in [key : Addresses, upto : Nat, phase : {"failed"}]
      /\ pass'.key = pass.key /\ pass'.upto = pass.upto /\ pass'.phase = "failed"
  BY <1>1, PassFacts DEF ExtractFails, Phase
<1>3. UNCHANGED <<reg, store, calls, writers, tokens, requests, changes, restarts,
                  handles, owed, lost>>
  BY DEF ExtractFails, PassKeeps
<1>4. TypeOK'
  <2>1. store' \in [Paths -> StoreType] /\ \A p \in Paths : StoreOK(store'[p])
    BY <1>3 DEF IInv, TypeOK
  <2>2. pass' \in [key : Addresses, upto : Nat,
                   phase : {"extract", "scenes", "core", "core after a failure",
                            "done", "failed"}]
    BY <1>2
  <2>3. QED
    BY <1>3, <2>1, <2>2 DEF IInv, TypeOK
<1>5. PassOK'
  <2>1. PassStore' = PassStore
    BY <1>2, <1>3 DEF PassStore, StoreOf
  <2>2. QED
    BY <1>1, <1>2, <2>1, PassFacts DEF PassOK, Writing, Finishing, Deriving
<1>6. pass.phase \notin Finishing /\ pass'.phase \notin Finishing
  BY <1>1, <1>2 DEF Finishing, Deriving
<1>7. QED
  BY <1>3, <1>4, <1>5, <1>6, TurnStep

LEMMA EndPassStep == IInv /\ EndPass => IInv'
<1> SUFFICES ASSUME IInv, EndPass PROVE IInv'
  OBVIOUS
<1>1. pass' = NoPass /\ pass.phase \in {"done", "failed"}
  BY DEF EndPass
<1>2. owed' \subseteq Addresses
  <2>1. pass # NoPass
    BY <1>1 DEF NoPass
  <2>2. pass.key \in Addresses
    BY <2>1 DEF IInv, TypeOK
  <2>3. QED
    BY <2>2 DEF IInv, TypeOK, EndPass
<1>3. UNCHANGED <<reg, store, calls, writers, tokens, requests, changes, restarts, handles,
                  lost>>
  BY DEF EndPass, PassKeeps
<1>4. TypeOK'
  <2>1. store' \in [Paths -> StoreType] /\ \A p \in Paths : StoreOK(store'[p])
    BY <1>3 DEF IInv, TypeOK
  <2>2. QED
    BY <1>1, <1>2, <1>3, <2>1 DEF IInv, TypeOK
<1>5. PassOK' /\ pass'.phase \notin Finishing /\ pass.phase \notin Finishing
  BY <1>1 DEF PassOK, NoPass, Writing, Finishing, Deriving
<1>6. QED
  BY <1>3, <1>4, <1>5, TurnStep
-----------------------------------------------------------------------------
(***************************************************************************)
(* The invariant and what follows from it.                                 *)
(***************************************************************************)
LEMMA FreshTyped ==
  /\ Fresh \in StoreType /\ StoreOK(Fresh) /\ Traces(Fresh) = {} /\ Current(Fresh)
  /\ Fresh.marks = {} /\ \A t \in Tenants : Fresh.hash[t] = None
<1>1. /\ Fresh.turns = <<>> /\ Fresh.notes = {} /\ Fresh.known = {} /\ Fresh.archived = {}
      /\ Fresh.scenes = {} /\ Fresh.text = {} /\ Fresh.core = {} /\ Fresh.marks = {}
      /\ Fresh.seen = [t \in Tenants |-> 0] /\ Fresh.hash = [t \in Tenants |-> None]
  BY DEF Fresh
<1>2. Fresh \in StoreType
  BY DEF Fresh, StoreType
<1>3. StoreOK(Fresh)
  BY <1>1 DEF StoreOK
<1>4. Traces(Fresh) = {}
  BY <1>1 DEF Traces
<1>5. QED
  BY <1>1, <1>2, <1>3, <1>4 DEF Current, Derived, Active

LEMMA InitIInv == Init => IInv
<1> SUFFICES ASSUME Init PROVE IInv
  OBVIOUS
<1>1. \A p \in Paths : store[p] = Fresh
  BY DEF Init
<1>2. \A a \in Addresses : StoreOf(a) = Fresh /\ a[1] \in Tenants
  BY <1>1, PathsApart DEF StoreOf
<1>3. TypeOK
  <2>1. store \in [Paths -> StoreType] /\ \A p \in Paths : StoreOK(store[p])
    BY <1>1, FreshTyped DEF Init
  <2>2. writers \subseteq Addresses
    BY DEF Init, Addresses
  <2>3. QED
    BY <2>1, <2>2 DEF Init, TypeOK
<1>4. PassOK
  BY DEF Init, PassOK, NoPass, Writing, Finishing, Deriving
<1>5. WritersOK
  BY DEF Init, WritersOK
<1>6. TracesOK
  BY <1>2, FreshTyped DEF TracesOK, Granted
<1>7. LagOK
  BY <1>1, FreshTyped DEF LagOK, Current
<1>8. SelfOK /\ HashOK /\ MarksOK
  BY <1>2, FreshTyped DEF SelfOK, HashOK, MarksOK, Selfs
<1>9. QED
  BY <1>3, <1>4, <1>5, <1>6, <1>7, <1>8 DEF IInv

LEMMA StutterStep == IInv /\ UNCHANGED vars => IInv'
<1> SUFFICES ASSUME IInv, UNCHANGED vars PROVE IInv'
  OBVIOUS
<1>1. TypeOK'
  BY TypesKept DEF IInv, TypeOK, vars
<1>2. QED
  BY <1>1, QuietStep DEF IInv, WritersOK, vars

LEMMA Invariance == Spec => []IInv
<1>1. IInv /\ [Next]_vars => IInv'
  BY AdministrationStep, RequestKept, SweepStep, RestartStep, BeginPassStep,
     CommitL1Step, UpdateScenesStep, UpdateCoreStep, ExtractFailsStep,
     BreaksOffStep, EndPassStep, StutterStep DEF Next, PassStep
<1>2. QED
  BY InitIInv, <1>1, PTL DEF Spec

\* Atoms come from turns that are there, no key has consumed more than there is,
\* and the registry, the handles and the pass keep their shape.
THEOREM PoolsTypeCorrect == Spec => []TypeOK
<1>1. IInv => TypeOK
  BY DEF IInv
<1>2. QED
  BY Invariance, <1>1, PTL

\* Isolation (docs/POOLS.md): whatever the registry, the token file, the cached
\* handles and the queue go through, a tenant leaves a trace only where it could
\* write at some time, and in a private store its owner only.
THEOREM IsolationHolds == Spec => []TracesAreGranted
<1>1. IInv => TracesAreGranted
  <2>1. SUFFICES ASSUME IInv, NEW t \in Tenants, NEW n \in Names \cup {Self},
                        NEW u \in Traces(StoreOf(<<t, n>>))
                 PROVE  <<u, n>> \in writers /\ (n = Self => u = t)
    BY DEF TracesAreGranted
  <2>2. <<t, n>> \in Addresses
    BY DEF Addresses
  <2>3. Granted(<<t, n>>)
    BY <2>1, <2>2 DEF IInv, TracesOK
  <2>4. QED
    BY <2>1, <2>3 DEF Granted
<1>2. QED
  BY Invariance, <1>1, PTL

\* The early return of a pass skips a private store that is not lost only if its
\* layers are those of its active atoms.
LEMMA PrivateStoreIsCurrent == Spec => []SelfIsCurrent
<1>1. IInv => SelfIsCurrent
  <2>1. SUFFICES ASSUME IInv, Idle, NEW a \in Addresses, a[2] = Self, ~Outdated(a),
                        PathOf(a) \notin lost
                 PROVE  Current(StoreOf(a))
    BY DEF SelfIsCurrent, Current
  <2>2. pass.phase \notin Finishing
    BY <2>1 DEF Idle, NoPass, Finishing, Deriving
  <2>3. QED
    BY <2>1, <2>2 DEF IInv, SelfOK, Selfs
<1>2. QED
  BY Invariance, <1>1, PTL

\* Whoever opened a store and whoever distils it, a lag of its scenes is marked
\* under some key unless the store is lost.
LEMMA LagIsMarked == Spec => []StaleIsMarked
<1>1. IInv => StaleIsMarked
  <2>1. SUFFICES ASSUME IInv, Idle PROVE StaleIsMarked
    BY DEF StaleIsMarked
  <2>2. pass.phase \notin Deriving
    BY <2>1 DEF Idle, NoPass, Deriving
  <2>3. QED
    BY <2>1, <2>2 DEF IInv, LagOK, Lasting, StaleIsMarked
<1>2. QED
  BY Invariance, <1>1, PTL

\* Both at once (core.ts, distillOnce): a store that no pass is asked for, in the
\* terms of its early return, is up to date, is marked for another member, or is
\* one that a pass broke off in after L1's transaction without a mark, or
\* cleared of the mark of a change under way, since its scenes were last done.
THEOREM NoLagUnseen == Spec => []LagIsSeen
<1>1. SelfIsCurrent /\ StaleIsMarked => LagIsSeen
  BY DEF LagIsSeen
<1>2. QED
  BY PrivateStoreIsCurrent, LagIsMarked, <1>1, PTL
=============================================================================
