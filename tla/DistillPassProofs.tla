-------------------------- MODULE DistillPassProofs --------------------------
(***************************************************************************)
(* Proofs about DistillPass, for any atoms, sessions, turns, plans, writes *)
(* and faults.  What is assumed beyond the module's own assumptions stands *)
(* in the theorem.                                                         *)
(*                                                                         *)
(*  - TypeInv: the types; ids and seqs are bounded by the turns captured,  *)
(*    so that a new turn is new, and there is a window exactly while there *)
(*    is something to commit.                                              *)
(*  - WindowInv: a turn of the window is above the watermark and not yet   *)
(*    distilled.  It gives "at most once".                                 *)
(*  - SkipInv: the watermark is the seq of a turn that is there, so MAX + 1*)
(*    is above it.  Deleting the last turn breaks it, and SeqIsMonotonic.  *)
(*  - LayerInv: how far the pass has brought each layer, from the commit   *)
(*    to the completeness gate.                                            *)
(*                                                                         *)
(* What a plan of any length does is shown by induction on how much of it  *)
(* was applied, in the form of the well-foundedness of < (LeastNat, UpTo). *)
(***************************************************************************)
EXTENDS DistillPass, WellFoundedInduction, SequenceTheorems, FiniteSetTheorems,
        TLAPS

-----------------------------------------------------------------------------
\* Induction, in the form of facts about sets of numbers.

\* A set of natural numbers has a least one.
LEMMA LeastNat ==
  ASSUME NEW T \in SUBSET Nat, T # {}
  PROVE  \E m \in T : \A k \in T : m <= k
<1> DEFINE R == {p \in Nat \X Nat : p[1] < p[2]}
<1>1. OpToRel(<, Nat) = R
  BY DEF OpToRel
<1>2. IsWellFoundedOn(R, Nat)
  BY <1>1, NatLessThanWellFounded
<1> HIDE DEF R
<1>3. PICK m \in T : \A k \in T : ~(<<k, m>> \in R)
  BY <1>2, WFMin
<1>4. ASSUME NEW k \in T, k < m
      PROVE  FALSE
  <2> DEFINE p == <<k, m>>
  <2>1. p \in Nat \X Nat /\ p[1] < p[2]
    BY <1>4
  <2>2. p \in R
    BY <2>1 DEF R
  <2>q. QED
    BY <1>3, <2>2
<1>q. QED
  BY <1>4

\* Induction up to n.
LEMMA UpTo ==
  ASSUME NEW n \in Nat, NEW T, 0 \in T,
         \A i \in 1..n : i - 1 \in T => i \in T
  PROVE  0..n \subseteq T
<1>1. SUFFICES ASSUME (0..n) \ T # {}
               PROVE  FALSE
  OBVIOUS
<1> DEFINE U == (0..n) \ T
<1>2. U \in SUBSET Nat
  OBVIOUS
<1> HIDE DEF U
<1>3. PICK m \in U : \A k \in U : m <= k
  BY <1>1, <1>2, LeastNat DEF U
<1>4. m \in 1..n /\ m - 1 \notin U
  BY <1>3 DEF U
<1>q. QED
  BY <1>4 DEF U

-----------------------------------------------------------------------------
\* The head of turns that are bounded.

\* HeadSeq is the greatest seq, and 0 of no turns.
LEMMA HeadSeqIsMax ==
  ASSUME NEW turns, NEW b \in Nat, \A t \in turns : t.seq \in Nat /\ t.seq <= b
  PROVE  /\ HeadSeq(turns) \in 0..b
         /\ \A t \in turns : t.seq <= HeadSeq(turns)
         /\ HeadSeq(turns) = 0 \/ \E t \in turns : t.seq = HeadSeq(turns)
<1> DEFINE V == {0} \cup {t.seq : t \in turns}
           B == {n \in Nat : \A v \in V : v <= n}
<1>1. b \in B /\ B \in SUBSET Nat
  OBVIOUS
<1>2. PICK m \in B : \A k \in B : m <= k
  BY <1>1, LeastNat
<1>3. m \in V
  <2>1. SUFFICES ASSUME m \notin V
                 PROVE  FALSE
    OBVIOUS
  <2>2. m - 1 \in Nat /\ \A v \in V : v <= m - 1
    BY <1>2, <2>1
  <2>q. QED
    BY <1>2, <2>2
<1>4. \A t \in turns : t.seq <= m
  BY <1>2
<1>5. HeadSeq(turns) \in V /\ \A t \in turns : t.seq <= HeadSeq(turns)
  BY <1>3, <1>4 DEF HeadSeq
<1>q. QED
  BY <1>5

-----------------------------------------------------------------------------
\* The plan, applied: the recursion of Applied is that of the code's loop.

\* The columns after the i-th operation, from those before it.
AfterOp(i, before) ==
  [status   |-> StatusAfter(plan[i], before.status),
   evidence |-> EvidenceAfter(plan[i], before.evidence)]

BeforePlan == [status |-> Ensured, evidence |-> evidence]

Applies(f, n) ==
  f = [i \in 0..n |-> IF i = 0 THEN BeforePlan ELSE AfterOp(i, f[i - 1])]

LEMMA AppliesExists == \A n \in Nat : \E f : Applies(f, n)
<1> SUFFICES ASSUME NEW n \in Nat
             PROVE  \E f : Applies(f, n)
  OBVIOUS
<1> DEFINE T == {i \in 0..n : \E f : Applies(f, i)}
<1>1. 0 \in T
  <2> DEFINE f == [i \in 0..0 |-> BeforePlan]
  <2>1. Applies(f, 0)
    BY DEF Applies
  <2>q. QED
    BY <2>1
<1>2. ASSUME NEW i \in 1..n, i - 1 \in T
      PROVE  i \in T
  <2>1. PICK g : Applies(g, i - 1)
    BY <1>2
  <2> DEFINE f == [j \in 0..i |-> IF j = i THEN AfterOp(i, g[i - 1]) ELSE g[j]]
  <2>2. \A j \in 0..(i - 1) : g[j] = IF j = 0 THEN BeforePlan ELSE AfterOp(j, g[j - 1])
    BY <2>1 DEF Applies
  <2>3. Applies(f, i)
    BY <2>2 DEF Applies
  <2> HIDE DEF f
  <2>q. QED
    BY <2>3
<1> HIDE DEF T
<1>3. 0..n \subseteq T
  BY <1>1, <1>2, UpTo
<1>q. QED
  BY <1>3 DEF T

\* Applied satisfies the equation it is defined by.
LEMMA AppliedIs ==
  ASSUME Len(plan) \in Nat
  PROVE  /\ Applied[0] = BeforePlan
         /\ \A i \in 1..Len(plan) : Applied[i] = AfterOp(i, Applied[i - 1])
<1>1. Applies(Applied, Len(plan))
  BY AppliesExists DEF Applied, Applies, AfterOp, BeforePlan
<1>q. QED
  BY <1>1 DEF Applies

LEMMA PlanIndices ==
  ASSUME plan \in Seq(Op)
  PROVE  /\ Len(plan) \in Nat
         /\ DOMAIN plan = 1..Len(plan)
         /\ \A i \in 1..Len(plan) : plan[i] \in Op
OBVIOUS

LEMMA OpTypes ==
  ASSUME NEW op \in Op
  PROVE  /\ op.action \in {"store", "update", "merge", "skip"}
         /\ op.new \in Candidates /\ op.new \in Atoms
         /\ op.targets \subseteq Atoms
         /\ ConsumedBy(op) \subseteq op.targets
BY DEF Op, ConsumedBy, Atoms

LEMMA AfterOpIs ==
  ASSUME NEW i, NEW before
  PROVE  /\ AfterOp(i, before).status = StatusAfter(plan[i], before.status)
         /\ AfterOp(i, before).evidence = EvidenceAfter(plan[i], before.evidence)
BY DEF AfterOp

LEMMA BeforePlanIs == BeforePlan.status = Ensured /\ BeforePlan.evidence = evidence
BY DEF BeforePlan

LEMMA AppliedSteps ==
  ASSUME plan \in Seq(Op)
  PROVE  /\ Applied[0].status = Ensured /\ Applied[0].evidence = evidence
         /\ \A i \in 1..Len(plan) :
              /\ Applied[i].status = StatusAfter(plan[i], Applied[i - 1].status)
              /\ Applied[i].evidence = EvidenceAfter(plan[i], Applied[i - 1].evidence)
BY PlanIndices, AppliedIs, AfterOpIs, BeforePlanIs

\* The status column after an operation: it takes the consumed out of service.
LEMMA StatusAfterIs ==
  ASSUME NEW op \in Op, NEW st \in [Atoms -> AtomStatus]
  PROVE  /\ StatusAfter(op, st) \in [Atoms -> AtomStatus]
         /\ \A a \in Atoms :
              /\ a \notin ConsumedBy(op) => StatusAfter(op, st)[a] = st[a]
              /\ a \in ConsumedBy(op) =>
                   StatusAfter(op, st)[a] \in {"superseded", "merged"}
BY DEF StatusAfter, AtomStatus

\* The edges after an operation: those before it, and the winner's from the
\* window and from its targets.
LEMMA EvidenceAfterIs ==
  ASSUME NEW op \in Op, NEW ev \in SUBSET (Atoms \X Nat), WindowIds \subseteq Nat
  PROVE  /\ EvidenceAfter(op, ev) \in SUBSET (Atoms \X Nat)
         /\ ev \subseteq EvidenceAfter(op, ev)
         /\ \A e \in EvidenceAfter(op, ev) \ ev :
              /\ op.action # "skip"
              /\ e[1] = op.new
              /\ e[2] \in WindowIds \/ \E f \in ev : f[2] = e[2]
         /\ op.action # "skip" =>
              \A e \in ev : e[1] \in op.targets =>
                <<op.new, e[2]>> \in EvidenceAfter(op, ev)
<1>1. op.new \in Atoms
  BY OpTypes
<1> DEFINE Inherited == {e[2] : e \in {f \in ev : f[1] \in op.targets}}
<1>2. Inherited \subseteq Nat /\ \A i \in Inherited : \E f \in ev : f[2] = i
  OBVIOUS
<1>3. \A e \in ev : e[1] \in op.targets => e[2] \in Inherited
  OBVIOUS
<1>4. EvidenceAfter(op, ev) =
        IF op.action = "skip" THEN ev ELSE ev \cup ({op.new} \X (WindowIds \cup Inherited))
  BY DEF EvidenceAfter
<1> DEFINE New == {op.new} \X (WindowIds \cup Inherited)
<1> HIDE DEF Inherited
<1>5. New \in SUBSET (Atoms \X Nat)
  BY <1>1, <1>2
<1>6. \A e \in New : e[1] = op.new /\ (e[2] \in WindowIds \/ \E f \in ev : f[2] = e[2])
  BY <1>2
<1>7. \A e \in ev : e[1] \in op.targets => <<op.new, e[2]>> \in New
  BY <1>3
<1>8. EvidenceAfter(op, ev) = IF op.action = "skip" THEN ev ELSE ev \cup New
  BY <1>4
<1> HIDE DEF New
<1>q. QED
  BY <1>5, <1>6, <1>7, <1>8

LEMMA EnsuredIs ==
  ASSUME StoreTypeOK
  PROVE  /\ Ensured \in [Atoms -> AtomStatus]
         /\ \A a \in Atoms :
              /\ Ensured[a] # status[a] => Ensured[a] = "active" /\ status[a] = "absent"
              /\ a \in Winners => Ensured[a] # "absent"
              /\ status[a] # "absent" => Ensured[a] = status[a]
BY DEF StoreTypeOK, Ensured, AtomStatus

\* What the plan does to the status column: an atom that is there stays, and
\* only what some operation consumes changes.
LEMMA AppliedStatus ==
  ASSUME StoreTypeOK, plan \in Seq(Op)
  PROVE  \A i \in 0..Len(plan) :
           /\ Applied[i].status \in [Atoms -> AtomStatus]
           /\ \A a \in Atoms :
                /\ Ensured[a] # "absent" => Applied[i].status[a] # "absent"
                /\ Applied[i].status[a] # Ensured[a] =>
                     \E j \in 1..i : a \in ConsumedBy(plan[j])
                /\ (\E j \in 1..i : a \in ConsumedBy(plan[j])) =>
                     Applied[i].status[a] \in {"superseded", "merged"}
<1> DEFINE n == Len(plan)
           St(i) == Applied[i].status
           Good(i) ==
             /\ St(i) \in [Atoms -> AtomStatus]
             /\ \A a \in Atoms :
                  /\ Ensured[a] # "absent" => St(i)[a] # "absent"
                  /\ St(i)[a] # Ensured[a] => \E j \in 1..i : a \in ConsumedBy(plan[j])
                  /\ (\E j \in 1..i : a \in ConsumedBy(plan[j])) =>
                       St(i)[a] \in {"superseded", "merged"}
           T == {i \in 0..n : Good(i)}
<1>1. n \in Nat /\ \A i \in 1..n : plan[i] \in Op
  BY PlanIndices
<1>2. St(0) = Ensured /\ \A i \in 1..n : St(i) = StatusAfter(plan[i], St(i - 1))
  BY AppliedSteps
<1> HIDE DEF St, n
<1>3. 0 \in T
  BY <1>1, <1>2, EnsuredIs
<1>4. ASSUME NEW i \in 1..n, i - 1 \in T
      PROVE  i \in T
  <2>1. Good(i - 1) /\ i \in 0..n
    BY <1>1, <1>4
  <2>2. /\ St(i) \in [Atoms -> AtomStatus]
        /\ \A a \in Atoms :
             /\ a \notin ConsumedBy(plan[i]) => St(i)[a] = St(i - 1)[a]
             /\ a \in ConsumedBy(plan[i]) => St(i)[a] \in {"superseded", "merged"}
    BY <1>1, <1>2, <2>1, StatusAfterIs
  <2>3. \A j : j \in 1..i <=> j \in 1..(i - 1) \/ j = i
    BY <1>1
  <2>q. QED
    BY <2>1, <2>2, <2>3
<1> HIDE DEF T
<1>5. 0..n \subseteq T
  BY <1>1, <1>3, <1>4, UpTo
<1>q. QED
  BY <1>5 DEF T, St, n

\* What the plan does to the evidence: edges stay, and a new one leads from a
\* winner to a turn of the window or of an edge that was there.
LEMMA AppliedEvidence ==
  ASSUME StoreTypeOK, plan \in Seq(Op), WindowIds \subseteq Nat
  PROVE  \A i \in 0..Len(plan) :
           /\ Applied[i].evidence \in SUBSET (Atoms \X Nat)
           /\ evidence \subseteq Applied[i].evidence
           /\ \A j \in 1..i : Applied[j].evidence \subseteq Applied[i].evidence
           /\ \A e \in Applied[i].evidence \ evidence :
                /\ e[1] \in Winners
                /\ e[2] \in WindowIds \/ \E f \in evidence : f[2] = e[2]
<1> DEFINE n == Len(plan)
           Ev(i) == Applied[i].evidence
           Good(i) ==
             /\ Ev(i) \in SUBSET (Atoms \X Nat)
             /\ evidence \subseteq Ev(i)
             /\ \A j \in 1..i : Ev(j) \subseteq Ev(i)
             /\ \A e \in Ev(i) \ evidence :
                  /\ e[1] \in Winners
                  /\ e[2] \in WindowIds \/ \E f \in evidence : f[2] = e[2]
           T == {i \in 0..n : Good(i)}
<1>1. n \in Nat /\ \A i \in 1..n : plan[i] \in Op
  BY PlanIndices
<1>2. Ev(0) = evidence /\ \A i \in 1..n : Ev(i) = EvidenceAfter(plan[i], Ev(i - 1))
  BY AppliedSteps
<1>3. \A i \in 1..n : plan[i].action # "skip" => plan[i].new \in Winners
  BY PlanIndices DEF Winners
<1> HIDE DEF Ev, n
<1>4. 0 \in T
  BY <1>1, <1>2 DEF StoreTypeOK
<1>5. ASSUME NEW i \in 1..n, i - 1 \in T
      PROVE  i \in T
  <2>1. Good(i - 1) /\ i \in 0..n /\ plan[i] \in Op
    BY <1>1, <1>5
  <2>2. /\ Ev(i) \in SUBSET (Atoms \X Nat)
        /\ Ev(i - 1) \subseteq Ev(i)
        /\ \A e \in Ev(i) \ Ev(i - 1) :
             /\ plan[i].action # "skip"
             /\ e[1] = plan[i].new
             /\ e[2] \in WindowIds \/ \E f \in Ev(i - 1) : f[2] = e[2]
    BY <1>2, <2>1, EvidenceAfterIs
  <2>3. \A j : j \in 1..i <=> j \in 1..(i - 1) \/ j = i
    BY <1>1
  <2>4. \A e \in Ev(i) \ evidence : e[2] \in WindowIds \/ \E f \in evidence : f[2] = e[2]
    BY <2>1, <2>2
  <2>5. \A e \in Ev(i) \ evidence : e[1] \in Winners
    BY <1>3, <2>1, <2>2
  <2>6. \A j \in 1..i : Ev(j) \subseteq Ev(i)
    BY <2>1, <2>2, <2>3
  <2>q. QED
    BY <2>1, <2>2, <2>4, <2>5, <2>6
<1> HIDE DEF T
<1>6. 0..n \subseteq T
  BY <1>1, <1>4, <1>5, UpTo
<1>q. QED
  BY <1>6 DEF T, Ev, n

-----------------------------------------------------------------------------
\* Types.

Asking == pc \in {"planning", "planned"}

\* Seqs and ids are bounded by the turns ever appended, the window is what the
\* pass still has to commit, and a narration is about a scene.
Bounded ==
  /\ \A t \in stream \cup window : t.id <= appended /\ t.seq <= appended
  /\ Asking <=> window # {}
  /\ pc \in {"title", "summary"} => scene.session \in Sessions

TypeInv == TypeOK /\ Bounded

LEMMA InitialValues ==
  /\ NoScene \in Scene
  /\ NotNarrating \in [session : Sessions \cup {"none"}, live : SUBSET Atoms]
  /\ <<>> \in Seq(Op)
<1>1. NoText \in Text /\ {} \in SUBSET Atoms
  BY DEF Text
<1>2. NoScene \in Scene
  BY <1>1 DEF NoScene, Scene
<1>3. NotNarrating \in [session : Sessions \cup {"none"}, live : SUBSET Atoms]
  BY DEF NotNarrating
<1>4. <<>> \in Seq(Op)
  OBVIOUS
<1>q. QED
  BY <1>2, <1>3, <1>4

LEMMA TypeInvInit == Init => TypeInv
<1> SUFFICES ASSUME Init PROVE TypeInv
  OBVIOUS
<1>1. StoreTypeOK
  BY DEF Init, StoreInit, StoreTypeOK, AtomStatus
<1>2. TypeOK
  BY <1>1, InitialValues DEF Init, TypeOK
<1>3. Bounded
  BY DEF Init, StoreInit, Bounded, Asking
<1>q. QED
  BY <1>2, <1>3 DEF TypeInv

\* A window holds turns above the watermark, and one if there is one.
LEMMA WindowIs ==
  ASSUME TypeOK
  PROVE  /\ Window \subseteq stream
         /\ \A t \in Window : t.seq > watermark
         /\ (\E t \in stream : t.seq > watermark) => Window # {}
<1> DEFINE N == {t \in stream : t.seq > watermark}
           S == {t.seq : t \in N}
<1>1. Window \subseteq N
  BY DEF Window, FirstOf
<1>2. ASSUME N # {}
      PROVE  Window # {}
  <2>1. S \in SUBSET Nat /\ S # {}
    BY <1>2 DEF TypeOK, StoreTypeOK, Turn
  <2>2. PICK m \in S : \A k \in S : m <= k
    BY <2>1, LeastNat
  <2>3. PICK t \in N : t.seq = m
    BY <2>2
  <2> DEFINE Before == {u \in N : u.seq < t.seq}
  <2>4. Before = {}
    <3>1. \A u \in N : u.seq \in S
      OBVIOUS
    <3>2. \A u \in N : m <= u.seq /\ u.seq \in Nat /\ m \in Nat
      BY <2>1, <2>2, <3>1
    <3>q. QED
      BY <2>3, <3>2
  <2>5. Cardinality(Before) < WindowSize
    BY <2>4, FS_EmptySet, PassAssumption
  <2>6. t \in FirstOf(N)
    BY <2>5 DEF FirstOf
  <2>q. QED
    BY <2>6 DEF Window
<1>q. QED
  BY <1>1, <1>2

LEMMA PlansAreSeqs ==
  ASSUME NEW shown \in SUBSET Atoms, NEW n \in 0..MaxCandidates, NEW p \in PlansOn(shown, n)
  PROVE  p \in Seq(Op)
<1>1. OpsOn(shown) \subseteq Op
  BY DEF OpsOn, Op
<1>2. n \in Nat /\ p \in [1..n -> Op]
  BY <1>1, PassAssumption DEF PlansOn
<1>q. QED
  BY <1>2, SeqDef

\* What a commit does to the columns it writes.
LEMMA CommitEffect ==
  ASSUME TypeInv, CommitL1
  PROVE  /\ status' \in [Atoms -> AtomStatus]
         /\ evidence' \in SUBSET (Atoms \X Nat)
         /\ \A a \in Atoms :
              /\ status[a] # "absent" => status'[a] # "absent"
              /\ a \in Winners => status'[a] # "absent"
              /\ status'[a] \notin {status[a], "active"} => status[a] = "active"
              /\ status'[a] # status[a] =>
                   \/ status[a] = "absent"
                   \/ \E i \in DOMAIN plan : a \in ConsumedBy(plan[i])
         /\ evidence \subseteq evidence'
         /\ \A e \in evidence' \ evidence :
              /\ e[1] \in Winners
              /\ e[2] \in WindowIds \/ \E f \in evidence : f[2] = e[2]
<1>1. StoreTypeOK /\ plan \in Seq(Op) /\ WindowIds \subseteq Nat
  BY DEF TypeInv, TypeOK, WindowIds, Turn
<1> DEFINE n == Len(plan)
<1>2. /\ n \in 0..n
      /\ status' = Applied[n].status
      /\ evidence' = Applied[n].evidence
  BY <1>1, PlanIndices DEF CommitL1
<1>3. \A a \in Atoms, i \in 1..n : a \in ConsumedBy(plan[i]) => status[a] = "active"
  BY <1>1, PlanIndices, OpTypes DEF CommitL1, Stale
<1>4. DOMAIN plan = 1..n
  BY <1>1, PlanIndices
<1> DEFINE St == Applied[n].status
           Ev == Applied[n].evidence
<1>5. /\ St \in [Atoms -> AtomStatus]
      /\ \A a \in Atoms :
           /\ Ensured[a] # "absent" => St[a] # "absent"
           /\ St[a] # Ensured[a] => \E j \in 1..n : a \in ConsumedBy(plan[j])
  BY <1>1, <1>2, AppliedStatus
<1>6. /\ Ev \in SUBSET (Atoms \X Nat)
      /\ evidence \subseteq Ev
      /\ \A e \in Ev \ evidence :
           /\ e[1] \in Winners
           /\ e[2] \in WindowIds \/ \E f \in evidence : f[2] = e[2]
  BY <1>1, <1>2, AppliedEvidence
<1> HIDE DEF St, Ev, n
<1>7. status' = St /\ evidence' = Ev
  BY <1>2 DEF St, Ev
<1>q. QED
  BY <1>1, <1>3, <1>4, <1>5, <1>6, <1>7, EnsuredIs

LEMMA LeaveTypes ==
  ASSUME Leave
  PROVE  /\ pc' = "idle" /\ window' = {} /\ plan' \in Seq(Op) /\ todo' = {}
         /\ scene' \in [session : Sessions \cup {"none"}, live : SUBSET Atoms]
         /\ failed' \in BOOLEAN /\ coreIn' = {}
BY InitialValues DEF Leave

\* Scenes as they are written.
LEMMA SceneTypes ==
  ASSUME TypeOK, NEW s \in Sessions
  PROVE  /\ EpisodeOf(s) \in Scene
         /\ [episodes[s] EXCEPT !.hash = {}] \in Scene
         /\ Live(s) \in SUBSET Atoms
BY DEF TypeOK, EpisodeOf, Scene, Text, ActiveAtomsOf, Active, Live

LEMMA CoreInputType ==
  ASSUME TypeOK
  PROVE  CoreInput \subseteq [session : Sessions, title : Text, live : SUBSET Atoms]
<1>1. \A s \in ActiveEpisodes : s \in Sessions /\ episodes[s].title \in Text
  BY DEF ActiveEpisodes, TypeOK, Scene
<1>2. \A s \in ActiveEpisodes :
        [session |-> s, title |-> episodes[s].title, live |-> Live(s)]
          \in [session : Sessions, title : Text, live : SUBSET Atoms]
  BY <1>1, SceneTypes
<1>q. QED
  BY <1>2 DEF CoreInput

LEMMA UpsertTypes ==
  ASSUME TypeOK, NEW s \in Sessions, NEW new \in Scene,
         UpsertDone(s, new) \/ UpsertThrows(s, new)
  PROVE  episodes' \in [Sessions -> Scene]
<1>1. \A r \in BOOLEAN : [new EXCEPT !.rendered = r] \in Scene
  BY DEF Scene
<1>2. NeedsEmbedding(s, new) \in BOOLEAN
  BY DEF NeedsEmbedding, TypeOK, Scene, TextChanged
<1>3. \E r \in BOOLEAN : episodes' = [episodes EXCEPT ![s] = [new EXCEPT !.rendered = r]]
  BY <1>2 DEF UpsertDone, UpsertThrows
<1>q. QED
  BY <1>1, <1>3 DEF TypeOK

\* A turn is captured under a fresh id, after all that are there.
LEMMA AddStreamIs ==
  ASSUME TypeInv, NEW s \in Sessions, AddStream(s)
  PROVE  /\ NextSeq \in 1..(appended + 1) /\ \A t \in stream : t.seq < NextSeq
         /\ appended' = appended + 1
         /\ stream' = stream \cup {[id |-> appended', seq |-> NextSeq, session |-> s]}
         /\ UNCHANGED <<status, evidence, dirty, writes>>
<1>1. \A t \in stream : t.seq \in Nat /\ t.seq <= appended
  BY DEF TypeInv, TypeOK, StoreTypeOK, Bounded, Turn
<1>2. appended \in Nat
  BY DEF TypeInv, TypeOK, StoreTypeOK
<1>3. HeadSeq(stream) \in 0..appended /\ \A t \in stream : t.seq <= HeadSeq(stream)
  BY <1>1, <1>2, HeadSeqIsMax
<1>q. QED
  BY <1>1, <1>2, <1>3 DEF AddStream, NextSeq

LEMMA AddStreamTypes ==
  ASSUME TypeInv, NEW s \in Sessions, AddStream(s)
  PROVE  /\ StoreTypeOK'
         /\ appended' \in Nat /\ appended < appended'
         /\ \A t \in stream' : t.id <= appended' /\ t.seq <= appended'
<1> DEFINE new == [id |-> appended', seq |-> NextSeq, session |-> s]
<1>1. appended \in Nat /\ appended' = appended + 1 /\ NextSeq \in 1..(appended + 1)
  BY AddStreamIs DEF TypeInv, TypeOK, StoreTypeOK
<1>2. new \in Turn /\ new.id = appended' /\ new.seq <= appended'
  BY <1>1 DEF Turn
<1>3. stream' = stream \cup {new}
  BY AddStreamIs
<1> HIDE DEF new
<1>4. \A t \in stream : t.id \in Nat /\ t.seq \in Nat /\ t.id <= appended /\ t.seq <= appended
  BY DEF TypeInv, TypeOK, StoreTypeOK, Bounded, Turn
<1>5. \A t \in stream' : t.id <= appended' /\ t.seq <= appended'
  BY <1>1, <1>2, <1>3, <1>4
<1>q. QED
  BY <1>1, <1>2, <1>3, <1>5, AddStreamIs DEF TypeInv, TypeOK, StoreTypeOK

LEMMA StoreWriteTypes ==
  ASSUME StoreTypeOK, StoreWrite
  PROVE  /\ StoreTypeOK'
         /\ stream' \subseteq stream /\ appended' = appended
<1>1. Direct \subseteq Atoms
  BY DEF Atoms
<1>2. ASSUME NEW a \in Direct, UpsertAtom(a)
      PROVE  StoreTypeOK' /\ stream' \subseteq stream /\ appended' = appended
  BY <1>1, <1>2 DEF StoreTypeOK, UpsertAtom, Write, AtomStatus
<1>3. ASSUME NEW ids \in SUBSET Atoms, NEW to \in {"superseded", "merged"},
             status' = StatusSet(ids, to), writes' = writes + 1, dirty' = TRUE,
             UNCHANGED <<stream, appended, evidence>>
      PROVE  StoreTypeOK' /\ stream' \subseteq stream /\ appended' = appended
  BY <1>3 DEF StoreTypeOK, StatusSet, AtomStatus
<1>4. ASSUME NEW a \in Atoms, SupersedeAtom(a)
      PROVE  StoreTypeOK' /\ stream' \subseteq stream /\ appended' = appended
  BY <1>3, <1>4 DEF SupersedeAtom, Write
<1>5. ASSUME NEW losers \in SUBSET Atoms, MergeAtoms(losers)
      PROVE  StoreTypeOK' /\ stream' \subseteq stream /\ appended' = appended
  BY <1>3, <1>5 DEF MergeAtoms, Write
<1>6. ASSUME NEW a \in Atoms, ArchiveAtom(a)
      PROVE  StoreTypeOK' /\ stream' \subseteq stream /\ appended' = appended
  BY <1>6 DEF StoreTypeOK, ArchiveAtom, Write, AtomStatus
<1>7. ASSUME NEW a \in Atoms, HardDeleteAtom(a)
      PROVE  StoreTypeOK' /\ stream' \subseteq stream /\ appended' = appended
  <2>1. evidence' \subseteq evidence /\ "absent" \in AtomStatus
    BY <1>7 DEF HardDeleteAtom, AtomStatus
  <2>2. status' \in [Atoms -> AtomStatus]
    BY <1>7, <2>1 DEF HardDeleteAtom, StoreTypeOK
  <2>3. writes' = writes + 1 /\ dirty' = TRUE /\ UNCHANGED <<stream, appended>>
    BY <1>7 DEF HardDeleteAtom, Write
  <2>q. QED
    BY <2>1, <2>2, <2>3 DEF StoreTypeOK
<1>8. ASSUME NEW turns, DeleteStream(turns)
      PROVE  StoreTypeOK' /\ stream' \subseteq stream /\ appended' = appended
  <2>1. dirty' \in BOOLEAN /\ evidence' \subseteq evidence
    BY <1>8 DEF DeleteStream, StoreTypeOK
  <2>2. stream' \subseteq stream /\ UNCHANGED <<appended, status>>
    BY <1>8 DEF DeleteStream
  <2>3. writes' = writes + 1
    BY <1>8 DEF DeleteStream, Write
  <2>q. QED
    BY <2>1, <2>2, <2>3 DEF StoreTypeOK
<1>q. QED
  BY <1>2, <1>4, <1>5, <1>6, <1>7, <1>8 DEF StoreWrite

\* A step that leaves store and watermark alone, and the window as it is or
\* empty.
LEMMA TypeInvBy ==
  ASSUME TypeInv, UNCHANGED <<storeVars, watermark, distilled>>, window' \subseteq window,
         episodes' \in [Sessions -> Scene],
         core' \subseteq [session : Sessions, title : Text, live : SUBSET Atoms],
         pc' \in {"idle", "planning", "planned", "committed", "episodes", "narrating",
                 "title", "summary", "core"},
         Asking' <=> window' # {},
         pc' \in {"title", "summary"} => scene'.session \in Sessions,
         plan' \in Seq(Op), todo' \subseteq Sessions,
         scene' \in [session : Sessions \cup {"none"}, live : SUBSET Atoms],
         failed' \in BOOLEAN,
         coreIn' \subseteq [session : Sessions, title : Text, live : SUBSET Atoms]
  PROVE  TypeInv'
BY DEF TypeInv, TypeOK, StoreTypeOK, storeVars, Bounded

LEMMA TypeInvLeave ==
  ASSUME TypeInv, Leave, UNCHANGED <<storeVars, watermark, distilled>>,
         episodes' \in [Sessions -> Scene],
         core' \subseteq [session : Sessions, title : Text, live : SUBSET Atoms]
  PROVE  TypeInv'
BY LeaveTypes, TypeInvBy DEF Asking

LEMMA SessionsOfEvidence ==
  EvidencedSessions \subseteq Sessions /\ EvidencedSessions' \subseteq Sessions
BY DEF EvidencedSessions

LEMMA TypeInvL1 ==
  ASSUME TypeInv,
         BeginExtract \/ BeginReconcile \/ Plan \/ CommitL1 \/ CommitAborts \/ PlanningFails
  PROVE  TypeInv'
<1> USE DEF TypeInv
<1>1. CASE BeginExtract
  <2>1. window' = Window /\ Window \subseteq stream /\ Window # {}
    BY <1>1, WindowIs DEF BeginExtract
  <2>q. QED
    BY <1>1, <2>1 DEF BeginExtract, TypeOK, StoreTypeOK, storeVars, Bounded, Asking
<1>2. CASE BeginReconcile
  <2>1. ~Asking /\ ~Asking' /\ pc' = "committed" /\ todo' \subseteq Sessions
    BY <1>2, SessionsOfEvidence DEF BeginReconcile, Asking
  <2>2. UNCHANGED <<storeVars, watermark, distilled, episodes, core, window, plan, scene,
                    failed, coreIn>>
    BY <1>2 DEF BeginReconcile
  <2>q. QED
    BY <2>1, <2>2, TypeInvBy DEF TypeOK, Bounded
<1>3. CASE Plan
  <2>1. plan' \in Seq(Op)
    BY <1>3, PlansAreSeqs DEF Plan, Active
  <2>2. UNCHANGED <<storeVars, watermark, distilled, episodes, core, window, scene,
                    todo, failed, coreIn>>
    BY <1>3 DEF Plan
  <2>3. Asking /\ Asking' /\ pc' = "planned"
    BY <1>3 DEF Plan, Asking
  <2>q. QED
    BY <2>1, <2>2, <2>3, TypeInvBy DEF TypeOK, Bounded
<1>4. CASE CommitL1
  <2>1. status' \in [Atoms -> AtomStatus] /\ evidence' \in SUBSET (Atoms \X Nat)
    BY <1>4, CommitEffect
  <2>2. \A t \in window : t.seq \in Nat /\ t.seq <= appended /\ t.id \in Nat
    BY DEF TypeOK, StoreTypeOK, Bounded, Turn
  <2>3. watermark' \in Nat
    BY <1>4, <2>2, HeadSeqIsMax DEF CommitL1, NextWatermark, TypeOK, StoreTypeOK
  <2>4. distilled' \subseteq Nat
    BY <1>4, <2>2 DEF CommitL1, WindowIds, TypeOK
  <2>5. dirty' \in BOOLEAN /\ UNCHANGED <<stream, appended, writes>>
    BY <1>4 DEF CommitL1, TypeOK, StoreTypeOK
  <2>6. StoreTypeOK'
    BY <2>1, <2>5 DEF TypeOK, StoreTypeOK
  <2>7. /\ pc' = "committed" /\ window' = {} /\ plan' = <<>> /\ todo' \subseteq Sessions
        /\ UNCHANGED <<episodes, core, scene, failed, coreIn>>
    BY <1>4, SessionsOfEvidence DEF CommitL1
  <2>8. plan' \in Seq(Op)
    BY <2>7, InitialValues
  <2>9. TypeOK'
    BY <2>3, <2>4, <2>6, <2>7, <2>8 DEF TypeOK
  <2>q. QED
    BY <2>5, <2>7, <2>9 DEF Bounded, Asking
<1>5. CASE CommitAborts \/ PlanningFails
  BY <1>5, TypeInvLeave DEF CommitAborts, PlanningFails, TypeOK
<1>q. QED
  BY <1>1, <1>2, <1>3, <1>4, <1>5

LEMMA TypeInvL2 ==
  ASSUME TypeInv,
         \/ \E s \in Sessions : SkipEpisode(s) \/ Episode(s)
         \/ ScenesToNarrate
         \/ \E s \in Sessions : UpToDate(s) \/ NarrateEmpty(s) \/ AskTitle(s)
         \/ AskSummary \/ Narrate \/ TitleFails \/ SummaryFails
  PROVE  TypeInv'
<1>0. TypeOK /\ Bounded
  BY DEF TypeInv
<1>1. ASSUME NEW s \in Sessions, SkipEpisode(s) \/ UpToDate(s)
      PROVE  TypeInv'
  <2>1. UNCHANGED <<storeVars, watermark, distilled, episodes, core, pc, window, plan, scene,
                    failed, coreIn>>
    BY <1>1 DEF SkipEpisode, UpToDate
  <2>2. todo' \subseteq todo
    BY <1>1 DEF SkipEpisode, UpToDate
  <2>q. QED
    BY <1>0, <2>1, <2>2, TypeInvBy DEF TypeOK, Bounded, Asking
<1>2. ASSUME NEW s \in Sessions, NEW new \in Scene, UpsertThrows(s, new),
             UNCHANGED <<storeVars, watermark, core, distilled>>
      PROVE  TypeInv'
  BY <1>0, <1>2, UpsertTypes, TypeInvLeave DEF UpsertThrows, TypeOK
<1>3. ASSUME NEW s \in Sessions, NEW new \in Scene, UpsertDone(s, new),
             UNCHANGED <<storeVars, watermark, core, distilled, window, plan, coreIn>>,
             ~Asking, pc' \in {"episodes", "narrating"},
             scene' \in {scene, NotNarrating}, failed' \in BOOLEAN
      PROVE  TypeInv'
  <2>1. todo' \subseteq todo
    BY <1>3 DEF UpsertDone
  <2>2. ~Asking'
    BY <1>3 DEF Asking
  <2>q. QED
    BY <1>0, <1>3, <2>1, <2>2, UpsertTypes, InitialValues, TypeInvBy DEF TypeOK, Bounded
<1>4. ASSUME NEW s \in Sessions, Episode(s)
      PROVE  TypeInv'
  BY <1>0, <1>2, <1>3, <1>4, SceneTypes DEF Episode, Asking, TypeOK
<1>5. CASE ScenesToNarrate
  <2>1. /\ UNCHANGED <<storeVars, watermark, distilled, episodes, core, window, plan, scene,
                       failed, coreIn>>
        /\ ~Asking /\ ~Asking' /\ pc' = "narrating" /\ todo' \subseteq Sessions
    BY <1>5 DEF ScenesToNarrate, Asking, ActiveEpisodes
  <2>q. QED
    BY <1>0, <2>1, TypeInvBy DEF TypeOK, Bounded
<1>6. ASSUME NEW s \in Sessions, NarrateEmpty(s)
      PROVE  TypeInv'
  BY <1>0, <1>2, <1>3, <1>6, SceneTypes DEF NarrateEmpty, Asking, TypeOK
<1>7. ASSUME NEW s \in Sessions, AskTitle(s)
      PROVE  TypeInv'
  <2>1. /\ UNCHANGED <<storeVars, watermark, distilled, episodes, core, window, plan, todo,
                       failed, coreIn>>
        /\ ~Asking /\ ~Asking' /\ pc' = "title"
        /\ scene' = [session |-> s, live |-> Live(s)]
    BY <1>7 DEF AskTitle, Asking
  <2>2. /\ scene' \in [session : Sessions \cup {"none"}, live : SUBSET Atoms]
        /\ scene'.session \in Sessions
    BY <1>0, <2>1, SceneTypes
  <2>q. QED
    BY <1>0, <2>1, <2>2, TypeInvBy DEF TypeOK, Bounded
<1>8. CASE AskSummary
  <2>1. /\ UNCHANGED <<storeVars, watermark, distilled, episodes, core, window, plan, todo,
                       scene, failed, coreIn>>
        /\ ~Asking /\ ~Asking' /\ pc = "title" /\ pc' = "summary"
    BY <1>8 DEF AskSummary, Asking
  <2>q. QED
    BY <1>0, <2>1, TypeInvBy DEF TypeOK, Bounded
<1>9. ASSUME NEW to \in {"neither", "title", "both"}, pc \in {"title", "summary"},
             Narrated(to)
      PROVE  TypeInv'
  <2> DEFINE old == episodes[scene.session]
             ok == to = "both"
             new == [old EXCEPT
                       !.title   = IF to # "neither" THEN scene.live ELSE @,
                       !.summary = IF ok THEN scene.live ELSE @,
                       !.hash    = HashAfter(old, ok)]
  <2>1. scene.session \in Sessions /\ old \in Scene /\ scene.live \in SUBSET Atoms /\ ~Asking
    BY <1>0, <1>9 DEF TypeOK, Bounded, Asking
  <2>2. new \in Scene
    BY <2>1 DEF Scene, Text, HashAfter
  <2>3. /\ \/ /\ UpsertDone(scene.session, new)
              /\ pc' = "narrating"
              /\ scene' = NotNarrating
              /\ failed' = (failed \/ ~ok)
              /\ UNCHANGED <<window, plan, coreIn>>
           \/ UpsertThrows(scene.session, new)
        /\ UNCHANGED <<storeVars, watermark, core, distilled>>
    BY <1>9 DEF Narrated
  <2> HIDE DEF new
  <2>q. QED
    BY <1>0, <1>2, <1>3, <2>1, <2>2, <2>3 DEF TypeOK
<1>10. CASE Narrate \/ TitleFails \/ SummaryFails
  BY <1>9, <1>10 DEF Narrate, TitleFails, SummaryFails
<1>q. QED
  BY <1>1, <1>4, <1>5, <1>6, <1>7, <1>8, <1>10

LEMMA TypeInvStep == TypeInv /\ [Next]_vars => TypeInv'
<1> SUFFICES ASSUME TypeInv, [Next]_vars
             PROVE  TypeInv'
  OBVIOUS
<1>0. TypeOK /\ Bounded
  BY DEF TypeInv
<1>1. CASE AskCore
  <2>1. /\ UNCHANGED <<storeVars, watermark, distilled, episodes, core, window, plan, todo,
                       scene, failed>>
        /\ ~Asking /\ ~Asking' /\ pc' = "core" /\ coreIn' = CoreInput
    BY <1>1 DEF AskCore, Asking
  <2>q. QED
    BY <1>0, <2>1, CoreInputType, TypeInvBy DEF TypeOK, Bounded
<1>2. ASSUME Leave, dirty' \in BOOLEAN,
             core' \in {core, coreIn, CoreInput},
             UNCHANGED <<stream, appended, status, evidence, writes, watermark, episodes,
                         distilled>>
      PROVE  TypeInv'
  <2>1. core' \subseteq [session : Sessions, title : Text, live : SUBSET Atoms]
    BY <1>0, <1>2, CoreInputType DEF TypeOK
  <2>2. StoreTypeOK'
    BY <1>0, <1>2 DEF TypeOK, StoreTypeOK
  <2>3. TypeOK'
    BY <1>0, <1>2, <2>1, <2>2, LeaveTypes DEF TypeOK
  <2>q. QED
    BY <1>0, <1>2, <2>3, LeaveTypes DEF TypeInv, Bounded, Asking
<1>3. CASE CoreUpToDate \/ Synthesize \/ SynthesisFails
  BY <1>0, <1>2, <1>3 DEF CoreUpToDate, Synthesize, SynthesisFails, DirtyAfter, TypeOK
<1>4. CASE Crash
  BY <1>0, <1>4, TypeInvLeave DEF Crash, TypeOK
<1>5. CASE Foreground
  <2>1. StoreTypeOK' /\ stream' \subseteq stream /\ appended' = appended
    BY <1>0, <1>5, StoreWriteTypes DEF Foreground, TypeOK
  <2>2. UNCHANGED <<passVars, watermark, episodes, core, distilled>>
    BY <1>5 DEF Foreground
  <2>q. QED
    BY <1>0, <2>1, <2>2 DEF TypeInv, TypeOK, Bounded, Asking, passVars
<1>6. CASE Capture
  <2>1. PICK s \in Sessions : AddStream(s)
    BY <1>6 DEF Capture
  <2>2. /\ StoreTypeOK' /\ appended < appended' /\ appended' \in Nat /\ appended \in Nat
        /\ \A t \in stream' : t.id <= appended' /\ t.seq <= appended'
    BY <1>0, <2>1, AddStreamTypes DEF TypeOK, StoreTypeOK
  <2>3. UNCHANGED <<passVars, watermark, episodes, core, distilled>>
    BY <1>6 DEF Capture
  <2>4. \A t \in window' : t.id <= appended' /\ t.seq <= appended'
    BY <1>0, <2>2, <2>3 DEF TypeOK, Bounded, Turn, passVars
  <2>q. QED
    BY <1>0, <2>2, <2>3, <2>4 DEF TypeInv, TypeOK, Bounded, Asking, passVars
<1>7. CASE UNCHANGED vars
  BY <1>0, <1>7 DEF vars, storeVars, passVars, TypeInv, TypeOK, StoreTypeOK, Bounded, Asking
<1>q. QED
  BY <1>1, <1>3, <1>4, <1>5, <1>6, <1>7, TypeInvL1, TypeInvL2
  DEF Next, Progress, Failure

\* Every variable of the pass keeps its type, whatever the model answers and
\* whatever happens to the store meanwhile (core.ts:784-1503).
THEOREM PassTypeCorrect == Spec => []TypeOK
<1>1. TypeInv => TypeOK
  BY DEF TypeInv
<1>q. QED
  BY <1>1, TypeInvInit, TypeInvStep, PTL DEF Spec

-----------------------------------------------------------------------------
\* Narrations.

HasItsText(e) == e.hash \notin {NoText, {}} => e.summary = e.hash

LEMMA UpsertNarrated ==
  ASSUME TypeOK, HashIsNarrated, NEW s \in Sessions, NEW new \in Scene, HasItsText(new),
         UpsertDone(s, new) \/ UpsertThrows(s, new)
  PROVE  HashIsNarrated'
<1> DEFINE Drawn(r) == [new EXCEPT !.rendered = r]
<1>1. PICK r : episodes' = [episodes EXCEPT ![s] = Drawn(r)]
  BY DEF UpsertDone, UpsertThrows
<1>2. Drawn(r).hash = new.hash /\ Drawn(r).summary = new.summary
  BY DEF Scene
<1> HIDE DEF Drawn
<1>3. \A x \in Sessions : episodes'[x] = IF x = s THEN Drawn(r) ELSE episodes[x]
  BY <1>1 DEF TypeOK
<1>q. QED
  BY <1>2, <1>3 DEF HashIsNarrated, HasItsText

LEMMA HashIsNarratedStep == TypeInv /\ HashIsNarrated /\ [Next]_vars => HashIsNarrated'
<1> SUFFICES ASSUME TypeInv, HashIsNarrated, [Next]_vars
             PROVE  HashIsNarrated'
  OBVIOUS
<1>0. TypeOK /\ Bounded
  BY DEF TypeInv
<1>1. ASSUME episodes' = episodes
      PROVE  HashIsNarrated'
  BY <1>1 DEF HashIsNarrated
<1>2. ASSUME NEW s \in Sessions, Episode(s)
      PROVE  HashIsNarrated'
  <2>1. EpisodeOf(s).hash = episodes[s].hash /\ EpisodeOf(s).summary = episodes[s].summary
    BY <1>0 DEF EpisodeOf, TypeOK, Scene
  <2>2. HasItsText(EpisodeOf(s))
    BY <2>1 DEF HashIsNarrated, HasItsText
  <2>q. QED
    BY <1>0, <1>2, <2>2, SceneTypes, UpsertNarrated DEF Episode
<1>3. ASSUME NEW s \in Sessions, NarrateEmpty(s)
      PROVE  HashIsNarrated'
  <2> DEFINE new == [episodes[s] EXCEPT !.hash = {}]
  <2>1. new \in Scene /\ new.hash = {}
    BY <1>0, SceneTypes DEF TypeOK, Scene
  <2>2. UpsertDone(s, new) \/ UpsertThrows(s, new)
    BY <1>3 DEF NarrateEmpty
  <2> HIDE DEF new
  <2>q. QED
    BY <1>0, <2>1, <2>2, UpsertNarrated DEF HasItsText
<1>4. ASSUME NEW to \in {"neither", "title", "both"}, pc \in {"title", "summary"},
             Narrated(to)
      PROVE  HashIsNarrated'
  <2> DEFINE old == episodes[scene.session]
             ok == to = "both"
             new == [old EXCEPT
                       !.title   = IF to # "neither" THEN scene.live ELSE @,
                       !.summary = IF ok THEN scene.live ELSE @,
                       !.hash    = HashAfter(old, ok)]
  <2>1. scene.session \in Sessions /\ old \in Scene /\ scene.live \in SUBSET Atoms
    BY <1>0, <1>4 DEF TypeOK, Bounded
  <2>2. new \in Scene
    BY <2>1 DEF Scene, Text, HashAfter
  <2>3. /\ new.hash = IF ok THEN scene.live ELSE old.hash
        /\ new.summary = IF ok THEN scene.live ELSE old.summary
    BY <2>1 DEF Scene, HashAfter
  <2>4. HasItsText(new)
    BY <2>1, <2>3 DEF HashIsNarrated, HasItsText
  <2>5. UpsertDone(scene.session, new) \/ UpsertThrows(scene.session, new)
    BY <1>4 DEF Narrated
  <2> HIDE DEF new
  <2>q. QED
    BY <1>0, <2>1, <2>2, <2>4, <2>5, UpsertNarrated
<1>5. CASE Narrate \/ TitleFails \/ SummaryFails
  BY <1>4, <1>5 DEF Narrate, TitleFails, SummaryFails
<1>6. CASE \/ BeginExtract \/ BeginReconcile \/ Plan \/ CommitL1 \/ CommitAborts
           \/ PlanningFails \/ ScenesToNarrate \/ AskSummary \/ AskCore
           \/ CoreUpToDate \/ Synthesize \/ SynthesisFails
  BY <1>1, <1>6 DEF BeginExtract, BeginReconcile, Plan, CommitL1, CommitAborts, PlanningFails,
     ScenesToNarrate, AskSummary, AskCore, CoreUpToDate, Synthesize, SynthesisFails
<1>7. CASE \E s \in Sessions : SkipEpisode(s) \/ UpToDate(s) \/ AskTitle(s)
  BY <1>1, <1>7 DEF SkipEpisode, UpToDate, AskTitle
<1>8. CASE Crash \/ Foreground \/ Capture \/ UNCHANGED vars
  BY <1>1, <1>8 DEF Crash, Foreground, Capture, vars
<1>q. QED
  BY <1>2, <1>3, <1>5, <1>6, <1>7, <1>8 DEF Next, Progress, Failure

\* The content hash of a scene never moves past text that was not written
\* (core.ts:1301-1395), whichever calls fail and wherever the process dies.
THEOREM HashStandsForText == Spec => []HashIsNarrated
<1>1. Init => HashIsNarrated
  BY DEF Init, HashIsNarrated, NoScene
<1>q. QED
  BY <1>1, TypeInvInit, TypeInvStep, HashIsNarratedStep, PTL DEF Spec

-----------------------------------------------------------------------------
\* Turns and watermark.

\* A step that neither reads the window, commits it nor is a request's.
Quiet ==
  /\ UNCHANGED <<stream, appended, status, evidence, watermark, distilled>>
  /\ window' \in {window, {}}

LEMMA StepKinds ==
  [Next]_vars => BeginExtract \/ CommitL1 \/ Foreground \/ Capture \/ Quiet
<1> SUFFICES ASSUME [Next]_vars, ~BeginExtract, ~CommitL1, ~Foreground, ~Capture
             PROVE  Quiet
  OBVIOUS
<1>1. ASSUME NEW s \in Sessions,
             SkipEpisode(s) \/ Episode(s) \/ UpToDate(s) \/ NarrateEmpty(s) \/ AskTitle(s)
      PROVE  Quiet
  BY <1>1 DEF SkipEpisode, Episode, UpToDate, NarrateEmpty, AskTitle, UpsertDone,
              UpsertThrows, Leave, storeVars, Quiet
<1>2. CASE Narrate \/ TitleFails \/ SummaryFails
  BY <1>2 DEF Narrate, TitleFails, SummaryFails, Narrated, UpsertThrows, Leave, storeVars,
              Quiet
<1>3. CASE BeginReconcile \/ Plan \/ ScenesToNarrate \/ AskSummary \/ AskCore
  BY <1>3 DEF BeginReconcile, Plan, ScenesToNarrate, AskSummary, AskCore, storeVars, Quiet
<1>4. CASE \/ CommitAborts \/ PlanningFails \/ CoreUpToDate \/ Synthesize \/ SynthesisFails
           \/ Crash
  BY <1>4 DEF CommitAborts, PlanningFails, CoreUpToDate, Synthesize, SynthesisFails, Crash,
              Leave, storeVars, Quiet
<1>5. CASE UNCHANGED vars
  BY <1>5 DEF vars, storeVars, passVars, Quiet
<1>q. QED
  BY <1>1, <1>2, <1>3, <1>4, <1>5 DEF Next, Progress, Failure

\* An id names one turn, the window lies above the watermark and was never
\* distilled, and what was lies at or below it.
WindowInv ==
  /\ \A t, u \in stream \cup window : t.id = u.id => t = u
  /\ \A t \in window : t.seq > watermark /\ t.id \notin distilled
  /\ \A t \in stream : t.id \in distilled => t.seq <= watermark
  /\ \A i \in distilled : i <= appended

\* The watermark a commit moves to.
LEMMA NextWatermarkIs ==
  ASSUME TypeInv
  PROVE  /\ NextWatermark \in Nat
         /\ \A t \in window : t.seq <= NextWatermark
         /\ NextWatermark = 0 \/ \E t \in window : t.seq = NextWatermark
<1>1. appended \in Nat /\ \A t \in window : t.seq \in Nat /\ t.seq <= appended
  BY DEF TypeInv, TypeOK, StoreTypeOK, Bounded, Turn
<1>q. QED
  BY <1>1, HeadSeqIsMax DEF NextWatermark

LEMMA WindowInvStep == TypeInv /\ WindowInv /\ [Next]_vars => WindowInv'
<1> SUFFICES ASSUME TypeInv, WindowInv, [Next]_vars
             PROVE  WindowInv'
  OBVIOUS
<1>0. TypeOK /\ Bounded
  BY DEF TypeInv
<1>1. CASE BeginExtract
  <2>1. window' = Window /\ UNCHANGED <<stream, appended, watermark, distilled>>
    BY <1>1 DEF BeginExtract, storeVars
  <2>2. Window \subseteq stream /\ \A t \in Window : t.seq > watermark
    BY <1>0, WindowIs
  <2>3. \A t \in Window : t.id \notin distilled
    BY <1>0, <2>2 DEF WindowInv, TypeOK, StoreTypeOK, Turn
  <2>q. QED
    BY <2>1, <2>2, <2>3 DEF WindowInv
<1>2. CASE CommitL1
  <2>1. /\ window' = {} /\ UNCHANGED <<stream, appended>> /\ window # {}
        /\ watermark' = NextWatermark /\ distilled' = distilled \cup WindowIds
    BY <1>0, <1>2 DEF CommitL1, Bounded, Asking
  <2>2. watermark' >= watermark /\ watermark' \in Nat
    BY <1>0, <2>1, NextWatermarkIs DEF WindowInv, TypeOK, Turn
  <2>3. ASSUME NEW t \in stream, t.id \in WindowIds
        PROVE  t.seq <= watermark'
    <3>1. t \in window
      BY <2>3 DEF WindowIds, WindowInv
    <3>q. QED
      BY <2>1, <3>1, NextWatermarkIs
  <2>4. \A t \in stream : t.id \in distilled => t.seq <= watermark'
    BY <1>0, <2>2 DEF WindowInv, TypeOK, StoreTypeOK, Turn
  <2>5. \A i \in WindowIds : i <= appended
    BY <1>0 DEF WindowIds, Bounded
  <2>q. QED
    BY <2>1, <2>3, <2>4, <2>5 DEF WindowInv
<1>3. CASE Foreground
  <2>1. stream' \subseteq stream /\ appended' = appended
    BY <1>0, <1>3, StoreWriteTypes DEF Foreground, TypeOK
  <2>2. UNCHANGED <<window, watermark, distilled>>
    BY <1>3 DEF Foreground, passVars
  <2>q. QED
    BY <2>1, <2>2 DEF WindowInv
<1>4. CASE Capture
  <2>1. PICK s \in Sessions : AddStream(s)
    BY <1>4 DEF Capture
  <2> DEFINE new == [id |-> appended', seq |-> NextSeq, session |-> s]
  <2>2. /\ stream' = stream \cup {new} /\ appended' = appended + 1 /\ appended \in Nat
        /\ new.id = appended'
    BY <1>0, <2>1, AddStreamIs DEF TypeOK, StoreTypeOK
  <2> HIDE DEF new
  <2>3. UNCHANGED <<window, watermark, distilled>>
    BY <1>4 DEF Capture, passVars
  <2>4. \A t \in stream \cup window : t.id \in Nat /\ t.id # new.id
    BY <1>0, <2>2 DEF TypeOK, StoreTypeOK, Bounded, Turn
  <2>5. new.id \notin distilled /\ \A i \in distilled : i <= appended'
    BY <1>0, <2>2 DEF WindowInv, TypeOK
  <2>q. QED
    BY <2>2, <2>3, <2>4, <2>5 DEF WindowInv
<1>5. CASE Quiet
  BY <1>5 DEF Quiet, WindowInv
<1>q. QED
  BY <1>1, <1>2, <1>3, <1>4, <1>5, StepKinds

LEMMA CommitsOnce ==
  ASSUME TypeInv, WindowInv, CommitL1
  PROVE  WindowIds # {} /\ WindowIds \cap distilled = {}
<1>1. window # {}
  BY DEF CommitL1, TypeInv, Bounded, Asking
<1>q. QED
  BY <1>1 DEF WindowInv, WindowIds

-----------------------------------------------------------------------------
\* Evidence.

\* A status other than absent stays that, but for a hard delete, which takes
\* the edges of the atom with it.
LEMMA StoreWriteKeepsRooted == StoreTypeOK /\ EvidenceIsRooted /\ StoreWrite => EvidenceIsRooted'
<1> SUFFICES ASSUME StoreTypeOK, EvidenceIsRooted, StoreWrite
             PROVE  EvidenceIsRooted'
  OBVIOUS
<1>0. \A e \in evidence : e[1] \in Atoms
  BY DEF StoreTypeOK
<1>1. ASSUME UNCHANGED <<stream, evidence>>,
             \A a \in Atoms : status[a] # "absent" => status'[a] # "absent"
      PROVE  EvidenceIsRooted'
  BY <1>0, <1>1 DEF EvidenceIsRooted
<1>2. ASSUME NEW a \in Direct, UpsertAtom(a)
      PROVE  EvidenceIsRooted'
  BY <1>1, <1>2 DEF UpsertAtom, StoreTypeOK
<1>3. ASSUME NEW a \in Atoms, SupersedeAtom(a)
      PROVE  EvidenceIsRooted'
  BY <1>1, <1>3 DEF SupersedeAtom, StatusSet, StoreTypeOK
<1>4. ASSUME NEW losers \in SUBSET Atoms, MergeAtoms(losers)
      PROVE  EvidenceIsRooted'
  BY <1>1, <1>4 DEF MergeAtoms, StatusSet, StoreTypeOK
<1>5. ASSUME NEW a \in Atoms, ArchiveAtom(a)
      PROVE  EvidenceIsRooted'
  BY <1>1, <1>5 DEF ArchiveAtom, StoreTypeOK
<1>6. ASSUME NEW a \in Atoms, HardDeleteAtom(a)
      PROVE  EvidenceIsRooted'
  BY <1>0, <1>6 DEF HardDeleteAtom, StoreTypeOK, EvidenceIsRooted
<1>7. ASSUME NEW turns, DeleteStream(turns)
      PROVE  EvidenceIsRooted'
  BY <1>7 DEF DeleteStream, EvidenceIsRooted
<1>q. QED
  BY <1>2, <1>3, <1>4, <1>5, <1>6, <1>7 DEF StoreWrite

LEMMA RootedStep == TypeInv /\ EvidenceIsRooted /\ [Next]_vars => EvidenceIsRooted'
<1> SUFFICES ASSUME TypeInv, EvidenceIsRooted, [Next]_vars
             PROVE  EvidenceIsRooted'
  OBVIOUS
<1>0. StoreTypeOK
  BY DEF TypeInv, TypeOK
<1>1. CASE CommitL1
  <2>1. \A e \in evidence : e[1] \in Atoms
    BY <1>0 DEF StoreTypeOK
  <2>2. \A a \in Atoms : status[a] # "absent" \/ a \in Winners => status'[a] # "absent"
    BY <1>1, CommitEffect
  <2>3. /\ evidence' \in SUBSET (Atoms \X Nat)
        /\ \A e \in evidence' \ evidence :
             /\ e[1] \in Winners
             /\ e[2] \in WindowIds \/ \E f \in evidence : f[2] = e[2]
    BY <1>1, CommitEffect
  <2>4. stream' = stream /\ (Winners # {} => window \subseteq stream)
    BY <1>1 DEF CommitL1, Dangling
  <2>5. ASSUME NEW e \in evidence' \ evidence
        PROVE  status'[e[1]] # "absent" /\ \E t \in stream : t.id = e[2]
    <3>1. e[1] \in Winners /\ e[1] \in Atoms
      BY <2>3
    <3>2. e[2] \in WindowIds => \E t \in stream : t.id = e[2]
      BY <2>4, <3>1 DEF WindowIds
    <3>3. (\E f \in evidence : f[2] = e[2]) => \E t \in stream : t.id = e[2]
      BY DEF EvidenceIsRooted
    <3>4. status'[e[1]] # "absent"
      BY <2>2, <3>1
    <3>5. e[2] \in WindowIds \/ \E f \in evidence : f[2] = e[2]
      BY <2>3
    <3>q. QED
      BY <3>2, <3>3, <3>4, <3>5
  <2>6. ASSUME NEW e \in evidence
        PROVE  status'[e[1]] # "absent" /\ \E t \in stream : t.id = e[2]
    <3>1. e[1] \in Atoms /\ status[e[1]] # "absent" /\ \E t \in stream : t.id = e[2]
      BY <2>1 DEF EvidenceIsRooted
    <3>2. status'[e[1]] # "absent"
      BY <2>2, <3>1
    <3>q. QED
      BY <3>1, <3>2
  <2>q. QED
    BY <2>4, <2>5, <2>6 DEF EvidenceIsRooted
<1>2. CASE Foreground
  BY <1>0, <1>2, StoreWriteKeepsRooted DEF Foreground
<1>3. CASE Capture
  <2>1. PICK s \in Sessions : AddStream(s)
    BY <1>3 DEF Capture
  <2>q. QED
    BY <2>1 DEF AddStream, EvidenceIsRooted
<1>4. CASE BeginExtract
  BY <1>4 DEF BeginExtract, storeVars, EvidenceIsRooted
<1>5. CASE Quiet
  BY <1>5 DEF Quiet, EvidenceIsRooted
<1>q. QED
  BY <1>1, <1>2, <1>3, <1>4, <1>5, StepKinds

LEMMA CommitInherits ==
  ASSUME TypeInv, CommitL1, NEW i \in DOMAIN plan, NEW a \in ConsumedBy(plan[i]),
         NEW e \in evidence, e[1] = a
  PROVE  <<plan[i].new, e[2]>> \in evidence'
<1>1. StoreTypeOK /\ plan \in Seq(Op) /\ WindowIds \subseteq Nat
  BY DEF TypeInv, TypeOK, WindowIds, Turn
<1>2. /\ i \in 1..Len(plan) /\ i - 1 \in 0..Len(plan) /\ i \in 0..Len(plan)
      /\ Len(plan) \in 0..Len(plan)
  BY <1>1, PlanIndices
<1>3. plan[i] \in Op /\ plan[i].action # "skip" /\ a \in plan[i].targets
  BY <1>1, <1>2, PlanIndices DEF ConsumedBy
<1> DEFINE Before == Applied[i - 1].evidence
<1>4. Before \in SUBSET (Atoms \X Nat) /\ e \in Before
  BY <1>1, <1>2, AppliedEvidence
<1>5. Applied[i].evidence = EvidenceAfter(plan[i], Before)
  BY <1>1, <1>2, AppliedSteps
<1> HIDE DEF Before
<1>6. <<plan[i].new, e[2]>> \in Applied[i].evidence
  BY <1>1, <1>3, <1>4, <1>5, EvidenceAfterIs
<1>7. Applied[i].evidence \subseteq Applied[Len(plan)].evidence
  BY <1>1, <1>2, AppliedEvidence
<1>q. QED
  BY <1>6, <1>7 DEF CommitL1

\* What the transaction of a pass commits is sound (core.ts:946-1091), for any
\* plan the model came to and whatever requests, failures and crashes there
\* were before it.
THEOREM L1IsSound == Spec => CommitsAreSound
<1>1. Init => WindowInv /\ EvidenceIsRooted
  BY DEF Init, StoreInit, WindowInv, EvidenceIsRooted
<1>2. TypeInv /\ WindowInv /\ [Next]_vars =>
        [CommitL1 => WindowIds # {} /\ WindowIds \cap distilled = {}]_vars
  BY CommitsOnce
<1>3. TypeInv /\ [Next]_vars =>
        [CommitL1 =>
           \A a \in Atoms : status'[a] \notin {status[a], "active"} =>
                              status[a] = "active"]_vars
  BY CommitEffect
<1>4. TypeInv /\ [Next]_vars =>
        [CommitL1 =>
           \A i \in DOMAIN plan : \A a \in ConsumedBy(plan[i]) :
              \A e \in evidence : e[1] = a =>
                                    <<plan[i].new, e[2]>> \in evidence']_vars
  BY CommitInherits
<1>q. QED
  BY <1>1, <1>2, <1>3, <1>4, TypeInvInit, TypeInvStep, WindowInvStep, RootedStep, PTL
  DEF Spec, CommitsAreSound, DistilledOnce, ConsumesOnlyActive, ProvenanceInherited

-----------------------------------------------------------------------------
\* Turns that are passed over.

\* The watermark is the seq of a turn that is there, so new turns come above it,
\* and the window has no gap.
SkipInv ==
  /\ IsFiniteSet(stream)
  /\ watermark = 0 \/ \E t \in stream : t.seq = watermark
  /\ window \subseteq stream
  /\ \A t \in stream : t.seq > 0
  /\ \A t \in stream, u \in window :
       t.seq > watermark /\ t.seq <= u.seq => t \in window
  /\ NothingSkipped

\* The first turns by seq: one that is not later than one of them is one.
LEMMA FirstIsClosed ==
  ASSUME NEW turns, IsFiniteSet(turns), \A t \in turns : t.seq \in Nat,
         NEW t \in turns, NEW u \in FirstOf(turns), t.seq <= u.seq
  PROVE  t \in FirstOf(turns)
<1> DEFINE Before(x) == {y \in turns : y.seq < x.seq}
<1>1. u \in turns /\ Cardinality(Before(u)) < WindowSize
  BY DEF FirstOf
<1>2. Before(t) \subseteq Before(u)
  BY <1>1
<1>3. IsFiniteSet(Before(u))
  BY FS_Subset
<1>4. /\ IsFiniteSet(Before(t)) /\ Cardinality(Before(t)) <= Cardinality(Before(u))
  BY <1>2, <1>3, FS_Subset
<1>5. Cardinality(Before(t)) \in Nat /\ Cardinality(Before(u)) \in Nat
  BY <1>3, <1>4, FS_CardinalityType
<1>6. Cardinality(Before(t)) < WindowSize
  BY <1>1, <1>4, <1>5, PassAssumption
<1>q. QED
  BY <1>6 DEF FirstOf

TurnsStay == "delete turns" \notin Writes

LEMMA WritesKeepTurns ==
  ASSUME TurnsStay, StoreWrite
  PROVE  stream' = stream
BY DEF TurnsStay, StoreWrite, UpsertAtom, SupersedeAtom, MergeAtoms, ArchiveAtom, HardDeleteAtom,
       DeleteStream, Write

LEMMA SkipInvStep ==
  TurnsStay /\ TypeInv /\ WindowInv /\ SkipInv /\ [Next]_vars => SkipInv'
<1> SUFFICES ASSUME TurnsStay, TypeInv, WindowInv, SkipInv, [Next]_vars
             PROVE  SkipInv'
  OBVIOUS
<1>0. TypeOK /\ Bounded
  BY DEF TypeInv
<1>a. watermark \in Nat /\ appended \in Nat
  BY DEF TypeInv, TypeOK, StoreTypeOK
<1>b. \A t \in stream \cup window : t.seq \in Nat
  BY DEF TypeInv, TypeOK, StoreTypeOK, Turn
<1>1. CASE BeginExtract
  <2>1. window' = Window /\ UNCHANGED <<stream, watermark, distilled>>
    BY <1>1 DEF BeginExtract, storeVars
  <2>2. Window \subseteq stream
    BY <1>0, WindowIs
  <2>3. ASSUME NEW t \in stream, NEW u \in Window, t.seq > watermark, t.seq <= u.seq
        PROVE  t \in Window
    <3> DEFINE N == {x \in stream : x.seq > watermark}
    <3>1. IsFiniteSet(N) /\ t \in N /\ \A x \in N : x.seq \in Nat
      BY <1>b, <2>3, FS_Subset DEF SkipInv
    <3>2. Window = FirstOf(N)
      BY DEF Window
    <3> HIDE DEF N
    <3>q. QED
      BY <2>3, <3>1, <3>2, FirstIsClosed
  <2>q. QED
    BY <2>1, <2>2, <2>3 DEF SkipInv, NothingSkipped
<1>2. CASE CommitL1
  <2>1. /\ window' = {} /\ UNCHANGED stream /\ window # {}
        /\ watermark' = NextWatermark /\ distilled' = distilled \cup WindowIds
    BY <1>0, <1>2 DEF CommitL1, Bounded, Asking
  <2>2. PICK u \in window : u.seq = watermark'
    <3>1. PICK v \in window : v.seq > watermark /\ v.seq <= NextWatermark
      BY <2>1, NextWatermarkIs DEF WindowInv
    <3>2. NextWatermark # 0
      BY <1>a, <1>b, <3>1
    <3>q. QED
      BY <2>1, <3>2, NextWatermarkIs
  <2>3. u \in stream
    BY <2>2 DEF SkipInv
  <2>4. ASSUME NEW t \in stream, t.seq <= watermark'
        PROVE  t.id \in distilled'
    <3>1. CASE t.seq <= watermark
      BY <2>1, <3>1 DEF SkipInv, NothingSkipped
    <3>2. CASE t.seq > watermark
      <4>1. t \in window
        BY <2>2, <2>4, <3>2 DEF SkipInv
      <4>q. QED
        BY <2>1, <4>1 DEF WindowIds
    <3>3. t.seq \in Nat
      BY <1>b
    <3>q. QED
      BY <1>a, <3>1, <3>2, <3>3
  <2>q. QED
    BY <2>1, <2>2, <2>3, <2>4 DEF SkipInv, NothingSkipped
<1>3. CASE Foreground
  <2>1. UNCHANGED <<stream, window, watermark, distilled>>
    BY <1>3, WritesKeepTurns DEF Foreground, passVars
  <2>q. QED
    BY <2>1 DEF SkipInv, NothingSkipped
<1>4. CASE Capture
  <2>1. PICK s \in Sessions : AddStream(s)
    BY <1>4 DEF Capture
  <2> DEFINE new == [id |-> appended', seq |-> NextSeq, session |-> s]
  <2>2. /\ NextSeq \in 1..(appended + 1) /\ \A t \in stream : t.seq < NextSeq
        /\ stream' = stream \cup {new}
    BY <2>1, AddStreamIs
  <2>6. NextSeq \in Nat /\ NextSeq > 0 /\ new.seq = NextSeq
    BY <1>a, <2>2
  <2> HIDE DEF new
  <2>3. UNCHANGED <<window, watermark, distilled>>
    BY <1>4 DEF Capture, passVars
  <2>4. IsFiniteSet(stream')
    BY <2>2, FS_AddElement DEF SkipInv
  <2>5. new.seq > watermark /\ \A u \in window : u.seq < new.seq
    BY <1>a, <1>b, <2>2, <2>6 DEF SkipInv
  <2>7. watermark' = 0 \/ \E t \in stream' : t.seq = watermark'
    BY <2>2, <2>3 DEF SkipInv
  <2>8. \A t \in stream', u \in window' :
          t.seq > watermark' /\ t.seq <= u.seq => t \in window'
    BY <1>a, <1>b, <2>2, <2>3, <2>5, <2>6 DEF SkipInv
  <2>9. NothingSkipped'
    BY <1>a, <1>b, <2>2, <2>3, <2>5, <2>6 DEF SkipInv, NothingSkipped
  <2>q. QED
    BY <2>2, <2>3, <2>4, <2>6, <2>7, <2>8, <2>9 DEF SkipInv
<1>5. CASE Quiet
  BY <1>5 DEF Quiet, SkipInv, NothingSkipped
<1>q. QED
  BY <1>1, <1>2, <1>3, <1>4, <1>5, StepKinds

\* No turn is passed over for ever (core.ts:1023-1030, falda.ts queryStreamSeq):
\* in a store whose turns are never deleted all turns up to the watermark were
\* distilled, whatever else is written, fails or dies.
THEOREM NoTurnIsSkipped ==
  ASSUME "delete turns" \notin Writes
  PROVE  Spec => []NothingSkipped
<1>0. TurnsStay
  BY DEF TurnsStay
<1>1. Init => WindowInv
  BY DEF Init, StoreInit, WindowInv
<1>2. Init => SkipInv
  BY FS_EmptySet DEF Init, StoreInit, SkipInv, NothingSkipped
<1>3. TypeInv /\ WindowInv /\ SkipInv /\ [Next]_vars => SkipInv'
  BY <1>0, SkipInvStep
<1>4. SkipInv => NothingSkipped
  BY DEF SkipInv
<1>q. QED
  BY <1>1, <1>2, <1>3, <1>4, TypeInvInit, TypeInvStep, WindowInvStep, PTL DEF Spec

-----------------------------------------------------------------------------
\* Layers.

\* Atoms change only between passes, only calls of the model fail, and no atom
\* loses its row.
Undisturbed == Overlap = FALSE /\ Faults \subseteq {"llm"}

RowsStay == "hard delete" \notin Writes

EpisodeCurrent(s) ==
  /\ episodes[s].members = ActiveAtomsOf(s)
  /\ episodes[s].status = "active" <=> ActiveAtomsOf(s) # {}

SceneCurrent(s) ==
  /\ episodes[s].hash = Live(s)
  /\ Live(s) # {} => episodes[s].summary = Live(s)
  /\ episodes[s].rendered

\* Evidence belongs to what the distiller extracted, members have rows, and a
\* scene that is there was indexed.
RowsOK ==
  /\ \A e \in evidence : e[1] \in Candidates
  /\ \A s \in Sessions :
       /\ episodes[s].members \subseteq Candidates
       /\ \A a \in episodes[s].members : status[a] # "absent"
       /\ episodes[s].status = "absent" => episodes[s].members = {}
       /\ episodes[s].status # "absent" => episodes[s].rendered

InL2 == pc \in {"committed", "episodes"}

Derived == pc \in {"narrating", "title", "summary", "core"}

WorthAsking == pc = "idle" \/ Asking

EpisodesDone == \A s \in EvidencedSessions \ todo : EpisodeCurrent(s)

AllEpisodes == \A s \in EvidencedSessions : EpisodeCurrent(s)

NarrationsDone == \A s \in ActiveEpisodes \ todo : SceneCurrent(s)

AllCurrent ==
  /\ AllEpisodes
  /\ \A s \in ActiveEpisodes : SceneCurrent(s)
  /\ core = CoreInput

\* A pass brings one layer after the other up to date, and what it has done
\* stays so to its end: the completeness gate clears the mark only then.
LayerInv ==
  /\ RowsOK
  /\ InL2 => EpisodesDone
  /\ Derived => AllEpisodes /\ (failed \/ NarrationsDone)
  /\ pc \in {"title", "summary"} => scene.live = Live(scene.session)
  /\ pc = "core" => todo = {} /\ coreIn = CoreInput
  /\ WorthAsking /\ ~dirty => AllCurrent

\* Who is active and what they trace from is as before.
SameView ==
  /\ evidence' = evidence
  /\ \A a \in Candidates : status'[a] = status[a]
  /\ \A e \in evidence, s \in Sessions : e[2] \in TurnsOf(s)' <=> e[2] \in TurnsOf(s)

LEMMA StillIsSameView == UNCHANGED <<stream, status, evidence>> => SameView
BY DEF SameView, TurnsOf

LEMMA CandidatesAreAtoms == Candidates \subseteq Atoms
BY DEF Atoms

\* ActiveAtomsOf and Live, by their elements.
LEMMA ActiveAtomsIs ==
  /\ \A s, a : a \in ActiveAtomsOf(s) <=>
       /\ a \in Atoms /\ status[a] = "active"
       /\ \E i \in TurnsOf(s) : <<a, i>> \in evidence
  /\ \A s, a : a \in ActiveAtomsOf(s)' <=>
       /\ a \in Atoms /\ status'[a] = "active"
       /\ \E i \in TurnsOf(s)' : <<a, i>> \in evidence'
BY DEF ActiveAtomsOf, Active

LEMMA SameEpisodes ==
  ASSUME RowsOK, SameView
  PROVE  /\ \A s \in Sessions : ActiveAtomsOf(s)' = ActiveAtomsOf(s)
         /\ EvidencedSessions' = EvidencedSessions
<1>1. ASSUME NEW s \in Sessions, NEW a, NEW i, <<a, i>> \in evidence
      PROVE  i \in TurnsOf(s)' <=> i \in TurnsOf(s)
  <2> DEFINE e == <<a, i>>
  <2>1. e \in evidence /\ e[2] = i
    BY <1>1
  <2> HIDE DEF e
  <2>q. QED
    BY <2>1 DEF SameView
<1>2. ASSUME NEW s \in Sessions, NEW a, NEW i, <<a, i>> \in evidence
      PROVE  status'[a] = status[a]
  <2> DEFINE e == <<a, i>>
  <2>1. e \in evidence /\ e[1] = a
    BY <1>2
  <2> HIDE DEF e
  <2>q. QED
    BY <2>1 DEF SameView, RowsOK
<1>3. evidence' = evidence
  BY DEF SameView
<1>4. ASSUME NEW s \in Sessions
      PROVE  ActiveAtomsOf(s)' = ActiveAtomsOf(s)
  <2>1. \A a : a \in ActiveAtomsOf(s)' <=> a \in ActiveAtomsOf(s)
    BY <1>1, <1>2, <1>3, ActiveAtomsIs
  <2>q. QED
    BY <2>1
<1>5. EvidencedSessions' = EvidencedSessions
  BY <1>1, <1>3 DEF EvidencedSessions
<1>q. QED
  BY <1>4, <1>5

LEMMA SameLive ==
  ASSUME RowsOK, SameView, NEW s \in Sessions,
         episodes'[s].members = episodes[s].members
  PROVE  Live(s)' = Live(s)
<1>1. \A a \in episodes[s].members :
        a \in Atoms /\ (status'[a] = "active" <=> status[a] = "active")
  BY CandidatesAreAtoms DEF RowsOK, SameView
<1>2. /\ \A a : a \in Live(s) <=>
             a \in episodes[s].members /\ a \in Atoms /\ status[a] = "active"
      /\ \A a : a \in Live(s)' <=>
             a \in episodes'[s].members /\ a \in Atoms /\ status'[a] = "active"
  BY DEF Live, Active
<1>3. \A a : a \in Live(s)' <=> a \in Live(s)
  BY <1>1, <1>2
<1>q. QED
  BY <1>3

CoreRow(s) == [session |-> s, title |-> episodes[s].title, live |-> Live(s)]

LEMMA CoreInputIs ==
  /\ CoreInput = {CoreRow(s) : s \in ActiveEpisodes}
  /\ CoreInput' = {CoreRow(s)' : s \in ActiveEpisodes'}
BY DEF CoreInput, CoreRow

LEMMA SameScenes ==
  ASSUME RowsOK, SameView, episodes' = episodes
  PROVE  /\ \A s \in Sessions : EpisodeCurrent(s)' <=> EpisodeCurrent(s)
         /\ \A s \in Sessions : SceneCurrent(s)' <=> SceneCurrent(s)
         /\ \A s \in Sessions : Live(s)' = Live(s)
         /\ EvidencedSessions' = EvidencedSessions
         /\ ActiveEpisodes' = ActiveEpisodes /\ ActiveEpisodes \subseteq Sessions
         /\ CoreInput' = CoreInput
<1>1. \A s \in Sessions : Live(s)' = Live(s)
  BY SameLive
<1>2. \A s \in Sessions : ActiveAtomsOf(s)' = ActiveAtomsOf(s)
  BY SameEpisodes
<1>3. \A s \in Sessions : EpisodeCurrent(s)' <=> EpisodeCurrent(s)
  BY <1>2 DEF EpisodeCurrent
<1>4. \A s \in Sessions : SceneCurrent(s)' <=> SceneCurrent(s)
  BY <1>1 DEF SceneCurrent
<1>5. ActiveEpisodes' = ActiveEpisodes /\ ActiveEpisodes \subseteq Sessions
  BY DEF ActiveEpisodes
<1>6. \A s \in Sessions : CoreRow(s)' = CoreRow(s)
  BY <1>1 DEF CoreRow
<1>7. CoreInput' = CoreInput
  BY <1>5, <1>6, CoreInputIs
<1>q. QED
  BY <1>1, <1>3, <1>4, <1>5, <1>7, SameEpisodes

\* A step that changes nothing the layers are made from: what was done stays
\* done.
LEMMA SameLayers ==
  ASSUME RowsOK, SameView, UNCHANGED <<episodes, core>>
  PROVE  /\ AllEpisodes' <=> AllEpisodes
         /\ AllCurrent' <=> AllCurrent
         /\ todo' = todo => /\ EpisodesDone' <=> EpisodesDone
                            /\ NarrationsDone' <=> NarrationsDone
<1>0. episodes' = episodes /\ core' = core
  OBVIOUS
<1>1. EvidencedSessions \subseteq Sessions
  BY SessionsOfEvidence
<1>2. /\ \A s \in Sessions : /\ EpisodeCurrent(s)' <=> EpisodeCurrent(s)
                             /\ SceneCurrent(s)' <=> SceneCurrent(s)
      /\ EvidencedSessions' = EvidencedSessions
      /\ ActiveEpisodes' = ActiveEpisodes /\ ActiveEpisodes \subseteq Sessions
      /\ CoreInput' = CoreInput
  BY <1>0, SameScenes
<1>3. AllEpisodes' <=> AllEpisodes
  BY <1>1, <1>2 DEF AllEpisodes
<1>4. AllCurrent' <=> AllCurrent
  BY <1>0, <1>2, <1>3 DEF AllCurrent
<1>q. QED
  BY <1>1, <1>2, <1>3, <1>4 DEF EpisodesDone, NarrationsDone

\* A step of another process.
LEMMA LayerInvSame ==
  ASSUME TypeInv, LayerInv, RowsOK', SameView, UNCHANGED <<passVars, episodes, core, dirty>>
  PROVE  LayerInv'
<1>1. RowsOK
  BY DEF LayerInv
<1>2. /\ UNCHANGED <<pc, todo, scene, failed, coreIn, core, dirty, episodes>>
      /\ Asking' <=> Asking
  BY DEF passVars, Asking
<1>3. pc \in {"title", "summary"} => Live(scene.session)' = Live(scene.session)
  <2> SUFFICES ASSUME pc \in {"title", "summary"}
               PROVE  Live(scene.session)' = Live(scene.session)
    OBVIOUS
  <2>1. scene' = scene /\ scene.session \in Sessions
    BY <1>2 DEF TypeInv, Bounded
  <2> DEFINE s == scene.session
  <2>2. \A x \in Sessions : Live(x)' = Live(x)
    BY <1>1, <1>2, SameScenes
  <2>3. Live(scene.session)' = episodes'[scene'.session].members \cap Active'
    BY DEF Live
  <2>4. Live(s)' = Live(s)
    BY <2>1, <2>2
  <2>q. QED
    BY <1>2, <2>1, <2>4 DEF Live
<1>4. CoreInput' = CoreInput
  BY <1>1, <1>2, SameScenes
<1>q. QED
  BY <1>1, <1>2, <1>3, <1>4, SameLayers DEF LayerInv, InL2, Derived, WorthAsking

LEMMA RowsOKSame ==
  ASSUME RowsOK, UNCHANGED <<status, evidence, episodes>>
  PROVE  RowsOK'
BY DEF RowsOK

\* Rows and edges between passes: what the layers are made from changes only
\* together with the mark.
LEMMA StoreWriteEffect ==
  ASSUME RowsStay, StoreTypeOK, StoreWrite
  PROVE  /\ evidence' \subseteq evidence
         /\ \A a \in Atoms : status[a] # "absent" => status'[a] # "absent"
         /\ dirty' = TRUE \/ (SameView /\ dirty' = dirty)
<1> DEFINE Fine == /\ evidence' \subseteq evidence
                   /\ \A a \in Atoms : status[a] # "absent" => status'[a] # "absent"
                   /\ dirty' = TRUE \/ (SameView /\ dirty' = dirty)
<1>1. ASSUME NEW a \in Direct, UpsertAtom(a)
      PROVE  Fine
  <2>1. /\ status' = [status EXCEPT ![a] = "active"]
        /\ UNCHANGED <<stream, evidence, dirty>>
    BY <1>1 DEF UpsertAtom
  <2>2. \A c \in Atoms : status'[c] = IF c = a THEN "active" ELSE status[c]
    BY <2>1 DEF StoreTypeOK
  <2>3. \A c \in Candidates : status'[c] = status[c]
    BY <2>2, StoreAssumption, CandidatesAreAtoms
  <2>4. SameView
    BY <2>1, <2>3 DEF SameView, TurnsOf
  <2>q. QED
    BY <2>1, <2>2, <2>4
<1>2. ASSUME NEW ids, NEW to \in {"superseded", "merged"}, status' = StatusSet(ids, to),
             dirty' = TRUE, evidence' = evidence
      PROVE  Fine
  BY <1>2 DEF StatusSet
<1>3. ASSUME NEW a \in Atoms, SupersedeAtom(a)
      PROVE  Fine
  BY <1>2, <1>3 DEF SupersedeAtom
<1>4. ASSUME NEW losers \in SUBSET Atoms, MergeAtoms(losers)
      PROVE  Fine
  BY <1>2, <1>4 DEF MergeAtoms
<1>5. ASSUME NEW a \in Atoms, ArchiveAtom(a)
      PROVE  Fine
  BY <1>5 DEF ArchiveAtom, StoreTypeOK
<1>6. \A a : ~HardDeleteAtom(a)
  BY DEF RowsStay, HardDeleteAtom, Write
<1>7. ASSUME NEW turns, DeleteStream(turns)
      PROVE  Fine
  <2>1. /\ stream' = stream \ turns /\ status' = status
        /\ evidence' = {e \in evidence : \A t \in turns : e[2] # t.id}
        /\ dirty' = (dirty \/ evidence' # evidence)
    BY <1>7 DEF DeleteStream
  <2>2. ASSUME evidence' = evidence
        PROVE  SameView
    <3>1. ASSUME NEW e \in evidence, NEW s \in Sessions
          PROVE  e[2] \in TurnsOf(s)' <=> e[2] \in TurnsOf(s)
      <4>1. \A t \in turns : e[2] # t.id
        BY <2>1, <2>2
      <4>q. QED
        BY <2>1, <4>1 DEF TurnsOf
    <3>q. QED
      BY <2>1, <2>2, <3>1 DEF SameView
  <2>3. CASE evidence' = evidence
    <3>1. dirty' = dirty
      BY <2>1, <2>3 DEF StoreTypeOK
    <3>q. QED
      BY <2>1, <2>2, <2>3, <3>1
  <2>4. CASE evidence' # evidence
    BY <2>1, <2>4
  <2>q. QED
    BY <2>3, <2>4
<1> HIDE DEF Fine
<1>8. Fine
  BY <1>1, <1>3, <1>4, <1>5, <1>6, <1>7 DEF StoreWrite
<1>q. QED
  BY <1>8 DEF Fine

\* Rows are only added, and so are members' rows.
LEMMA RowsOKBy ==
  ASSUME RowsOK, episodes' = episodes,
         \A e \in evidence' : e[1] \in Candidates,
         \A a \in Atoms : status[a] # "absent" => status'[a] # "absent"
  PROVE  RowsOK'
<1>1. ASSUME NEW s \in Sessions
      PROVE  \A a \in episodes[s].members : status'[a] # "absent"
  <2>1. \A a \in episodes[s].members : a \in Atoms /\ status[a] # "absent"
    BY CandidatesAreAtoms DEF RowsOK
  <2>q. QED
    BY <2>1
<1>q. QED
  BY <1>1 DEF RowsOK

LEMMA LayersForeground ==
  ASSUME Undisturbed, RowsStay, TypeInv, LayerInv, Foreground
  PROVE  LayerInv'
<1>1. pc = "idle" /\ StoreWrite /\ UNCHANGED <<passVars, episodes, core>>
  BY DEF Foreground, Undisturbed
<1>2. StoreTypeOK /\ RowsOK
  BY DEF TypeInv, TypeOK, LayerInv
<1>3. /\ evidence' \subseteq evidence
      /\ \A a \in Atoms : status[a] # "absent" => status'[a] # "absent"
      /\ dirty' = TRUE \/ (SameView /\ dirty' = dirty)
  BY <1>1, <1>2, StoreWriteEffect
<1>4. RowsOK'
  <2>1. \A e \in evidence' : e[1] \in Candidates
    BY <1>2, <1>3 DEF RowsOK
  <2>q. QED
    BY <1>1, <1>2, <1>3, <2>1, RowsOKBy
<1>5. CASE dirty' = TRUE
  <2>1. pc' = "idle"
    BY <1>1 DEF passVars
  <2>q. QED
    BY <1>4, <1>5, <2>1 DEF LayerInv, InL2, Derived
<1>6. CASE SameView /\ dirty' = dirty
  BY <1>1, <1>4, <1>6, LayerInvSame
<1>q. QED
  BY <1>3, <1>5, <1>6

LEMMA LayersCapture ==
  ASSUME TypeInv, EvidenceIsRooted, LayerInv, Capture
  PROVE  LayerInv'
<1>1. PICK s \in Sessions : AddStream(s)
  BY DEF Capture
<1> DEFINE new == [id |-> appended', seq |-> NextSeq, session |-> s]
<1>2. /\ stream' = stream \cup {new} /\ new.id = appended'
      /\ appended' = appended + 1 /\ appended \in Nat
      /\ UNCHANGED <<status, evidence, dirty>>
  BY <1>1, AddStreamIs DEF TypeInv, TypeOK, StoreTypeOK
<1> HIDE DEF new
<1>3. ASSUME NEW e \in evidence, NEW x \in Sessions
      PROVE  e[2] \in TurnsOf(x)' <=> e[2] \in TurnsOf(x)
  <2>1. PICK t \in stream : t.id = e[2]
    BY DEF EvidenceIsRooted
  <2>2. t.id \in Nat /\ t.id <= appended
    BY DEF TypeInv, TypeOK, StoreTypeOK, Bounded, Turn
  <2>3. e[2] # new.id
    BY <1>2, <2>1, <2>2
  <2>q. QED
    BY <1>2, <2>3 DEF TurnsOf
<1>4. SameView
  BY <1>2, <1>3 DEF SameView
<1>5. RowsOK'
  BY <1>2, RowsOKSame DEF LayerInv, Capture
<1>q. QED
  BY <1>2, <1>4, <1>5, LayerInvSame DEF Capture

\* A step that ends, begins or goes on with a pass before its commit, and one
\* that ends it with the store marked.
LEMMA LayersBefore ==
  ASSUME LayerInv, UNCHANGED <<storeVars, episodes, core>>,
         BeginExtract \/ Plan \/ PlanningFails \/ CommitAborts \/ BeginReconcile
  PROVE  LayerInv'
<1>1. RowsOK /\ RowsOK' /\ SameView
  BY RowsOKSame, StillIsSameView DEF LayerInv, storeVars
<1>2. (AllCurrent' <=> AllCurrent) /\ dirty' = dirty
  BY <1>1, SameLayers DEF storeVars
<1>3. CASE BeginExtract \/ Plan \/ PlanningFails \/ CommitAborts
  <2>1. /\ WorthAsking
        /\ pc' \in {"idle", "planning", "planned"}
    BY <1>3 DEF BeginExtract, Plan, PlanningFails, CommitAborts, Leave, WorthAsking, Asking
  <2>q. QED
    BY <1>1, <1>2, <2>1 DEF LayerInv, InL2, Derived, WorthAsking, Asking
<1>4. CASE BeginReconcile
  <2>1. pc' = "committed" /\ todo' = EvidencedSessions
    BY <1>4 DEF BeginReconcile
  <2>2. EvidencedSessions' = EvidencedSessions
    BY <1>1, SameEpisodes
  <2>3. EpisodesDone'
    BY <2>1, <2>2 DEF EpisodesDone
  <2>q. QED
    BY <1>1, <2>1, <2>3 DEF LayerInv, InL2, Derived, WorthAsking, Asking
<1>q. QED
  BY <1>3, <1>4

LEMMA LayersCommit ==
  ASSUME TypeInv, LayerInv, CommitL1
  PROVE  LayerInv'
<1>1. /\ \A a \in Atoms : status[a] # "absent" => status'[a] # "absent"
      /\ \A e \in evidence' \ evidence : e[1] \in Winners
  BY CommitEffect
<1>2. Winners \subseteq Candidates
  <2>1. plan \in Seq(Op)
    BY DEF TypeInv, TypeOK
  <2>2. \A i \in DOMAIN plan : plan[i] \in Op
    BY <2>1
  <2>3. \A op \in Op : op.new \in Candidates
    BY DEF Op
  <2>q. QED
    BY <2>2, <2>3 DEF Winners
<1>3. RowsOK
  BY DEF LayerInv
<1>4. \A e \in evidence' : e[1] \in Candidates
  BY <1>1, <1>2, <1>3 DEF RowsOK
<1>5. /\ pc' = "committed" /\ episodes' = episodes /\ todo' = EvidencedSessions'
  BY DEF CommitL1
<1>6. RowsOK'
  BY <1>1, <1>3, <1>4, <1>5, RowsOKBy
<1>7. EpisodesDone'
  BY <1>5 DEF EpisodesDone
<1>q. QED
  BY <1>5, <1>6, <1>7 DEF LayerInv, InL2, Derived, WorthAsking, Asking

\* A scene whose row is as before is as current as before.
LEMMA OneScene ==
  ASSUME RowsOK, SameView, NEW x \in Sessions, episodes'[x] = episodes[x]
  PROVE  /\ EpisodeCurrent(x)' <=> EpisodeCurrent(x)
         /\ SceneCurrent(x)' <=> SceneCurrent(x)
         /\ Live(x)' = Live(x)
<1>1. Live(x)' = Live(x) /\ ActiveAtomsOf(x)' = ActiveAtomsOf(x)
  BY SameLive, SameEpisodes
<1>q. QED
  BY <1>1 DEF EpisodeCurrent, SceneCurrent

\* Undisturbed, an upsert goes through.
LEMMA Upserted ==
  ASSUME Undisturbed, TypeOK, RowsOK, NEW s \in Sessions, NEW new \in Scene,
         new.members \subseteq Candidates,
         \A a \in new.members : status[a] # "absent",
         new.status = "absent" => new.members = {},
         UpsertDone(s, new) \/ UpsertThrows(s, new),
         UNCHANGED storeVars
  PROVE  /\ UpsertDone(s, new) /\ ~UpsertThrows(s, new)
         /\ todo' = todo \ {s}
         /\ episodes'[s] = [new EXCEPT !.rendered = TRUE]
         /\ \A x \in Sessions \ {s} : episodes'[x] = episodes[x]
         /\ RowsOK' /\ SameView
<1>1. ~UpsertThrows(s, new)
  BY DEF UpsertThrows, Linked, Undisturbed
<1>2. /\ UpsertDone(s, new)
      /\ todo' = todo \ {s}
      /\ episodes' = [episodes EXCEPT ![s] = [new EXCEPT !.rendered = TRUE]]
  BY <1>1 DEF UpsertDone
<1> DEFINE drawn == [new EXCEPT !.rendered = TRUE]
<1>3. drawn.members = new.members /\ drawn.status = new.status /\ drawn.rendered
  BY DEF Scene
<1>4. episodes' = [episodes EXCEPT ![s] = drawn]
  BY <1>2
<1> HIDE DEF drawn
<1>5. episodes'[s] = drawn /\ \A x \in Sessions \ {s} : episodes'[x] = episodes[x]
  BY <1>4 DEF TypeOK
<1>6. UNCHANGED <<stream, status, evidence>>
  BY DEF storeVars
<1>7. SameView
  BY <1>6, StillIsSameView
<1>8. ASSUME NEW x \in Sessions
      PROVE  /\ episodes'[x].members \subseteq Candidates
             /\ \A a \in episodes'[x].members : status'[a] # "absent"
             /\ episodes'[x].status = "absent" => episodes'[x].members = {}
             /\ episodes'[x].status # "absent" => episodes'[x].rendered
  BY <1>3, <1>5, <1>6 DEF RowsOK
<1>9. RowsOK'
  BY <1>6, <1>8 DEF RowsOK
<1>q. QED
  BY <1>1, <1>2, <1>5, <1>7, <1>9 DEF drawn

LEMMA LayersEpisodes ==
  ASSUME Undisturbed, TypeInv, LayerInv,
         NEW s \in Sessions, SkipEpisode(s) \/ Episode(s)
  PROVE  LayerInv'
<1>0. TypeOK /\ RowsOK /\ InL2 /\ EpisodesDone
  BY DEF TypeInv, LayerInv, SkipEpisode, Episode, InL2
<1>1. CASE SkipEpisode(s)
  <2>1. /\ pc' = pc /\ todo' = todo \ {s} /\ episodes' = episodes
        /\ UNCHANGED <<stream, status, evidence>>
    BY <1>1 DEF SkipEpisode, storeVars
  <2>2. RowsOK' /\ SameView
    BY <1>0, <2>1, RowsOKSame, StillIsSameView
  <2>3. EpisodeCurrent(s)
    BY <1>0, <1>1 DEF SkipEpisode, NoEpisode, EpisodeCurrent, RowsOK
  <2>4. /\ \A x \in Sessions : EpisodeCurrent(x)' <=> EpisodeCurrent(x)
        /\ EvidencedSessions' = EvidencedSessions /\ EvidencedSessions \subseteq Sessions
    BY <1>0, <2>1, <2>2, SameScenes, SessionsOfEvidence
  <2>5. EpisodesDone'
    BY <1>0, <2>1, <2>3, <2>4 DEF EpisodesDone
  <2>q. QED
    BY <1>0, <2>1, <2>2, <2>5 DEF LayerInv, InL2, Derived, WorthAsking, Asking
<1>2. CASE Episode(s)
  <2> DEFINE new == EpisodeOf(s)
  <2>1. /\ (UpsertDone(s, new) /\ pc' = "episodes") \/ UpsertThrows(s, new)
        /\ UNCHANGED storeVars
    BY <1>2 DEF Episode
  <2>2. /\ new \in Scene /\ new.members = ActiveAtomsOf(s)
        /\ new.status = IF ActiveAtomsOf(s) = {} THEN "retired" ELSE "active"
    BY <1>0, SceneTypes DEF EpisodeOf, TypeOK, Scene
  <2>3. new.members \subseteq Candidates /\ \A a \in new.members : status[a] # "absent"
    <3>1. ASSUME NEW a \in ActiveAtomsOf(s)
          PROVE  a \in Candidates /\ status[a] = "active"
      <4>1. PICK i \in TurnsOf(s) : <<a, i>> \in evidence
        BY ActiveAtomsIs
      <4> DEFINE e == <<a, i>>
      <4>2. e \in evidence /\ e[1] = a
        BY <4>1
      <4> HIDE DEF e
      <4>q. QED
        BY <1>0, <4>2, ActiveAtomsIs DEF RowsOK
    <3>q. QED
      BY <2>2, <3>1
  <2> HIDE DEF new
  <2>4. /\ pc' = "episodes" /\ todo' = todo \ {s}
        /\ episodes'[s] = [new EXCEPT !.rendered = TRUE]
        /\ \A x \in Sessions \ {s} : episodes'[x] = episodes[x]
        /\ RowsOK' /\ SameView
    BY <1>0, <2>1, <2>2, <2>3, Upserted
  <2>5. /\ \A x \in Sessions : ActiveAtomsOf(x)' = ActiveAtomsOf(x)
        /\ EvidencedSessions' = EvidencedSessions /\ EvidencedSessions \subseteq Sessions
    BY <1>0, <2>4, SameEpisodes, SessionsOfEvidence
  <2>6. EpisodeCurrent(s)'
    <3>1. episodes'[s].members = new.members /\ episodes'[s].status = new.status
      BY <2>2, <2>4 DEF Scene
    <3>q. QED
      BY <2>2, <2>5, <3>1 DEF EpisodeCurrent
  <2>7. \A x \in Sessions \ {s} : EpisodeCurrent(x)' <=> EpisodeCurrent(x)
    BY <1>0, <2>4, OneScene
  <2>8. EpisodesDone'
    BY <1>0, <2>4, <2>5, <2>6, <2>7 DEF EpisodesDone
  <2>q. QED
    BY <2>4, <2>8 DEF LayerInv, InL2, Derived, WorthAsking, Asking
<1>q. QED
  BY <1>1, <1>2

\* Text that is not there is not what a set of atoms is called.
LEMMA LiveIsText == \A s \in Sessions : Live(s) # NoText
BY PassAssumption DEF Live, Active, NoText

\* A step in the second half of a pass that leaves rows, scenes and core alone.
LEMMA LayersUnmoved ==
  ASSUME TypeInv, HashIsNarrated, LayerInv,
         \/ ScenesToNarrate
         \/ \E s \in Sessions : UpToDate(s) \/ AskTitle(s)
         \/ AskSummary \/ AskCore
  PROVE  LayerInv'
<1>1. UNCHANGED <<stream, status, evidence, episodes, core, failed, dirty>>
  BY DEF ScenesToNarrate, UpToDate, AskTitle, AskSummary, AskCore, storeVars
<1>2. RowsOK /\ RowsOK' /\ SameView
  BY <1>1, RowsOKSame, StillIsSameView DEF LayerInv
<1>3. /\ AllEpisodes' <=> AllEpisodes
      /\ todo' = todo => (NarrationsDone' <=> NarrationsDone)
  BY <1>1, <1>2, SameLayers
<1>4. /\ \A s \in Sessions : SceneCurrent(s)' <=> SceneCurrent(s)
      /\ \A s \in Sessions : Live(s)' = Live(s)
      /\ ActiveEpisodes' = ActiveEpisodes /\ ActiveEpisodes \subseteq Sessions
      /\ CoreInput' = CoreInput
  BY <1>1, <1>2, SameScenes
<1>5. CASE ScenesToNarrate
  <2>1. pc' = "narrating" /\ todo' = ActiveEpisodes /\ todo = {} /\ InL2
    BY <1>5 DEF ScenesToNarrate, InL2
  <2>2. AllEpisodes'
    BY <1>3, <2>1 DEF LayerInv, EpisodesDone, AllEpisodes
  <2>3. NarrationsDone'
    BY <1>4, <2>1 DEF NarrationsDone
  <2>q. QED
    BY <1>2, <2>1, <2>2, <2>3 DEF LayerInv, InL2, Derived, WorthAsking, Asking
<1>6. ASSUME NEW s \in Sessions, UpToDate(s)
      PROVE  LayerInv'
  <2>1. /\ pc = "narrating" /\ pc' = pc /\ todo' = todo \ {s}
        /\ episodes[s].hash = Live(s)
    BY <1>6 DEF UpToDate
  <2>2. s \in ActiveEpisodes => SceneCurrent(s)
    BY <1>2, <2>1, LiveIsText DEF SceneCurrent, RowsOK, ActiveEpisodes, HashIsNarrated
  <2>3. NarrationsDone => NarrationsDone'
    BY <1>4, <2>1, <2>2 DEF NarrationsDone
  <2>q. QED
    BY <1>1, <1>2, <1>3, <2>1, <2>3 DEF LayerInv, InL2, Derived, WorthAsking, Asking
<1>7. ASSUME NEW s \in Sessions, AskTitle(s)
      PROVE  LayerInv'
  <2>1. /\ pc = "narrating" /\ pc' = "title" /\ todo' = todo
        /\ scene' = [session |-> s, live |-> Live(s)]
    BY <1>7 DEF AskTitle
  <2>2. scene'.live = Live(s) /\ scene'.session = s
    BY <2>1
  <2>3. Live(scene.session)' = Live(s)
    BY <1>4, <2>2 DEF Live
  <2>q. QED
    BY <1>1, <1>2, <1>3, <2>1, <2>2, <2>3 DEF LayerInv, InL2, Derived, WorthAsking, Asking
<1>8. CASE AskSummary
  <2>1. pc = "title" /\ pc' = "summary" /\ todo' = todo /\ scene' = scene
    BY <1>8 DEF AskSummary
  <2>2. scene.session \in Sessions
    BY <2>1 DEF TypeInv, Bounded
  <2>3. Live(scene.session)' = Live(scene.session)
    BY <1>4, <2>1, <2>2 DEF Live
  <2>q. QED
    BY <1>1, <1>2, <1>3, <2>1, <2>3 DEF LayerInv, InL2, Derived, WorthAsking, Asking
<1>9. CASE AskCore
  <2>1. pc = "narrating" /\ pc' = "core" /\ todo' = todo /\ todo = {} /\ coreIn' = CoreInput
    BY <1>9 DEF AskCore
  <2>q. QED
    BY <1>1, <1>2, <1>3, <1>4, <2>1 DEF LayerInv, InL2, Derived, WorthAsking, Asking
<1>q. QED
  BY <1>5, <1>6, <1>7, <1>8, <1>9

\* A narration that goes through and keeps who is in the scene.
LEMMA LayersUpserted ==
  ASSUME Undisturbed, TypeInv, LayerInv, NEW s \in Sessions, NEW new \in Scene,
         new.members = episodes[s].members, new.status = episodes[s].status,
         (UpsertDone(s, new) /\ pc' = "narrating") \/ UpsertThrows(s, new),
         UNCHANGED <<storeVars, core>>, Derived,
         UpsertDone(s, new) =>
           \/ failed'
           \/ /\ failed' = failed
              /\ new.hash = Live(s)
              /\ Live(s) # {} => new.summary = Live(s)
  PROVE  LayerInv'
<1>0. TypeOK /\ RowsOK
  BY DEF TypeInv, LayerInv
<1>1. /\ new.members \subseteq Candidates
      /\ \A a \in new.members : status[a] # "absent"
      /\ new.status = "absent" => new.members = {}
  BY <1>0 DEF RowsOK
<1>2. UNCHANGED storeVars
  OBVIOUS
<1>3. /\ UpsertDone(s, new) /\ ~UpsertThrows(s, new)
      /\ todo' = todo \ {s}
      /\ episodes'[s] = [new EXCEPT !.rendered = TRUE]
      /\ \A x \in Sessions \ {s} : episodes'[x] = episodes[x]
      /\ RowsOK' /\ SameView
  BY <1>0, <1>1, <1>2, Upserted
<1> DEFINE drawn == [new EXCEPT !.rendered = TRUE]
<1>4. /\ drawn.members = new.members /\ drawn.status = new.status /\ drawn.rendered
      /\ drawn.hash = new.hash /\ drawn.summary = new.summary
  BY DEF Scene
<1>5. episodes'[s] = drawn
  BY <1>3
<1> HIDE DEF drawn
<1>6. pc' = "narrating"
  BY <1>3
<1>7. /\ \A x \in Sessions : ActiveAtomsOf(x)' = ActiveAtomsOf(x)
      /\ EvidencedSessions' = EvidencedSessions /\ EvidencedSessions \subseteq Sessions
  BY <1>0, <1>3, SameEpisodes, SessionsOfEvidence
<1>8. EpisodeCurrent(s)' <=> EpisodeCurrent(s)
  BY <1>4, <1>5, <1>7 DEF EpisodeCurrent
<1>9. \A x \in Sessions \ {s} : EpisodeCurrent(x)' <=> EpisodeCurrent(x)
  BY <1>0, <1>3, OneScene
<1>10. \A x \in Sessions \ {s} : SceneCurrent(x)' <=> SceneCurrent(x)
  BY <1>0, <1>3, OneScene
<1>11. AllEpisodes'
  BY <1>7, <1>8, <1>9 DEF LayerInv, AllEpisodes
<1>12. /\ ActiveEpisodes \subseteq Sessions /\ ActiveEpisodes' \subseteq Sessions
       /\ \A x \in Sessions \ {s} : x \in ActiveEpisodes' <=> x \in ActiveEpisodes
  BY <1>3 DEF ActiveEpisodes
<1>13. failed' \/ NarrationsDone'
  <2> SUFFICES ASSUME ~failed'
               PROVE  NarrationsDone'
    OBVIOUS
  <2>1. /\ failed' = failed
        /\ new.hash = Live(s)
        /\ Live(s) # {} => new.summary = Live(s)
    BY <1>3
  <2>2. Live(s)' = Live(s)
    BY <1>0, <1>3, <1>4, <1>5, SameLive
  <2>3. SceneCurrent(s)'
    BY <1>4, <1>5, <2>1, <2>2 DEF SceneCurrent
  <2>4. NarrationsDone
    BY <2>1 DEF LayerInv
  <2>q. QED
    BY <1>3, <1>10, <1>12, <2>3, <2>4 DEF NarrationsDone
<1>q. QED
  BY <1>3, <1>6, <1>11, <1>13 DEF LayerInv, InL2, Derived, WorthAsking, Asking

LEMMA LayersNarrated ==
  ASSUME Undisturbed, TypeInv, LayerInv,
         \/ \E s \in Sessions : NarrateEmpty(s)
         \/ Narrate \/ TitleFails \/ SummaryFails
  PROVE  LayerInv'
<1>0. TypeOK
  BY DEF TypeInv
<1>1. ASSUME NEW s \in Sessions, NarrateEmpty(s)
      PROVE  LayerInv'
  <2> DEFINE new == [episodes[s] EXCEPT !.hash = {}]
  <2>1. /\ new \in Scene /\ new.hash = {}
        /\ new.members = episodes[s].members /\ new.status = episodes[s].status
    BY <1>0, SceneTypes DEF TypeOK, Scene
  <2>2. /\ Live(s) = {} /\ Derived /\ UNCHANGED <<storeVars, core>>
        /\ \/ UpsertDone(s, new) /\ pc' = "narrating" /\ failed' = failed
           \/ UpsertThrows(s, new)
    BY <1>1 DEF NarrateEmpty, Derived
  <2> HIDE DEF new
  <2>3. ~UpsertThrows(s, new)
    BY <2>1, <2>2, Upserted, <1>0 DEF LayerInv, RowsOK
  <2>q. QED
    BY <2>1, <2>2, <2>3, LayersUpserted
<1>2. ASSUME NEW to \in {"neither", "title", "both"}, pc \in {"title", "summary"},
             Narrated(to)
      PROVE  LayerInv'
  <2> DEFINE old == episodes[scene.session]
             ok == to = "both"
             new == [old EXCEPT
                       !.title   = IF to # "neither" THEN scene.live ELSE @,
                       !.summary = IF ok THEN scene.live ELSE @,
                       !.hash    = HashAfter(old, ok)]
             s == scene.session
  <2>1. s \in Sessions /\ old \in Scene /\ scene.live \in SUBSET Atoms
    BY <1>0, <1>2 DEF TypeInv, TypeOK, Bounded
  <2>2. new \in Scene
    BY <2>1 DEF Scene, Text, HashAfter
  <2>3. /\ ok => new.hash = scene.live /\ new.summary = scene.live
        /\ new.members = old.members /\ new.status = old.status
    BY <2>1 DEF Scene, HashAfter
  <2>4. /\ \/ UpsertDone(s, new) /\ pc' = "narrating" /\ failed' = (failed \/ ~ok)
           \/ UpsertThrows(s, new)
        /\ UNCHANGED <<storeVars, core>>
    BY <1>2 DEF Narrated
  <2>5. Derived /\ scene.live = Live(s) /\ failed \in BOOLEAN
    BY <1>0, <1>2 DEF LayerInv, Derived, TypeOK
  <2> HIDE DEF new, s
  <2>6. /\ new.members \subseteq Candidates
        /\ \A a \in new.members : status[a] # "absent"
        /\ new.status = "absent" => new.members = {}
    BY <2>1, <2>3 DEF LayerInv, RowsOK, s
  <2>7. ~UpsertThrows(s, new)
    <3>1. RowsOK /\ UNCHANGED storeVars
      BY <2>4 DEF LayerInv
    <3>2. s \in Sessions /\ (UpsertDone(s, new) \/ UpsertThrows(s, new))
      BY <2>1, <2>4
    <3>q. QED
      BY <1>0, <2>2, <2>6, <3>1, <3>2, Upserted
  <2>q. QED
    BY <2>1, <2>2, <2>3, <2>4, <2>5, <2>7, LayersUpserted DEF s
<1>3. CASE Narrate \/ TitleFails \/ SummaryFails
  BY <1>2, <1>3 DEF Narrate, TitleFails, SummaryFails
<1>q. QED
  BY <1>1, <1>3

\* The pass leaves: everything is current, or the store is marked.
LEMMA LayersEnd ==
  ASSUME TypeInv, LayerInv, CoreUpToDate \/ Synthesize \/ SynthesisFails
  PROVE  LayerInv'
<1>1. /\ UNCHANGED <<stream, status, evidence, episodes>>
      /\ pc' = "idle" /\ Derived /\ ~Asking'
      /\ \/ dirty' = TRUE
         \/ core' = CoreInput /\ dirty' = failed /\ todo = {}
  BY DEF CoreUpToDate, Synthesize, SynthesisFails, Leave, DirtyAfter, Derived, LayerInv, Asking
<1>2. RowsOK /\ RowsOK' /\ SameView
  BY <1>1, RowsOKSame, StillIsSameView DEF LayerInv
<1>3. ASSUME ~dirty'
      PROVE  AllCurrent'
  <2>1. core' = CoreInput /\ todo = {} /\ ~failed
    BY <1>1, <1>3
  <2>2. AllEpisodes /\ \A s \in ActiveEpisodes : SceneCurrent(s)
    BY <1>1, <2>1 DEF LayerInv, NarrationsDone
  <2>3. /\ \A s \in Sessions : EpisodeCurrent(s)' <=> EpisodeCurrent(s)
        /\ \A s \in Sessions : SceneCurrent(s)' <=> SceneCurrent(s)
        /\ EvidencedSessions' = EvidencedSessions
        /\ ActiveEpisodes' = ActiveEpisodes /\ ActiveEpisodes \subseteq Sessions
        /\ CoreInput' = CoreInput
    BY <1>1, <1>2, SameScenes
  <2>q. QED
    BY <2>1, <2>2, <2>3, SessionsOfEvidence DEF AllCurrent, AllEpisodes
<1>q. QED
  BY <1>1, <1>2, <1>3 DEF LayerInv, InL2, Derived, WorthAsking, Asking

LEMMA LayerInvStep ==
  Undisturbed /\ RowsStay /\ TypeInv /\ EvidenceIsRooted /\ HashIsNarrated /\ LayerInv
    /\ [Next]_vars => LayerInv'
<1> SUFFICES ASSUME Undisturbed, RowsStay, TypeInv, EvidenceIsRooted, HashIsNarrated, LayerInv,
                    [Next]_vars
             PROVE  LayerInv'
  OBVIOUS
<1>1. CASE BeginExtract \/ Plan \/ PlanningFails \/ CommitAborts \/ BeginReconcile
  <2>1. UNCHANGED <<storeVars, episodes, core>>
    BY <1>1 DEF BeginExtract, Plan, PlanningFails, CommitAborts, BeginReconcile
  <2>q. QED
    BY <1>1, <2>1, LayersBefore
<1>2. ~Crash
  BY DEF Crash, Undisturbed
<1>3. CASE UNCHANGED vars
  <2>1. UNCHANGED <<passVars, episodes, core, dirty>> /\ UNCHANGED <<stream, status, evidence>>
    BY <1>3 DEF vars, storeVars
  <2>2. RowsOK' /\ SameView
    BY <2>1, RowsOKSame, StillIsSameView DEF LayerInv
  <2>q. QED
    BY <2>1, <2>2, LayerInvSame
<1>4. CASE \/ ScenesToNarrate
           \/ \E s \in Sessions : UpToDate(s) \/ AskTitle(s)
           \/ AskSummary \/ AskCore
  BY <1>4, LayersUnmoved
<1>5. CASE \/ \E s \in Sessions : NarrateEmpty(s)
           \/ Narrate \/ TitleFails \/ SummaryFails
  BY <1>5, LayersNarrated
<1>6. CASE CoreUpToDate \/ Synthesize \/ SynthesisFails
  BY <1>6, LayersEnd
<1>q. QED
  BY <1>1, <1>2, <1>3, <1>4, <1>5, <1>6, LayersCommit, LayersEpisodes, LayersForeground,
     LayersCapture
  DEF Next, Progress, Failure

LEMMA LayerInvInit == Init => LayerInv
<1> SUFFICES ASSUME Init PROVE LayerInv
  OBVIOUS
<1>1. /\ evidence = {} /\ pc = "idle" /\ core = {}
      /\ \A s \in Sessions : episodes[s] = NoScene
  BY DEF Init, StoreInit
<1>2. RowsOK
  BY <1>1 DEF RowsOK, NoScene
<1>3. EvidencedSessions = {} /\ ActiveEpisodes = {}
  BY <1>1 DEF EvidencedSessions, ActiveEpisodes, NoScene
<1>4. AllCurrent
  BY <1>1, <1>3 DEF AllCurrent, AllEpisodes, CoreInput
<1>q. QED
  BY <1>1, <1>2, <1>4 DEF LayerInv, InL2, Derived

\* When no pass is owed no layer lags behind (the completeness gate of
\* core.ts:1470-1503): if requests change atoms only between passes, the only
\* failures are the model's, and rows are not hard-deleted, then scenes,
\* narration and core are functions of the active atoms, however often a call
\* failed before.
THEOREM LayersFollowAtoms ==
  ASSUME Overlap = FALSE, Faults \subseteq {"llm"}, "hard delete" \notin Writes
  PROVE  Spec => []LayersCurrent
<1>0. Undisturbed /\ RowsStay
  BY DEF Undisturbed, RowsStay
<1>1. Init => EvidenceIsRooted /\ HashIsNarrated
  <2>1. ASSUME Init
        PROVE  EvidenceIsRooted
    BY <2>1 DEF Init, StoreInit, EvidenceIsRooted
  <2>2. ASSUME Init
        PROVE  HashIsNarrated
    BY <2>2 DEF Init, HashIsNarrated, NoScene
  <2>q. QED
    BY <2>1, <2>2
<1>2. TypeInv /\ EvidenceIsRooted /\ HashIsNarrated /\ LayerInv /\ [Next]_vars => LayerInv'
  BY <1>0, LayerInvStep
<1>3. LayerInv => LayersCurrent
  BY DEF LayerInv, LayersCurrent, EpisodesCurrent, NarrationCurrent, CoreCurrent, AtRest,
         WorthAsking, AllCurrent, AllEpisodes, EpisodeCurrent, SceneCurrent
<1>q. QED
  BY <1>1, <1>2, <1>3, TypeInvInit, TypeInvStep, HashIsNarratedStep, RootedStep, LayerInvInit, PTL
  DEF Spec
=============================================================================
