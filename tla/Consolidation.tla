---------------------------- MODULE Consolidation ----------------------------
(***************************************************************************)
(* How a pass comes to its plan: the part of distillOncePass of            *)
(* src/distill/core.ts that DistillPass takes in one step.  The model is   *)
(* asked to extract candidates from the window, neighbours of each are     *)
(* looked up, the model decides on the candidates in batches and on those  *)
(* a batch reply left open one at a time, and a decision that names what   *)
(* an earlier one has consumed is made anew.                               *)
(*                                                                         *)
(*  - A reply is any text; what is kept of it is what its parser can tell  *)
(*    apart: the objects it finds, in order, and which of them are valid.  *)
(*  - A candidate is named by the atom id its content hashes to            *)
(*    (atomIdFromContent), so the same fact extracted twice is two         *)
(*    candidates of one name.                                              *)
(*  - Indices are counted from 1, the code's from 0.                       *)
(***************************************************************************)
EXTENDS Integers, FiniteSets, Sequences, SequencesExt

CONSTANTS
  AtomIds,          \* ids of atoms, those of candidates among them
  Extractions,      \* replies to the extraction prompt
  Neighbours,       \* what searchAtoms may find for a candidate
  Entries,          \* decisions as replies word them
  MaxEntries,       \* bound: entries of a batch reply
  MaxCandidates,    \* bound: objects in a reply to the extraction prompt
  Settings,         \* values of FALDA_DISTILL_CONSOLIDATION_BATCH and _MAX_CHARS
  ScaffoldChars, CandidateChars, AtomChars  \* the parts of a prompt

Actions == {"store", "update", "merge", "skip"}
Nothing == "not a candidate"   \* an object that is not valid JSON or no valid candidate
Prose == "prose"               \* a line that does not begin with a brace

ASSUME ConsolidationAssumption ==
  /\ IsFiniteSet(AtomIds) /\ {Nothing, Prose} \cap AtomIds = {}
  /\ Neighbours \subseteq SUBSET AtomIds
  /\ \A x \in Extractions :
       x.form \in {"blank", "array", "lines"} /\ x.items \in Seq(AtomIds \cup {Nothing, Prose})
  /\ \A e \in Entries : e.candidate \in Nat /\ DOMAIN e.targets = 1..Len(e.targets)
  /\ MaxEntries \in Nat
  /\ Settings \subseteq [batch : Nat \ {0}, chars : Int]
  /\ {ScaffoldChars, CandidateChars, AtomChars} \subseteq Nat

ASSUME CandidatesAssumption ==
  /\ MaxCandidates \in Nat
  /\ \A x \in Extractions : Len(x.items) <= MaxCandidates

VARIABLES
  set,        \* the settings of this pass
  pc,         \* "extract", "retrieve", "decide", then "planned" or "failed"
  reply,      \* history: the extraction reply
  candidates, \* what was extracted
  shown,      \* ids of the neighbours of the candidates looked up so far
  decisions,  \* one for each candidate; Undecided is an array's hole
  chunks,     \* batches still to be asked about, of candidate numbers
  start,      \* candidates in the batches asked about before
  retries,    \* candidates that the last batch reply left open
  settled,    \* candidates whose decision is checked against the earlier ones
  consumed,   \* consumedTargets
  said        \* history: the last answer about each candidate

vars == <<set, pc, reply, candidates, shown, decisions, chunks, start, retries,
          settled, consumed, said>>

Decision == [action : Actions, targets : SUBSET AtomIds]
Undecided == [action |-> "undecided", targets |-> {}]
Unsaid == [about |-> <<>>, numbered |-> FALSE, entries |-> <<>>, without |-> {}]

-----------------------------------------------------------------------------
(* The parsers.                                                            *)

\* filter: the elements of a sequence that are in S, in order.
Kept(seq, S) ==
  LET kept[i \in 0..Len(seq)] ==
        IF i = 0 THEN <<>>
        ELSE IF seq[i] \in S THEN Append(kept[i - 1], seq[i]) ELSE kept[i - 1]
  IN kept[Len(seq)]

\* Mutant: an object that is no candidate is passed over, as prose is.
ParsedLeniently(x) ==
  LET found == Kept(x.items, AtomIds)
  IN [ok |-> x.form = "array" \/ found # <<>>, candidates |-> found]

Objects == AtomIds \cup {Nothing}

\* parseCandidates.  [] is an answer, no object at all is not; prose counts as
\* nothing on a line of its own, and spoils an array.
ParsedCandidates(x) ==
  LET objects == IF x.form = "lines" THEN Kept(x.items, Objects) ELSE x.items
  IN [ok |-> /\ \A i \in DOMAIN objects : objects[i] \in AtomIds
             /\ x.form = "array" \/ objects # <<>>,
      candidates |-> objects]

Named(targets) == {targets[k] : k \in DOMAIN targets}

\* validateConsolidationDecision: the targets are distinct, were shown for this
\* candidate and are as many as the action takes.
ValidEntry(e, allowed) ==
  /\ e.action \in Actions
  /\ Cardinality(Named(e.targets)) = Len(e.targets)
  /\ Named(e.targets) \subseteq allowed
  /\ e.action \in {"store", "skip"} => Len(e.targets) = 0
  /\ e.action = "update" => Len(e.targets) = 1
  /\ e.action = "merge" => Len(e.targets) >= 2

Decided(e) == [action |-> e.action, targets |-> Named(e.targets)]

\* parseConsolidation: the one object of the reply, whatever index it states.
ParsedSingle(e, allowed) == IF ValidEntry(e, allowed) THEN Decided(e) ELSE Undecided

\* accept: the first valid decision for an index in range.
Accept(e, out, allowed) ==
  IF /\ e.candidate \in DOMAIN out
     /\ out[e.candidate] = Undecided
     /\ ValidEntry(e, allowed[e.candidate])
    THEN [out EXCEPT ![e.candidate] = Decided(e)] ELSE out

\* The array in a batch reply is the answer if any of its elements states an index
\* in range; else its lines are looked through.
Read(text, n) ==
  IF \E k \in DOMAIN text.array : text.array[k].candidate \in 1..n
    THEN text.array ELSE text.lines

\* parseConsolidationBatch: one decision, or none, for each of the sets allowed.
ParsedBatch(text, allowed) ==
  LET entries == Read(text, Len(allowed))
      accepted[k \in 0..Len(entries)] ==
        IF k = 0 THEN [j \in DOMAIN allowed |-> Undecided]
        ELSE Accept(entries[k], accepted[k - 1], allowed)
  IN accepted[Len(entries)]

-----------------------------------------------------------------------------
(* Batches.                                                                *)

\* The length of consolidationBatchPrompt.
PromptChars(chunk, nbs) ==
  FoldLeft(LAMBDA n, i : n + CandidateChars + AtomChars * Cardinality(nbs[i]),
           ScaffoldChars, chunk)

\* Mutant: the last batch is as long as the others.
FixedStrideFull(n, batch) ==
  [k \in 1..((n + batch - 1) \div batch) |->
     [j \in 1..batch |-> (k - 1) * batch + j]]

FixedStride(n, batch) ==
  [k \in 1..((n + batch - 1) \div batch) |->
     [j \in 1..(IF k * batch <= n THEN batch ELSE n - (k - 1) * batch) |->
        (k - 1) * batch + j]]

\* Fill a batch until the next candidate would make it too many or too long; a
\* candidate that is too long by itself is sent alone.
Pack(acc, i, s, nbs) ==
  LET tentative == Append(acc.current, i)
  IN IF \/ acc.current = <<>>
        \/ Len(tentative) <= s.batch /\ PromptChars(tentative, nbs) <= s.chars
       THEN [acc EXCEPT !.current = tentative]
       ELSE [full |-> Append(acc.full, acc.current), current |-> <<i>>]

Greedy(n, s, nbs) ==
  LET packed[i \in 0..n] == IF i = 0 THEN [full |-> <<>>, current |-> <<>>]
                                     ELSE Pack(packed[i - 1], i, s, nbs)
  IN IF packed[n].current = <<>> THEN packed[n].full
                                 ELSE Append(packed[n].full, packed[n].current)

\* packConsolidationChunks
Packed(n, s, nbs) ==
  IF s.chars <= 0 THEN FixedStride(n, s.batch) ELSE Greedy(n, s, nbs)

-----------------------------------------------------------------------------
(* The pass.                                                               *)

Init ==
  /\ set \in Settings
  /\ pc = "extract"
  /\ reply = [form |-> "blank", items |-> <<>>]
  /\ candidates = <<>> /\ shown = <<>> /\ decisions = <<>>
  /\ chunks = <<>> /\ start = 0 /\ retries = <<>>
  /\ settled = 0 /\ consumed = {}
  /\ said = <<>>

\* The pass throws: the job is failed and tried again from the same window.
Throw ==
  /\ pc' = "failed"
  /\ UNCHANGED <<candidates, shown, decisions, chunks, start, retries, settled,
                 consumed, said>>

\* With the neighbours of all candidates the deciding begins: in batches, or one
\* at a time if a batch is of one or there is only one candidate.
Retrieved(found, nbs) ==
  /\ candidates' = found
  /\ shown' = nbs
  /\ UNCHANGED <<start, settled, consumed>>
  /\ IF Len(nbs) < Len(found)
       THEN pc' = "retrieve" /\ UNCHANGED <<decisions, chunks, retries, said>>
       ELSE LET single == set.batch <= 1 \/ Len(found) <= 1
            IN /\ pc' = "decide"
               /\ decisions' = [i \in DOMAIN found |-> Undecided]
               /\ said' = [i \in DOMAIN found |-> Unsaid]
               /\ chunks' = IF single THEN <<>> ELSE Packed(Len(found), set, nbs)
               /\ retries' = IF single THEN [i \in DOMAIN found |-> i] ELSE <<>>

\* The reply to the extraction prompt.
Extract ==
  /\ pc = "extract"
  /\ \E x \in Extractions :
       LET parsed == ParsedCandidates(x)
       IN /\ reply' = x
          /\ IF parsed.ok THEN Retrieved(parsed.candidates, <<>>) ELSE Throw
  /\ UNCHANGED set

\* searchAtoms for the next candidate.  What it finds may have changed since the
\* candidate before.
Retrieve ==
  /\ pc = "retrieve"
  /\ \E nbs \in Neighbours : Retrieved(candidates, Append(shown, nbs))
  /\ UNCHANGED <<set, reply>>

\* Mutant: the sets allowed are counted from the first candidate of the pass.
AllowedFromFirst(chunk) == SubSeq(shown, 1, Len(chunk))

\* allowedTargetIds of the candidates a batch is about.
Allowed(chunk) == SubSeq(shown, start + 1, start + Len(chunk))

\* The entries of a batch reply, as an array or on lines of their own.  The brackets
\* of a reply in lines may hold a bare array that answers nothing.
BatchReplies == [array : {<<>>}, lines : BoundedSeq(Entries, MaxEntries)]
                  \cup [array : BoundedSeq(Entries, MaxEntries), lines : {<<>>}]

Answer(about, numbered, entries, without) ==
  [about |-> about, numbered |-> numbered, entries |-> entries, without |-> without]

\* The candidates a batch reply has no usable decision for, in order.
LeftOpen(parsed) ==
  Kept([j \in DOMAIN parsed |-> start + j],
       {start + j : j \in {k \in DOMAIN parsed : parsed[k] = Undecided}})

\* The reply about the next batch.
DecideBatch ==
  /\ pc = "decide" /\ retries = <<>> /\ chunks # <<>>
  /\ LET chunk == Head(chunks)
     IN \E text \in BatchReplies :
          LET parsed == ParsedBatch(text, Allowed(chunk))
          IN /\ decisions' = [i \in DOMAIN decisions |->
                                IF i \in (start + 1)..(start + Len(chunk))
                                  THEN parsed[i - start] ELSE decisions[i]]
             /\ retries' = LeftOpen(parsed)
             /\ said' = [i \in DOMAIN said |->
                           IF i \in Range(chunk)
                             THEN Answer(chunk, TRUE, Read(text, Len(chunk)), {}) ELSE said[i]]
             /\ start' = start + Len(chunk)
  /\ chunks' = Tail(chunks)
  /\ UNCHANGED <<set, pc, reply, candidates, shown, settled, consumed>>

\* decideIndividually
DecideAlone ==
  /\ pc = "decide" /\ retries # <<>>
  /\ LET i == Head(retries)
     IN \E e \in Entries :
          LET decision == ParsedSingle(e, shown[i])
          IN IF decision = Undecided THEN Throw
             ELSE /\ decisions' = [decisions EXCEPT ![i] = decision]
                  /\ said' = [said EXCEPT ![i] = Answer(<<i>>, FALSE, <<e>>, {})]
                  /\ retries' = Tail(retries)
                  /\ UNCHANGED <<pc, candidates, shown, chunks, start, settled, consumed>>
  /\ UNCHANGED <<set, reply>>

\* consumedByDecision: an atom that is its own winner stays in service.
ConsumedBy(d, id) == IF d.action \in {"update", "merge"} THEN d.targets \ {id} ELSE {}

\* Mutant: only an update is made anew.
ClaimedByUpdate(d) == d.action = "update" /\ d.targets \cap consumed # {}

\* The decision names what an earlier candidate has consumed.
Claimed(d) == d.action \in {"update", "merge"} /\ d.targets \cap consumed # {}

Reconciling ==
  pc = "decide" /\ retries = <<>> /\ chunks = <<>> /\ settled < Len(candidates)

\* The next decision stands.
Settle ==
  /\ Reconciling
  /\ LET i == settled + 1
     IN /\ ~Claimed(decisions[i])
        /\ consumed' = consumed \cup ConsumedBy(decisions[i], candidates[i])
        /\ settled' = i
  /\ UNCHANGED <<set, pc, reply, candidates, shown, decisions, chunks, start, retries, said>>

\* The next decision is asked for anew, among the neighbours that are left.
Replan ==
  /\ Reconciling
  /\ LET i == settled + 1
     IN /\ Claimed(decisions[i])
        /\ \E e \in Entries :
             LET decision == ParsedSingle(e, shown[i] \ consumed)
             IN IF decision = Undecided THEN Throw
                ELSE /\ decisions' = [decisions EXCEPT ![i] = decision]
                     /\ said' = [said EXCEPT ![i] = Answer(<<i>>, FALSE, <<e>>, consumed)]
                     /\ consumed' = consumed \cup ConsumedBy(decision, candidates[i])
                     /\ settled' = i
                     /\ UNCHANGED <<pc, candidates, shown, chunks, start, retries>>
  /\ UNCHANGED <<set, reply>>

\* The plan is ready to be embedded and written.
Plan ==
  /\ pc = "decide" /\ retries = <<>> /\ chunks = <<>> /\ settled = Len(candidates)
  /\ pc' = "planned"
  /\ UNCHANGED <<set, reply, candidates, shown, decisions, chunks, start, retries,
                 settled, consumed, said>>

\* A call does not answer in time, with an error, with a reply that was cut off at
\* the length limit or with one without text; or a search cannot embed its query.
CallFails ==
  /\ \/ pc \in {"extract", "retrieve"}
     \/ pc = "decide" /\ (retries # <<>> \/ chunks # <<>>)
     \/ Reconciling /\ Claimed(decisions[settled + 1])
  /\ Throw
  /\ UNCHANGED <<set, reply>>

Next ==
  \/ Extract
  \/ Retrieve
  \/ DecideBatch
  \/ DecideAlone
  \/ Settle
  \/ Replan
  \/ Plan
  \/ CallFails

Spec == Init /\ [][Next]_vars

-----------------------------------------------------------------------------
(* Properties.                                                             *)

\* A pass in the making is well-formed, as the types of core.ts have it.
TypeOK ==
  /\ set \in Settings
  /\ pc \in {"extract", "retrieve", "decide", "planned", "failed"}
  /\ candidates \in Seq(AtomIds)
  /\ shown \in Seq(SUBSET AtomIds)
  /\ decisions \in Seq(Decision \cup {Undecided})
  /\ \A k \in DOMAIN chunks : chunks[k] \in Seq(DOMAIN candidates)
  /\ start \in 0..Len(candidates)
  /\ retries \in Seq(DOMAIN candidates)
  /\ settled \in 0..Len(candidates)
  /\ consumed \subseteq AtomIds
  /\ Len(said) = Len(decisions)

\* A plan can be carried out as it was made (core.ts:784-898): every candidate has
\* a decision, its targets are as many as its action takes and were shown with that
\* very candidate, and none of them is what an earlier candidate's decision takes
\* out of service, however the replies mixed up, repeated or left out candidates.
PlanIsSound ==
  pc = "planned" =>
    /\ Len(decisions) = Len(candidates)
    /\ \A i \in DOMAIN decisions :
         LET d == decisions[i]
         IN /\ d.targets \subseteq shown[i]
            /\ CASE d.action \in {"store", "skip"} -> d.targets = {}
                 [] d.action = "update" -> Cardinality(d.targets) = 1
                 [] d.action = "merge" -> Cardinality(d.targets) >= 2
                 [] OTHER -> FALSE
            /\ \A j \in 1..(i - 1) :
                 ConsumedBy(decisions[j], candidates[j]) \cap d.targets = {}

\* What DistillPass sees of it: the operations of a finished plan, and before that a
\* pass that is planning, on the atoms a search may find.  What the pass does not
\* touch while it plans stands still.
PassPc == CASE pc = "planned" -> "planned"
            [] pc = "failed"  -> "idle"
            [] OTHER          -> "planning"

PassPlan ==
  IF pc = "planned"
    THEN [i \in DOMAIN decisions |-> [action |-> decisions[i].action, new |-> candidates[i],
                                      targets |-> decisions[i].targets]]
    ELSE <<>>

PassStatus == [a \in AtomIds |-> IF a \in UNION Neighbours THEN "active" ELSE "absent"]

Pass == INSTANCE DistillPass WITH
  Candidates <- AtomIds, Direct <- {}, Sessions <- {}, Writes <- {}, MaxTurns <- 0,
  MaxWrites <- 0, WindowSize <- 1, Overlap <- FALSE, Faults <- {"llm", "embed"},
  stream <- {}, appended <- 0, status <- PassStatus, evidence <- {}, dirty <- FALSE,
  writes <- 0, watermark <- 0, episodes <- <<>>, core <- {}, distilled <- {},
  pc <- PassPc, plan <- PassPlan, window <- {}, todo <- {}, failed <- FALSE, coreIn <- {},
  scene <- [session |-> "none", live |-> {}]

\* The plan of a pass comes about as DistillPass has it in one step (core.ts:784-898):
\* in whatever ways the replies mixed up, repeated or left out candidates, the pass
\* either leaves as after a failed call or has one decision for each candidate, with
\* as many targets as its action takes, none of them consumed by an earlier one.
ImplementsPlan ==
  PassPc = "planning" /\ [][Pass!Plan \/ Pass!PlanningFails]_<<PassPc, PassPlan>>

\* Both at once: the pass has a plan that DistillPass lets it have, with targets that
\* were shown for the candidate they are named for (core.ts:784-898).
PlanCanBeCarriedOut == ImplementsPlan /\ [][PlanIsSound']_vars

\* A decision is the model's (core.ts:327-336): it is the first usable entry in the
\* last reply about the candidate, under the number that the candidate had in the
\* prompt of that reply, so that no batch's decision goes to another candidate and
\* a candidate without one is not taken to be skipped.
DecisionsAreTheModels ==
  \A i \in DOMAIN said :
    said[i].about # <<>> =>
      LET n == CHOOSE n \in DOMAIN said[i].about : said[i].about[n] = i
          entries == said[i].entries
          usable == {k \in DOMAIN entries :
                       /\ said[i].numbered => entries[k].candidate = n
                       /\ ValidEntry(entries[k], shown[i] \ said[i].without)}
      IN IF usable = {} THEN decisions[i] = Undecided
         ELSE \E k \in usable : /\ \A j \in usable : k <= j
                                /\ decisions[i] = Decided(entries[k])

\* Nothing that was extracted gets lost on the way (core.ts:132-142, :443-457): the
\* candidates are all the objects of the reply, in order, the batches asked and to be
\* asked about are all the candidates, in order, and no batch of several is too many
\* or too long.
NothingDropped ==
  pc \in {"decide", "planned"} =>
    /\ candidates = Kept(reply.items, Objects)
    /\ set.batch > 1 /\ Len(candidates) > 1 =>
         FlattenSeq(chunks) = [k \in 1..(Len(candidates) - start) |-> start + k]
    /\ \A k \in DOMAIN chunks :
         /\ Len(chunks[k]) <= set.batch
         /\ set.chars > 0 /\ Len(chunks[k]) > 1 => PromptChars(chunks[k], shown) <= set.chars
=============================================================================
