----------------------------- MODULE RecallProofs -----------------------------
(***************************************************************************)
(* What is proved of Recall, for any atoms, scenes, budgets, retention,    *)
(* recalls, reports and changes of the memory:                             *)
(*                                                                         *)
(*  - feedback is final.  The step that could go wrong is the filing of a  *)
(*    trace: it must not meet one of the same id, with reports on it.  A   *)
(*    recall therefore carries the highest id there is, and no trace bears *)
(*    it until it has ended;                                               *)
(*  - types are kept, and the answer fits its budget.  A tier is a         *)
(*    recursion over what was found, so what it comes to (GoodTier,        *)
(*    Misfits) is shown for every prefix; between two reads a recall keeps *)
(*    what its tiers have come to so far (AfterPinned, AfterRanked);       *)
(*  - a trace is the answer, and names no item twice: what was pinned when *)
(*    the recall began is passed over by the ranking, and no tier meets an *)
(*    item twice;                                                          *)
(*  - a trace can be accounted for: looked at again, its items are shown   *)
(*    or marked stale, and the metrics count each once.                    *)
(***************************************************************************)
EXTENDS Recall, FiniteSetTheorems, WellFoundedInduction, TLAPS

InFlight == req.phase \in {"embed_atoms", "embed_scenes"}

TraceShape(t) ==
  /\ DOMAIN t = {"day", "items"}
  /\ t.day \in Int
  /\ \A i \in DOMAIN t.items :
       /\ DOMAIN t.items[i] = {"ref", "source", "usage"}
       /\ t.items[i].usage \in Usage

RecallInv ==
  /\ recalls \in Nat \ {0} /\ day \in Int
  /\ DOMAIN req = DOMAIN Idle
  /\ InFlight => req.id = recalls /\ recalls \notin DOMAIN traces
  /\ DOMAIN traces \subseteq 1..recalls
  /\ \A r \in DOMAIN traces : TraceShape(traces[r])

\* What a later trace table may do to a trace that is there.
Final(r) ==
  \/ r \notin DOMAIN traces' /\ RetentionDays \in 1..(day - traces[r].day - 1)
  \/ /\ r \in DOMAIN traces' /\ DOMAIN traces'[r].items = DOMAIN traces[r].items
     /\ \A i \in DOMAIN traces[r].items :
          LET old == traces[r].items[i]  new == traces'[r].items[i]
          IN /\ new.ref = old.ref
             /\ old.usage # "unknown" => new.usage = old.usage

AllFinal == \A r \in DOMAIN traces : Final(r)

LEMMA SameTraces == traces' = traces => AllFinal
BY DEF AllFinal, Final

LEMMA IdleRecord ==
  /\ Idle.phase = "idle"
  /\ DOMAIN Idle = {"phase", "budget", "first", "found", "scenes", "core", "items",
                    "truncated", "id"}
BY DEF Idle

\* A new recall takes the next id.
LEMMA StartStep ==
  ASSUME RecallInv, NEW budget, NEW order, Start(budget, order)
  PROVE  RecallInv' /\ AllFinal
<1>1. /\ recalls' = recalls + 1 /\ UNCHANGED <<traces, day>>
      /\ DOMAIN req' = DOMAIN Idle /\ req'.id = recalls'
  BY IdleRecord DEF Start, Idle
<1>2. recalls' \in Nat \ {0} /\ recalls' \notin 1..recalls /\ 1..recalls \subseteq 1..recalls'
  BY <1>1 DEF RecallInv
<1>3. RecallInv'
  BY <1>1, <1>2 DEF RecallInv, TraceShape
<1> QED
  BY <1>1, <1>3, SameTraces

LEMMA RankStep ==
  ASSUME RecallInv, NEW hits, RankAtoms(hits)
  PROVE  RecallInv' /\ AllFinal
<1>1. InFlight
  BY DEF RankAtoms, InFlight
<1>2. DOMAIN req' = DOMAIN req /\ req'.id = req.id /\ UNCHANGED <<traces, recalls, day>>
  BY IdleRecord DEF RankAtoms, RecallInv
<1> QED
  BY <1>1, <1>2, SameTraces DEF RecallInv, TraceShape

\* The table with the trace of an answer in it.
Filed(answer) == [r \in DOMAIN traces \cup {req.id} |->
                    IF r = req.id THEN Trace(answer) ELSE traces[r]]

\* The trace of an answer is filed under an id that no trace bears.
LEMMA FinishStep ==
  ASSUME RecallInv, NEW hits, Finish(hits)
  PROVE  RecallInv' /\ AllFinal
<1>1. InFlight /\ req.id = recalls /\ recalls \notin DOMAIN traces
  BY DEF Finish, InFlight, RecallInv
<1>2. PICK answer : /\ answer.phase = "done" /\ DOMAIN answer = DOMAIN Idle
                    /\ \/ traces' = Filed(answer) /\ req' = answer
                       \/ req' = [answer EXCEPT !.id = 0] /\ UNCHANGED traces
  BY IdleRecord DEF Finish, RecallInv, Filed
<1>3. ~InFlight' /\ DOMAIN req' = DOMAIN Idle /\ UNCHANGED <<recalls, day>>
  BY <1>2, IdleRecord DEF InFlight, Finish
<1>4. CASE UNCHANGED traces
  BY <1>3, <1>4, SameTraces DEF RecallInv, TraceShape
<1>5. CASE traces' = Filed(answer)
  <2>1. /\ DOMAIN traces' = DOMAIN traces \cup {recalls}
        /\ traces'[recalls] = Trace(answer)
        /\ \A r \in DOMAIN traces : traces'[r] = traces[r]
    BY <1>1, <1>5 DEF Filed
  <2>2. TraceShape(Trace(answer))
    BY DEF TraceShape, Trace, RecallInv, Usage
  <2>3. DOMAIN traces' \subseteq 1..recalls
    BY <2>1 DEF RecallInv
  <2> QED
    BY <1>3, <2>1, <2>2, <2>3 DEF RecallInv, TraceShape, AllFinal, Final
<1> QED
  BY <1>2, <1>4, <1>5

LEMMA FailsStep ==
  ASSUME RecallInv, RecallFails
  PROVE  RecallInv' /\ AllFinal
<1>1. ~InFlight' /\ DOMAIN req' = DOMAIN Idle /\ UNCHANGED <<traces, recalls, day>>
  BY IdleRecord DEF RecallFails, InFlight
<1> QED
  BY <1>1, SameTraces DEF RecallInv, TraceShape

\* A report contradicts none: an item that was reported keeps what was said.
LEMMA ReportStep ==
  ASSUME RecallInv, NEW r, NEW used, NEW unused, ReportUsage(r, used, unused)
  PROVE  RecallInv' /\ AllFinal
<1> DEFINE t == traces[r]
           new == Reported(t, used, unused)
<1>1. /\ r \in DOMAIN traces /\ TraceShape(t) /\ traces' = [traces EXCEPT ![r] = new]
      /\ UNCHANGED <<req, recalls, day>> /\ ~Conflicts(t, used, unused)
      /\ used \cap unused = {}
  BY DEF ReportUsage, RecallInv
<1>2. /\ new.day = t.day /\ DOMAIN new = {"day", "items"}
      /\ DOMAIN new.items = DOMAIN t.items
      /\ \A i \in DOMAIN t.items :
           new.items[i] = [t.items[i] EXCEPT !.usage = IF t.items[i].ref \in used THEN "used"
                                     ELSE IF t.items[i].ref \in unused THEN "unused"
                                     ELSE @]
  BY <1>1 DEF Reported, TraceShape
<1>3. ASSUME NEW i \in DOMAIN t.items
      PROVE  /\ DOMAIN new.items[i] = {"ref", "source", "usage"}
             /\ new.items[i].usage \in Usage
             /\ new.items[i].ref = t.items[i].ref
             /\ t.items[i].usage # "unknown" => new.items[i].usage = t.items[i].usage
  <2> DEFINE ref == t.items[i].ref
             usage == t.items[i].usage
             said == IF ref \in used THEN "used" ELSE IF ref \in unused THEN "unused" ELSE usage
  <2>1. DOMAIN t.items[i] = {"ref", "source", "usage"} /\ usage \in Usage
    BY <1>1 DEF TraceShape
  <2>2. new.items[i] = [t.items[i] EXCEPT !.usage = said]
    BY <1>2
  <2>3. usage \in Usages(t, ref)
    BY DEF Usages
  <2>4. (ref \in used => usage # "unused") /\ (ref \in unused => usage # "used")
    BY <1>1, <2>3 DEF Conflicts
  <2>5. said \in Usage /\ (usage # "unknown" => said = usage)
    BY <2>1, <2>4 DEF Usage
  <2> HIDE DEF said
  <2>6. /\ DOMAIN new.items[i] = {"ref", "source", "usage"}
        /\ new.items[i].usage = said /\ new.items[i].ref = ref
    BY <2>1, <2>2
  <2> QED
    BY <2>5, <2>6
<1>4. TraceShape(new)
  BY <1>1, <1>2, <1>3 DEF TraceShape
<1> HIDE DEF new
<1>5. DOMAIN traces' = DOMAIN traces /\ traces'[r] = new
      /\ \A q \in DOMAIN traces \ {r} : traces'[q] = traces[q]
  BY <1>1
<1>6. RecallInv'
  <2>1. \A q \in DOMAIN traces' : TraceShape(traces'[q])
    BY <1>4, <1>5 DEF RecallInv
  <2> QED
    BY <1>1, <1>5, <2>1 DEF RecallInv, InFlight, TraceShape
<1>7. AllFinal
  BY <1>2, <1>3, <1>5 DEF AllFinal, Final
<1> QED
  BY <1>6, <1>7

\* Pruning takes away whole traces, those past their retention.
LEMMA PruneStep ==
  ASSUME RecallInv, PruneTraces
  PROVE  RecallInv' /\ AllFinal
<1>1. /\ DOMAIN traces' = DOMAIN traces \ Expired
      /\ \A r \in DOMAIN traces' : traces'[r] = traces[r]
      /\ UNCHANGED <<req, recalls, day>>
      /\ RetentionDays > 0
  BY DEF PruneTraces, Restrict
<1>2. RecallInv'
  BY <1>1 DEF RecallInv, InFlight, TraceShape
<1>3. ASSUME NEW r \in Expired
      PROVE  RetentionDays \in 1..(day - traces[r].day - 1)
  <2>1. traces[r].day \in Int /\ day \in Int /\ RetentionDays \in Int
        /\ traces[r].day < day - RetentionDays
    BY <1>3, RecallAssumption DEF Expired, RecallInv, TraceShape
  <2> QED
    BY <1>1, <2>1
<1>4. AllFinal
  BY <1>1, <1>3 DEF AllFinal, Final
<1> QED
  BY <1>2, <1>4

LEMMA OtherStep ==
  ASSUME RecallInv, UNCHANGED <<req, traces, recalls>>, day' \in Int
  PROVE  RecallInv' /\ AllFinal
BY SameTraces DEF RecallInv, InFlight, TraceShape

LEMMA NextFinal == RecallInv /\ [Next]_vars => RecallInv' /\ AllFinal
<1> SUFFICES ASSUME RecallInv, [Next]_vars PROVE RecallInv' /\ AllFinal
  OBVIOUS
<1>1. CASE McpRecall \/ HttpRecall \/ TopicRecall
  BY <1>1, StartStep DEF McpRecall, HttpRecall, TopicRecall
<1>2. CASE SearchAtoms
  BY <1>2, RankStep DEF SearchAtoms
<1>3. CASE SearchScenes
  BY <1>3, FinishStep DEF SearchScenes
<1>4. CASE RecallFails
  BY <1>4, FailsStep
<1>5. ASSUME NEW r, NEW used, NEW unused, ReportUsage(r, used, unused)
      PROVE  RecallInv' /\ AllFinal
  BY <1>5, ReportStep
<1>6. CASE PruneTraces
  BY <1>6, PruneStep
<1>7. CASE MemoryChanges
  <2>1. UNCHANGED <<req, traces, recalls, day>>
    BY <1>7 DEF MemoryChanges, Remember, Forget, WriteScene, WriteCore, Written
  <2> QED
    BY <2>1, OtherStep DEF RecallInv
<1>8. CASE DayPasses
  <2>1. UNCHANGED <<req, traces, recalls>> /\ day' \in Int
    BY <1>8 DEF DayPasses, RecallInv
  <2> QED
    BY <2>1, OtherStep
<1>9. CASE UNCHANGED vars
  <2>1. UNCHANGED <<req, traces, recalls, day>>
    BY <1>9 DEF vars
  <2> QED
    BY <2>1, OtherStep DEF RecallInv
<1> QED
  BY <1>1, <1>2, <1>3, <1>4, <1>5, <1>6, <1>7, <1>8, <1>9 DEF Next

LEMMA InitRecallInv == Init => RecallInv
<1> SUFFICES ASSUME Init PROVE RecallInv
  OBVIOUS
<1>1. recalls = 1 /\ day = 0 /\ req = Idle /\ ~InFlight
  BY IdleRecord DEF Init, InFlight
<1>2. CASE traces = <<>>
  BY <1>1, <1>2 DEF RecallInv
<1>3. CASE traces = Earlier
  <2>1. /\ DOMAIN traces = {1} /\ traces[1].day = 0 /\ DOMAIN traces[1] = {"day", "items"}
        /\ DOMAIN traces[1].items = {1}
        /\ DOMAIN traces[1].items[1] = {"ref", "source", "usage"}
        /\ traces[1].items[1].usage = "used"
    BY <1>3 DEF Earlier
  <2> QED
    BY <1>1, <2>1 DEF RecallInv, TraceShape, Usage
<1> QED
  BY <1>2, <1>3 DEF Init

\* Reports, recalls, retention and changes of the memory, in any order, take
\* back nothing that was reported of an item; a trace is never replaced, and
\* goes only when it is older than the retention.
THEOREM FeedbackStays == Spec => FeedbackIsFinal
<1>1. RecallInv /\ [Next]_vars => RecallInv'
  BY NextFinal
<1>2. RecallInv /\ [Next]_vars =>
        [\A r \in DOMAIN traces :
           \/ r \notin DOMAIN traces' /\ RetentionDays \in 1..(day - traces[r].day - 1)
           \/ /\ r \in DOMAIN traces' /\ DOMAIN traces'[r].items = DOMAIN traces[r].items
              /\ \A i \in DOMAIN traces[r].items :
                   LET old == traces[r].items[i]  new == traces'[r].items[i]
                   IN /\ new.ref = old.ref
                      /\ old.usage # "unknown" => new.usage = old.usage]_vars
  BY NextFinal DEF AllFinal, Final
<1> QED
  BY InitRecallInv, <1>1, <1>2, PTL DEF Spec, FeedbackIsFinal

-----------------------------------------------------------------------------
\* Recursion over the numbers up to n.

\* A set of natural numbers has a least one.
LEMMA LeastNat ==
  ASSUME NEW T \in SUBSET Nat, T # {}
  PROVE  \E m \in T : \A k \in T : m <= k
<1> DEFINE R == {p \in Nat \X Nat : p[1] < p[2]}
<1>1. OpToRel(<, Nat) = R
  BY DEF OpToRel
<1>2. IsWellFoundedOn(R, Nat)
  BY <1>1, NatLessThanWellFounded
<1> HIDE DEF R
<1>3. PICK m \in T : \A k \in T : ~(<<k, m>> \in R)
  BY <1>2, WFMin
<1>4. ASSUME NEW k \in T, k < m
      PROVE  FALSE
  <2> DEFINE p == <<k, m>>
  <2>1. p \in Nat \X Nat /\ p[1] < p[2]
    BY <1>4
  <2>2. p \in R
    BY <2>1 DEF R
  <2>q. QED
    BY <1>3, <2>2
<1>q. QED
  BY <1>4

\* Induction up to n.
LEMMA UpTo ==
  ASSUME NEW n \in Nat, NEW T, 0 \in T,
         \A i \in 1..n : i - 1 \in T => i \in T
  PROVE  0..n \subseteq T
<1>1. SUFFICES ASSUME (0..n) \ T # {}
               PROVE  FALSE
  OBVIOUS
<1> DEFINE U == (0..n) \ T
<1>2. U \in SUBSET Nat
  OBVIOUS
<1> HIDE DEF U
<1>3. PICK m \in U : \A k \in U : m <= k
  BY <1>1, <1>2, LeastNat DEF U
<1>4. m \in 1..n /\ m - 1 \notin U
  BY <1>3 DEF U
<1>q. QED
  BY <1>4 DEF U

\* A recursion over 0..n has a solution.
Solves(f, n, b, step) ==
  f = [i \in 0..n |-> IF i = 0 THEN b ELSE step[<<i, f[i - 1]>>]]

LEMMA Recursion ==
  ASSUME NEW n \in Nat, NEW S, NEW b \in S, NEW step \in [(1..n) \X S -> S]
  PROVE  \E f \in [0..n -> S] : Solves(f, n, b, step)
<1> DEFINE T == {i \in 0..n : \E f \in [0..i -> S] : Solves(f, i, b, step)}
<1>1. 0 \in T
  <2> DEFINE f == [i \in 0..0 |-> b]
  <2>1. Solves(f, 0, b, step) /\ f \in [0..0 -> S]
    BY DEF Solves
  <2>q. QED
    BY <2>1
<1>2. ASSUME NEW i \in 1..n, i - 1 \in T
      PROVE  i \in T
  <2>1. PICK g \in [0..(i - 1) -> S] : Solves(g, i - 1, b, step)
    BY <1>2
  <2> DEFINE f == [j \in 0..i |-> IF j = i THEN step[<<i, g[i - 1]>>] ELSE g[j]]
  <2>2. /\ \A j \in 0..(i - 1) : f[j] = g[j]
        /\ f[i] = step[<<i, g[i - 1]>>]
    OBVIOUS
  <2>3. f \in [0..i -> S]
    BY <2>1
  <2> HIDE DEF f
  <2>4. ASSUME NEW j \in 0..i
        PROVE  f[j] = IF j = 0 THEN b ELSE step[<<j, f[j - 1]>>]
    <3>1. CASE j = 0
      <4>1. 0 \in 0..(i - 1)
        OBVIOUS
      <4>2. g[0] = b
        BY <2>1, <4>1 DEF Solves
      <4>q. QED
        BY <2>2, <3>1, <4>1, <4>2
    <3>2. CASE j \in 1..(i - 1)
      <4>1. j \in 0..(i - 1) /\ j - 1 \in 0..(i - 1) /\ j # 0
        BY <3>2
      <4>2. g[j] = step[<<j, g[j - 1]>>]
        BY <2>1, <4>1 DEF Solves
      <4>q. QED
        BY <2>2, <4>1, <4>2
    <3>3. CASE j = i
      <4>1. i - 1 \in 0..(i - 1) /\ i # 0
        OBVIOUS
      <4>q. QED
        BY <2>2, <3>3, <4>1
    <3>q. QED
      BY <3>1, <3>2, <3>3
  <2>5. f = [j \in 0..i |-> f[j]]
    BY <2>3
  <2>6. Solves(f, i, b, step)
    BY <2>4, <2>5 DEF Solves
  <2>q. QED
    BY <2>3, <2>6
<1> HIDE DEF T
<1>3. 0..n \subseteq T
  BY <1>1, <1>2, UpTo
<1>q. QED
  BY <1>3 DEF T


-----------------------------------------------------------------------------
\* The characters of items.

Amount(item, sources) == IF item.source \in sources THEN item.chars ELSE 0

Sums(f, items, sources) ==
  f = [n \in 0..Len(items) |->
         IF n = 0 THEN 0 ELSE f[n - 1] + Amount(items[n], sources)]

LEMMA ItemFacts ==
  ASSUME NEW items \in Seq(Item), NEW sources, NEW n \in 1..Len(items)
  PROVE  items[n] \in Item /\ Amount(items[n], sources) \in Nat
<1>1. items[n] \in Item
  OBVIOUS
<1> QED
  BY <1>1 DEF Item, Amount

\* The sums that Chars is defined by exist.
LEMMA CharsAre ==
  ASSUME NEW items \in Seq(Item), NEW sources
  PROVE  \E f : /\ f[0] = 0
                /\ \A n \in 1..Len(items) : f[n] = f[n - 1] + Amount(items[n], sources)
                /\ Chars(items, sources) = f[Len(items)]
<1> DEFINE len == Len(items)
           step == [p \in (1..len) \X Nat |-> p[2] + Amount(items[p[1]], sources)]
<1>1. len \in Nat
  OBVIOUS
<1>2. \A n \in 1..len : Amount(items[n], sources) \in Nat
  BY ItemFacts
<1>3. step \in [(1..len) \X Nat -> Nat]
  BY <1>2
<1>4. \A n \in 1..len, m \in Nat : step[<<n, m>>] = m + Amount(items[n], sources)
  OBVIOUS
<1> HIDE DEF step
<1>5. PICK g \in [0..len -> Nat] : Solves(g, len, 0, step)
  BY <1>1, <1>3, Recursion
<1>6. Sums(g, items, sources)
  <2>1. \A n \in 0..len : g[n] = IF n = 0 THEN 0 ELSE step[<<n, g[n - 1]>>]
    BY <1>5 DEF Solves
  <2>2. \A n \in 1..len : step[<<n, g[n - 1]>>] = g[n - 1] + Amount(items[n], sources)
    BY <1>1, <1>4, <1>5
  <2>3. \A n \in 0..len : n = 0 \/ n \in 1..len
    BY <1>1
  <2>4. \A n \in 0..len : g[n] = IF n = 0 THEN 0 ELSE g[n - 1] + Amount(items[n], sources)
    BY <2>1, <2>2, <2>3, Zenon
  <2>5. g = [n \in 0..len |-> g[n]]
    BY <1>5
  <2> QED
    BY <2>4, <2>5 DEF Sums
<1> DEFINE f == CHOOSE h : Sums(h, items, sources)
<1>7. Sums(f, items, sources)
  BY <1>6
<1>8. Chars(items, sources) = f[len]
  BY DEF Chars, Sums, Amount
<1> HIDE DEF f
<1>9. \A n \in 0..len : f[n] = IF n = 0 THEN 0 ELSE f[n - 1] + Amount(items[n], sources)
  BY <1>7, Zenon DEF Sums
<1>10. f[0] = 0 /\ \A n \in 1..len : f[n] = f[n - 1] + Amount(items[n], sources)
  <2>1. 0 \in 0..len /\ \A n \in 1..len : n \in 0..len /\ n # 0
    BY <1>1
  <2> QED
    BY <1>9, <2>1, Zenon
<1> QED
  BY <1>8, <1>10

\* Text is not taken away.
LEMMA CharsType ==
  ASSUME NEW items \in Seq(Item), NEW sources
  PROVE  Chars(items, sources) \in Nat
<1>1. PICK f : /\ f[0] = 0
               /\ \A n \in 1..Len(items) : f[n] = f[n - 1] + Amount(items[n], sources)
               /\ Chars(items, sources) = f[Len(items)]
  BY CharsAre
<1> DEFINE T == {n \in 0..Len(items) : f[n] \in Nat}
<1>2. 0 \in T
  BY <1>1
<1>3. ASSUME NEW n \in 1..Len(items), n - 1 \in T
      PROVE  n \in T
  <2>1. f[n - 1] \in Nat /\ Amount(items[n], sources) \in Nat
    BY <1>3, ItemFacts
  <2>2. f[n] \in Nat
    BY <1>1, <2>1
  <2> QED
    BY <2>2
<1>4. Len(items) \in Nat
  OBVIOUS
<1>5. 0..Len(items) \subseteq T
  <2> HIDE DEF T
  <2> QED
    BY <1>2, <1>3, <1>4, UpTo
<1> QED
  BY <1>1, <1>4, <1>5

LEMMA CharsOfNone ==
  ASSUME NEW sources
  PROVE  Chars(<<>>, sources) = 0
<1>1. <<>> \in Seq(Item) /\ Len(<<>>) = 0
  OBVIOUS
<1> QED
  BY <1>1, CharsAre

\* An item adds its characters to those of its source.
LEMMA CharsOfAppend ==
  ASSUME NEW items \in Seq(Item), NEW item \in Item, NEW sources
  PROVE  Chars(Append(items, item), sources) = Chars(items, sources) + Amount(item, sources)
<1> DEFINE more == Append(items, item)
           len == Len(items)
<1>1. /\ more \in Seq(Item) /\ len \in Nat /\ Len(more) = len + 1 /\ more[len + 1] = item
      /\ \A n \in 1..len : more[n] = items[n]
  OBVIOUS
<1> HIDE DEF more
<1>2. PICK f : /\ f[0] = 0
               /\ \A n \in 1..len : f[n] = f[n - 1] + Amount(items[n], sources)
               /\ Chars(items, sources) = f[len]
  BY CharsAre
<1>3. PICK g : /\ g[0] = 0
               /\ \A n \in 1..Len(more) : g[n] = g[n - 1] + Amount(more[n], sources)
               /\ Chars(more, sources) = g[Len(more)]
  BY <1>1, CharsAre
<1> DEFINE T == {n \in 0..len : f[n] = g[n]}
<1>4. 0 \in T
  BY <1>1, <1>2, <1>3
<1>5. \A n \in 1..len : n - 1 \in T => n \in T
  BY <1>1, <1>2, <1>3
<1>6. 0..len \subseteq T
  <2> HIDE DEF T
  <2> QED
    BY <1>1, <1>4, <1>5, UpTo
<1>7. g[len + 1] = g[len] + Amount(item, sources)
  <2>1. len + 1 \in 1..Len(more) /\ (len + 1) - 1 = len
    BY <1>1
  <2>2. g[len + 1] = g[(len + 1) - 1] + Amount(more[len + 1], sources)
    BY <1>3, <2>1
  <2> QED
    BY <1>1, <2>1, <2>2
<1>8. f[len] = g[len]
  BY <1>1, <1>6
<1> QED
  BY <1>1, <1>2, <1>3, <1>7, <1>8 DEF more

LEMMA RefsOfAppend ==
  ASSUME NEW items \in Seq(Item), NEW item
  PROVE  ItemRefs(Append(items, item)) = ItemRefs(items) \cup {item.ref}
<1> DEFINE more == Append(items, item)
<1>1. /\ DOMAIN items = 1..Len(items) /\ DOMAIN more = 1..(Len(items) + 1)
      /\ Len(items) \in Nat /\ more[Len(items) + 1] = item
      /\ \A n \in 1..Len(items) : more[n] = items[n]
  OBVIOUS
<1> HIDE DEF more
<1>2. 1..(Len(items) + 1) = (1..Len(items)) \cup {Len(items) + 1}
  BY <1>1
<1> QED
  BY <1>1, <1>2 DEF ItemRefs, more

-----------------------------------------------------------------------------
\* Tiers.

\* No item is named twice.
Once(items) == \A i, j \in DOMAIN items : items[i].ref = items[j].ref => i = j

LEMMA OnceOfAppend ==
  ASSUME NEW items \in Seq(Item), NEW item, Once(items), item.ref \notin ItemRefs(items)
  PROVE  Once(Append(items, item))
<1> DEFINE more == Append(items, item)
<1>1. /\ DOMAIN items = 1..Len(items) /\ DOMAIN more = 1..(Len(items) + 1)
      /\ Len(items) \in Nat /\ more[Len(items) + 1] = item
      /\ \A n \in 1..Len(items) : more[n] = items[n]
  OBVIOUS
<1> HIDE DEF more
<1>2. \A n \in 1..(Len(items) + 1) : n = Len(items) + 1 \/ n \in 1..Len(items)
  BY <1>1
<1>3. \A n \in 1..Len(items) : items[n].ref # item.ref
  BY <1>1 DEF ItemRefs
<1> QED
  BY <1>1, <1>2, <1>3 DEF Once, more

Tier == [used : Nat, items : Seq(Item), full : BOOLEAN]

\* What a tier is when the first n of ids are behind it: it has used what its
\* items add to those of each source, it has taken items only of its own, each
\* once, and it is full exactly if one that it should not have passed over is missing.
GoodTier(acc, cap, tier, source, items, ids, passed, n) ==
  /\ acc \in Tier
  /\ acc.used <= cap
  /\ Once(acc.items)
  /\ \A sources \in SUBSET AllSources :
       Chars(acc.items, sources) =
         Chars(items, sources) + (IF source \in sources THEN acc.used ELSE 0)
  /\ ItemRefs(items) \subseteq ItemRefs(acc.items)
  /\ \A ref \in ItemRefs(acc.items) :
       ref \in ItemRefs(items)
         \/ \E k \in 1..n : ids[k] \notin passed /\ ref = <<tier, ids[k]>>
  /\ acc.full <=> \E k \in 1..n : /\ ids[k] \notin passed
                                  /\ <<tier, ids[k]>> \notin ItemRefs(acc.items)

LEMMA EmptyTier ==
  ASSUME NEW items \in Seq(Item), Once(items), NEW cap \in Nat, NEW tier, NEW source,
         NEW ids, NEW passed
  PROVE  GoodTier(Empty(items), cap, tier, source, items, ids, passed, 0)
<1>1. /\ Empty(items) \in Tier /\ Empty(items).used = 0 /\ Empty(items).items = items
      /\ Empty(items).full = FALSE
  BY DEF Empty, Tier
<1>2. \A sources \in SUBSET AllSources :
        Chars(items, sources) =
          Chars(items, sources) + (IF source \in sources THEN 0 ELSE 0)
  BY CharsType
<1> HIDE DEF Tier
<1> QED
  BY <1>1, <1>2 DEF GoodTier

\* What may become of an item: the tier has it behind it, or leaves it out, or
\* admits it, if it fits.
LEMMA NextOfTier ==
  ASSUME NEW acc, NEW new, NEW cap \in Nat, NEW tier, NEW source, NEW ids,
         NEW items \in Seq(Item), NEW passed, NEW n \in Nat \ {0}, NEW t \in Nat,
         GoodTier(acc, cap, tier, source, items, ids, passed, n - 1),
         <<tier, ids[n]>> \in Refs, source \in AllSources,
         \A k \in 1..(n - 1) : ids[k] # ids[n],
         ids[n] \notin passed => <<tier, ids[n]>> \notin ItemRefs(items),
         \/ new = acc /\ (ids[n] \in passed \/ acc.full)
         \/ new = [acc EXCEPT !.full = TRUE] /\ ids[n] \notin passed
         \/ /\ new = Admitted(acc, tier, source, ids[n], t) /\ ids[n] \notin passed
            /\ acc.used + t <= cap
  PROVE  GoodTier(new, cap, tier, source, items, ids, passed, n)
<1> DEFINE item == [ref |-> <<tier, ids[n]>>, source |-> source, chars |-> t]
           ref == <<tier, ids[n]>>
<1>1. n - 1 \in Nat /\ 1..n = (1..(n - 1)) \cup {n} /\ n \in 1..n
  OBVIOUS
<1>2. acc \in Tier /\ acc.items \in Seq(Item) /\ acc.used \in Nat /\ acc.full \in BOOLEAN
  BY DEF GoodTier, Tier
<1>3. ids[n] \notin passed => ref \notin ItemRefs(acc.items)
  BY DEF GoodTier
<1>4. CASE new = acc /\ (ids[n] \in passed \/ acc.full)
  <2>1. acc.full <=> \E k \in 1..n : /\ ids[k] \notin passed
                                     /\ <<tier, ids[k]>> \notin ItemRefs(acc.items)
    BY <1>1, <1>4 DEF GoodTier
  <2>2. \A r \in ItemRefs(acc.items) :
          r \in ItemRefs(items) \/ \E k \in 1..n : ids[k] \notin passed /\ r = <<tier, ids[k]>>
    BY <1>1 DEF GoodTier
  <2> QED
    BY <1>4, <2>1, <2>2 DEF GoodTier
<1>5. CASE new = [acc EXCEPT !.full = TRUE] /\ ids[n] \notin passed
  <2>1. new \in Tier /\ new.full = TRUE /\ new.used = acc.used /\ new.items = acc.items
    BY <1>2, <1>5 DEF Tier
  <2>2. \A r \in ItemRefs(acc.items) :
          r \in ItemRefs(items) \/ \E k \in 1..n : ids[k] \notin passed /\ r = <<tier, ids[k]>>
    BY <1>1 DEF GoodTier
  <2>3. \E k \in 1..n : ids[k] \notin passed /\ <<tier, ids[k]>> \notin ItemRefs(new.items)
    BY <1>1, <1>3, <1>5, <2>1
  <2>4. new.full <=> \E k \in 1..n : /\ ids[k] \notin passed
                                     /\ <<tier, ids[k]>> \notin ItemRefs(new.items)
    BY <2>1, <2>3
  <2>5. /\ \A r \in ItemRefs(new.items) :
             \/ r \in ItemRefs(items)
             \/ \E k \in 1..n : ids[k] \notin passed /\ r = <<tier, ids[k]>>
        /\ ItemRefs(items) \subseteq ItemRefs(new.items)
    BY <2>1, <2>2 DEF GoodTier
  <2>6. \A sources \in SUBSET AllSources :
          Chars(new.items, sources) =
            Chars(items, sources) + (IF source \in sources THEN new.used ELSE 0)
    BY <2>1 DEF GoodTier
  <2>7. new.used <= cap /\ Once(new.items)
    BY <2>1 DEF GoodTier
  <2> QED
    BY <2>1, <2>4, <2>5, <2>6, <2>7 DEF GoodTier
<1>6. CASE /\ new = Admitted(acc, tier, source, ids[n], t) /\ ids[n] \notin passed
           /\ acc.used + t <= cap
  <2>1. item \in Item /\ Amount(item, AllSources) = t
    BY DEF Item, AllSources, Amount
  <2>2. /\ new.used = acc.used + t /\ new.items = Append(acc.items, item)
        /\ new.full = acc.full /\ new = [used |-> new.used, items |-> new.items,
                                         full |-> new.full]
    BY <1>2, <1>6 DEF Admitted, Tier
  <2>3. new.items \in Seq(Item) /\ new.used \in Nat
    BY <1>2, <2>1, <2>2
  <2>4. new \in Tier
    BY <1>2, <2>2, <2>3 DEF Tier
  <2>5. ItemRefs(new.items) = ItemRefs(acc.items) \cup {ref}
    BY <1>2, <2>2, RefsOfAppend
  <2>6. ASSUME NEW sources \in SUBSET AllSources
        PROVE  Chars(new.items, sources) =
                 Chars(items, sources) + (IF source \in sources THEN new.used ELSE 0)
    <3>1. Chars(new.items, sources) = Chars(acc.items, sources) + Amount(item, sources)
      BY <1>2, <2>1, <2>2, CharsOfAppend
    <3>2. Amount(item, sources) = IF source \in sources THEN t ELSE 0
      BY DEF Amount
    <3>3. Chars(acc.items, sources) =
            Chars(items, sources) + (IF source \in sources THEN acc.used ELSE 0)
      BY DEF GoodTier
    <3>4. Chars(acc.items, sources) \in Nat /\ Chars(items, sources) \in Nat
      BY <1>2, CharsType
    <3>5. CASE source \in sources
      BY <1>2, <2>2, <3>1, <3>2, <3>3, <3>4, <3>5
    <3>6. CASE source \notin sources
      BY <1>2, <2>2, <3>1, <3>2, <3>3, <3>4, <3>6
    <3> QED
      BY <3>5, <3>6
  <2>7. \A r \in ItemRefs(new.items) :
          r \in ItemRefs(items) \/ \E k \in 1..n : ids[k] \notin passed /\ r = <<tier, ids[k]>>
    BY <1>1, <1>6, <2>5 DEF GoodTier
  <2>8. \A k \in 1..(n - 1) : <<tier, ids[k]>> # ref
    OBVIOUS
  <2>9. new.full <=> \E k \in 1..n : /\ ids[k] \notin passed
                                     /\ <<tier, ids[k]>> \notin ItemRefs(new.items)
    BY <1>1, <2>2, <2>5, <2>8 DEF GoodTier
  <2>10. ItemRefs(items) \subseteq ItemRefs(new.items)
    BY <2>5 DEF GoodTier
  <2>11. Once(new.items)
    <3>1. Once(acc.items)
      BY DEF GoodTier
    <3> QED
      BY <1>2, <1>3, <1>6, <2>2, <3>1, OnceOfAppend
  <2> QED
    BY <1>6, <2>2, <2>4, <2>6, <2>7, <2>9, <2>10, <2>11 DEF GoodTier
<1> QED
  BY <1>4, <1>5, <1>6

LEMMA LengthType ==
  ASSUME NEW x \in Atoms \cup Scenes, NEW itemCap \in Nat
  PROVE  Truncated(Length(x), itemCap) \in Nat
<1>1. Length(x) \in Nat
  BY RecallAssumption
<1> DEFINE len == Length(x)
<1> HIDE DEF len
<1>2. \A m \in Nat : Truncated(m, itemCap) \in Nat
  BY DEF Truncated, AtLeast
<1> QED
  BY <1>1, <1>2

\* What the pinned tier does with an atom keeps it a good one.
LEMMA PinStep ==
  ASSUME NEW cap \in Nat, NEW atoms \in Seq(Atoms), NEW n \in 1..Len(atoms),
         \A k \in 1..(n - 1) : atoms[k] # atoms[n],
         NEW acc, GoodTier(acc, cap, "T1", "pinned", <<>>, atoms, {}, n - 1)
  PROVE  GoodTier(Pin(acc, cap, atoms[n]), cap, "T1", "pinned", <<>>, atoms, {}, n)
<1> DEFINE t == Truncated(Length(atoms[n]), AtomItemCap)
           new == Pin(acc, cap, atoms[n])
<1>1. atoms[n] \in Atoms /\ n \in Nat \ {0} /\ <<>> \in Seq(Item)
  OBVIOUS
<1>2. t \in Nat /\ <<"T1", atoms[n]>> \in Refs /\ "pinned" \in AllSources
  BY <1>1, LengthType, RecallAssumption DEF Refs, AllSources
<1>3. acc.full \in BOOLEAN /\ acc.used \in Nat /\ cap \in Int
  BY DEF GoodTier, Tier
<1>4. ItemRefs(<<>>) = {}
  BY DEF ItemRefs
<1>5. \/ new = acc /\ acc.full
      \/ new = [acc EXCEPT !.full = TRUE]
      \/ new = Admitted(acc, "T1", "pinned", atoms[n], t) /\ acc.used + t <= cap
  BY <1>2, <1>3 DEF Pin
<1> HIDE DEF t, new
<1> QED
  BY <1>1, <1>2, <1>4, <1>5, NextOfTier DEF new

LEMMA AdmittedType ==
  ASSUME NEW acc \in Tier, NEW tier, NEW source \in AllSources, NEW id, NEW t \in Nat,
         <<tier, id>> \in Refs
  PROVE  Admitted(acc, tier, source, id, t) \in Tier
<1> DEFINE item == [ref |-> <<tier, id>>, source |-> source, chars |-> t]
<1>1. item \in Item
  BY DEF Item, AllSources
<1>2. acc.items \in Seq(Item) /\ acc.used \in Nat
  BY DEF Tier
<1>3. Append(acc.items, item) \in Seq(Item) /\ acc.used + t \in Nat
  BY <1>1, <1>2
<1> HIDE DEF item
<1> QED
  BY <1>3 DEF Admitted, Tier, item

LEMMA PinType ==
  ASSUME NEW acc \in Tier, NEW cap, NEW a \in Atoms
  PROVE  Pin(acc, cap, a) \in Tier
<1>1. /\ Truncated(Length(a), AtomItemCap) \in Nat
      /\ <<"T1", a>> \in Refs /\ "pinned" \in AllSources
  BY LengthType, RecallAssumption DEF Refs, AllSources
<1>2. Admitted(acc, "T1", "pinned", a, Truncated(Length(a), AtomItemCap)) \in Tier
  BY <1>1, AdmittedType
<1>3. [acc EXCEPT !.full = TRUE] \in Tier
  BY DEF Tier
<1> QED
  BY <1>2, <1>3 DEF Pin

Pinned(f, cap, atoms) ==
  f = [n \in 0..Len(atoms) |-> IF n = 0 THEN Empty(<<>>) ELSE Pin(f[n - 1], cap, atoms[n])]

\* The pinned tier that AdmitPinned is defined by exists.
LEMMA PinnedTiers ==
  ASSUME NEW cap \in Nat, NEW atoms \in Seq(Atoms)
  PROVE  \E f : /\ f[0] = Empty(<<>>)
                /\ \A n \in 1..Len(atoms) : f[n] = Pin(f[n - 1], cap, atoms[n])
                /\ AdmitPinned(cap, atoms) = f[Len(atoms)]
<1> DEFINE len == Len(atoms)
           step == [p \in (1..len) \X Tier |-> Pin(p[2], cap, atoms[p[1]])]
<1>1. len \in Nat /\ Empty(<<>>) \in Tier
  BY DEF Empty, Tier
<1>2. ASSUME NEW n \in 1..len, NEW acc \in Tier
      PROVE  Pin(acc, cap, atoms[n]) \in Tier
  BY PinType
<1>3. step \in [(1..len) \X Tier -> Tier]
  BY <1>2
<1>4. \A n \in 1..len, acc \in Tier : step[<<n, acc>>] = Pin(acc, cap, atoms[n])
  OBVIOUS
<1> HIDE DEF step
<1>5. PICK g \in [0..len -> Tier] : Solves(g, len, Empty(<<>>), step)
  BY <1>1, <1>3, Recursion
<1>6. Pinned(g, cap, atoms)
  <2>1. \A n \in 0..len : g[n] = IF n = 0 THEN Empty(<<>>) ELSE step[<<n, g[n - 1]>>]
    BY <1>5 DEF Solves
  <2>2. ASSUME NEW n \in 1..len
        PROVE  step[<<n, g[n - 1]>>] = Pin(g[n - 1], cap, atoms[n])
    <3>1. n - 1 \in 0..len
      BY <1>1
    <3>2. g[n - 1] \in Tier
      BY <1>5, <3>1
    <3> QED
      BY <1>4, <3>2
  <2>3. \A n \in 0..len : n = 0 \/ n \in 1..len
    BY <1>1
  <2>4. \A n \in 0..len : g[n] = IF n = 0 THEN Empty(<<>>) ELSE Pin(g[n - 1], cap, atoms[n])
    BY <2>1, <2>2, <2>3, Zenon
  <2>5. g = [n \in 0..len |-> g[n]]
    BY <1>5
  <2> QED
    BY <2>4, <2>5, Zenon DEF Pinned
<1> DEFINE f == CHOOSE h : Pinned(h, cap, atoms)
<1>7. Pinned(f, cap, atoms)
  BY <1>6
<1>8. AdmitPinned(cap, atoms) = f[len]
  BY Zenon DEF AdmitPinned, Pinned
<1> HIDE DEF f
<1>9. \A n \in 0..len : f[n] = IF n = 0 THEN Empty(<<>>) ELSE Pin(f[n - 1], cap, atoms[n])
  BY <1>7, Zenon DEF Pinned
<1>10. f[0] = Empty(<<>>) /\ \A n \in 1..len : f[n] = Pin(f[n - 1], cap, atoms[n])
  <2>1. 0 \in 0..len /\ \A n \in 1..len : n \in 0..len /\ n # 0
    BY <1>1
  <2> QED
    BY <1>9, <2>1, Zenon
<1> QED
  BY <1>8, <1>10

\* The pinned tier stays within its share, and is full exactly if a pinned atom
\* is missing.
LEMMA PinnedTier ==
  ASSUME NEW cap \in Nat, NEW atoms \in Seq(Atoms),
         \A i, j \in 1..Len(atoms) : i # j => atoms[i] # atoms[j]
  PROVE  GoodTier(AdmitPinned(cap, atoms), cap, "T1", "pinned", <<>>, atoms, {}, Len(atoms))
<1>1. PICK f : /\ f[0] = Empty(<<>>)
               /\ \A n \in 1..Len(atoms) : f[n] = Pin(f[n - 1], cap, atoms[n])
               /\ AdmitPinned(cap, atoms) = f[Len(atoms)]
  BY PinnedTiers
<1> DEFINE T == {n \in 0..Len(atoms) : GoodTier(f[n], cap, "T1", "pinned", <<>>, atoms, {}, n)}
<1>2. Len(atoms) \in Nat /\ <<>> \in Seq(Item)
  OBVIOUS
<1>3. 0 \in T
  <2>1. GoodTier(Empty(<<>>), cap, "T1", "pinned", <<>>, atoms, {}, 0)
    <3>1. Once(<<>>)
      BY DEF Once
    <3> QED
      BY <1>2, <3>1, EmptyTier
  <2>2. 0 \in 0..Len(atoms) /\ GoodTier(f[0], cap, "T1", "pinned", <<>>, atoms, {}, 0)
    BY <1>1, <1>2, <2>1
  <2> QED
    BY <2>2
<1>4. ASSUME NEW n \in 1..Len(atoms), n - 1 \in T
      PROVE  n \in T
  <2>1. GoodTier(f[n - 1], cap, "T1", "pinned", <<>>, atoms, {}, n - 1)
    BY <1>4
  <2>2. \A k \in 1..(n - 1) : atoms[k] # atoms[n]
    BY <1>2
  <2>3. GoodTier(Pin(f[n - 1], cap, atoms[n]), cap, "T1", "pinned", <<>>, atoms, {}, n)
    BY <2>1, <2>2, PinStep
  <2> QED
    BY <1>1, <1>2, <2>3
<1> HIDE DEF T
<1>5. 0..Len(atoms) \subseteq T
  BY <1>2, <1>3, <1>4, UpTo
<1> QED
  BY <1>1, <1>2, <1>5 DEF T

\* What the other tiers leave out would not fit.
Misfits(acc, cap, tier, itemCap, ids, passed, n) ==
  \A k \in 1..n :
    ids[k] \notin passed /\ <<tier, ids[k]>> \notin ItemRefs(acc.items) =>
      acc.used + Truncated(Length(ids[k]), itemCap) > cap

LEMMA RankType ==
  ASSUME NEW acc \in Tier, NEW tier, NEW source \in AllSources, NEW itemCap \in Nat, NEW cap,
         NEW x \in Atoms \cup Scenes, <<tier, x>> \in Refs
  PROVE  Rank(acc, tier, source, itemCap, cap, x) \in Tier
<1>1. Truncated(Length(x), itemCap) \in Nat
  BY LengthType
<1>2. Admitted(acc, tier, source, x, Truncated(Length(x), itemCap)) \in Tier
  BY <1>1, AdmittedType
<1>3. [acc EXCEPT !.full = TRUE] \in Tier
  BY DEF Tier
<1> QED
  BY <1>2, <1>3 DEF Rank

Ranked(acc, tier, source, itemCap, cap, passed, x) ==
  IF x \in passed THEN acc ELSE Rank(acc, tier, source, itemCap, cap, x)

\* What another tier does with an item keeps it a good one.
LEMMA RankedStep ==
  ASSUME NEW cap \in Nat, NEW itemCap \in Nat, NEW tier, NEW source \in AllSources,
         NEW items \in Seq(Item), NEW ids \in Seq(Atoms \cup Scenes), NEW passed,
         NEW n \in 1..Len(ids),
         <<tier, ids[n]>> \in Refs, \A k \in 1..(n - 1) : ids[k] # ids[n],
         ids[n] \notin passed => <<tier, ids[n]>> \notin ItemRefs(items),
         NEW acc, GoodTier(acc, cap, tier, source, items, ids, passed, n - 1),
         Misfits(acc, cap, tier, itemCap, ids, passed, n - 1),
         NEW new, new = Ranked(acc, tier, source, itemCap, cap, passed, ids[n])
  PROVE  /\ GoodTier(new, cap, tier, source, items, ids, passed, n)
         /\ Misfits(new, cap, tier, itemCap, ids, passed, n)
<1> DEFINE t == Truncated(Length(ids[n]), itemCap)
<1>1. /\ n \in Nat \ {0} /\ t \in Nat /\ ids[n] \in Atoms \cup Scenes
      /\ \A k \in 1..n : Truncated(Length(ids[k]), itemCap) \in Nat
  BY LengthType
<1>2. acc \in Tier /\ acc.full \in BOOLEAN /\ acc.used \in Nat /\ acc.items \in Seq(Item)
  BY DEF GoodTier, Tier
<1>3. \/ new = acc /\ ids[n] \in passed
      \/ /\ new = [acc EXCEPT !.full = TRUE] /\ ids[n] \notin passed
         /\ acc.used + t > cap
      \/ /\ new = Admitted(acc, tier, source, ids[n], t) /\ ids[n] \notin passed
         /\ acc.used + t <= cap
  BY <1>1, <1>2 DEF Ranked, Rank
<1>4. \A k \in 1..n : k = n \/ k \in 1..(n - 1)
  BY <1>1
<1> HIDE DEF t
<1>5. GoodTier(new, cap, tier, source, items, ids, passed, n)
  BY <1>1, <1>3, NextOfTier
<1>6. ASSUME NEW k \in 1..n, ids[k] \notin passed,
             <<tier, ids[k]>> \notin ItemRefs(new.items)
      PROVE  new.used + Truncated(Length(ids[k]), itemCap) > cap
  <2>1. CASE new = acc /\ ids[n] \in passed
    BY <1>4, <1>6, <2>1 DEF Misfits
  <2>2. CASE /\ new = [acc EXCEPT !.full = TRUE] /\ ids[n] \notin passed
             /\ acc.used + t > cap
    <3>1. new.used = acc.used /\ new.items = acc.items
      BY <1>2, <2>2 DEF Tier
    <3>2. CASE k = n
      BY <2>2, <3>1, <3>2 DEF t
    <3> QED
      BY <1>4, <1>6, <3>1, <3>2 DEF Misfits
  <2>3. CASE /\ new = Admitted(acc, tier, source, ids[n], t) /\ ids[n] \notin passed
             /\ acc.used + t <= cap
    <3> DEFINE item == [ref |-> <<tier, ids[n]>>, source |-> source, chars |-> t]
    <3>1. new.used = acc.used + t /\ new.items = Append(acc.items, item)
      BY <1>2, <2>3 DEF Admitted, Tier
    <3>2. ItemRefs(new.items) = ItemRefs(acc.items) \cup {<<tier, ids[n]>>}
      BY <1>2, <3>1, RefsOfAppend
    <3>3. k \in 1..(n - 1) /\ <<tier, ids[k]>> \notin ItemRefs(acc.items)
      BY <1>4, <1>6, <3>2
    <3>4. acc.used + Truncated(Length(ids[k]), itemCap) > cap
      BY <1>6, <3>3 DEF Misfits
    <3> QED
      BY <1>1, <1>2, <3>1, <3>4
  <2> QED
    BY <1>3, <2>1, <2>2, <2>3
<1> QED
  BY <1>5, <1>6 DEF Misfits

RankedAll(f, tier, source, itemCap, cap, items, ids, passed) ==
  f = [n \in 0..Len(ids) |->
         IF n = 0 THEN Empty(items)
         ELSE Ranked(f[n - 1], tier, source, itemCap, cap, passed, ids[n])]

\* f goes through ids from one item to the next, and acc is what comes out.
GoesThrough(f, acc, tier, source, itemCap, cap, items, ids, passed) ==
  /\ f[0] = Empty(items)
  /\ \A n \in 1..Len(ids) :
       f[n] = Ranked(f[n - 1], tier, source, itemCap, cap, passed, ids[n])
  /\ acc = f[Len(ids)]

\* The tier that AdmitRanked is defined by exists.
LEMMA RankedTiers ==
  ASSUME NEW cap \in Nat, NEW itemCap \in Nat, NEW tier, NEW source \in AllSources,
         NEW items \in Seq(Item), NEW ids \in Seq(Atoms \cup Scenes), NEW passed,
         \A n \in 1..Len(ids) : <<tier, ids[n]>> \in Refs
  PROVE  \E f : GoesThrough(f, AdmitRanked(tier, source, itemCap, cap, items, ids, passed),
                            tier, source, itemCap, cap, items, ids, passed)
<1> DEFINE len == Len(ids)
           Op(acc, n) == Ranked(acc, tier, source, itemCap, cap, passed, ids[n])
           step == [p \in (1..len) \X Tier |-> Op(p[2], p[1])]
           Is(h) == RankedAll(h, tier, source, itemCap, cap, items, ids, passed)
<1>1. len \in Nat /\ Empty(items) \in Tier
  BY DEF Empty, Tier
<1>2. ASSUME NEW n \in 1..len, NEW acc \in Tier
      PROVE  Op(acc, n) \in Tier
  <2>1. ids[n] \in Atoms \cup Scenes /\ <<tier, ids[n]>> \in Refs
    OBVIOUS
  <2>2. Rank(acc, tier, source, itemCap, cap, ids[n]) \in Tier
    BY <2>1, RankType
  <2> QED
    BY <2>2 DEF Ranked
<1>3. step \in [(1..len) \X Tier -> Tier]
  BY <1>2
<1>4. \A n \in 1..len, acc \in Tier : step[<<n, acc>>] = Op(acc, n)
  OBVIOUS
<1> HIDE DEF step
<1>5. PICK g \in [0..len -> Tier] : Solves(g, len, Empty(items), step)
  BY <1>1, <1>3, Recursion
<1>6. Is(g)
  <2>1. \A n \in 0..len : g[n] = IF n = 0 THEN Empty(items) ELSE step[<<n, g[n - 1]>>]
    BY <1>5 DEF Solves
  <2>2. ASSUME NEW n \in 1..len
        PROVE  step[<<n, g[n - 1]>>] = Op(g[n - 1], n)
    <3>1. n - 1 \in 0..len
      BY <1>1
    <3>2. g[n - 1] \in Tier
      BY <1>5, <3>1
    <3> QED
      BY <1>4, <3>2
  <2>3. \A n \in 0..len : n = 0 \/ n \in 1..len
    BY <1>1
  <2>4. \A n \in 0..len : g[n] = IF n = 0 THEN Empty(items) ELSE Op(g[n - 1], n)
    BY <2>1, <2>2, <2>3, Zenon
  <2>5. g = [n \in 0..len |-> g[n]]
    BY <1>5
  <2> QED
    BY <2>4, <2>5, Zenon DEF RankedAll
<1> DEFINE f == CHOOSE h : Is(h)
<1>7. Is(f)
  BY <1>6
<1>8. AdmitRanked(tier, source, itemCap, cap, items, ids, passed) = f[len]
  BY Zenon DEF AdmitRanked, RankedAll, Ranked
<1> HIDE DEF f
<1>9. \A n \in 0..len : f[n] = IF n = 0 THEN Empty(items) ELSE Op(f[n - 1], n)
  BY <1>7, Zenon DEF RankedAll
<1>10. f[0] = Empty(items) /\ \A n \in 1..len : f[n] = Op(f[n - 1], n)
  <2>1. 0 \in 0..len /\ \A n \in 1..len : n \in 0..len /\ n # 0
    BY <1>1
  <2> QED
    BY <1>9, <2>1, Zenon
<1> QED
  BY <1>8, <1>10 DEF GoesThrough

\* Another tier stays within what it may use, is full exactly if an item is
\* missing, and an item is missing only if it would not fit.
LEMMA RankedTier ==
  ASSUME NEW cap \in Nat, NEW itemCap \in Nat, NEW tier, NEW source \in AllSources,
         NEW items \in Seq(Item), Once(items), NEW ids \in Seq(Atoms \cup Scenes), NEW passed,
         \A i, j \in 1..Len(ids) : i # j => ids[i] # ids[j],
         \A n \in 1..Len(ids) :
           /\ <<tier, ids[n]>> \in Refs
           /\ ids[n] \notin passed => <<tier, ids[n]>> \notin ItemRefs(items),
         NEW acc, acc = AdmitRanked(tier, source, itemCap, cap, items, ids, passed)
  PROVE  /\ GoodTier(acc, cap, tier, source, items, ids, passed, Len(ids))
         /\ Misfits(acc, cap, tier, itemCap, ids, passed, Len(ids))
<1>1. PICK f : GoesThrough(f, acc, tier, source, itemCap, cap, items, ids, passed)
  <2>1. \A n \in 1..Len(ids) : <<tier, ids[n]>> \in Refs
    OBVIOUS
  <2> QED
    BY <2>1, RankedTiers
<1> DEFINE Good(n) == /\ GoodTier(f[n], cap, tier, source, items, ids, passed, n)
                      /\ Misfits(f[n], cap, tier, itemCap, ids, passed, n)
           T == {n \in 0..Len(ids) : Good(n)}
<1>2. Len(ids) \in Nat
  OBVIOUS
<1>3. 0 \in T
  <2>1. GoodTier(Empty(items), cap, tier, source, items, ids, passed, 0)
    BY EmptyTier
  <2>2. Misfits(Empty(items), cap, tier, itemCap, ids, passed, 0)
    BY DEF Misfits
  <2>3. 0 \in 0..Len(ids) /\ Good(0)
    BY <1>1, <1>2, <2>1, <2>2 DEF GoesThrough
  <2> QED
    BY <2>3
<1>4. ASSUME NEW n \in 1..Len(ids), n - 1 \in T
      PROVE  n \in T
  <2>1. Good(n - 1)
    BY <1>4
  <2>2. \A k \in 1..(n - 1) : ids[k] # ids[n]
    BY <1>2
  <2>3. f[n] = Ranked(f[n - 1], tier, source, itemCap, cap, passed, ids[n])
    BY <1>1 DEF GoesThrough
  <2>4. Good(n)
    BY <2>1, <2>2, <2>3, RankedStep
  <2> QED
    BY <1>2, <2>4
<1> HIDE DEF T
<1>5. 0..Len(ids) \subseteq T
  BY <1>2, <1>3, <1>4, UpTo
<1> QED
  BY <1>1, <1>2, <1>5 DEF T, GoesThrough

-----------------------------------------------------------------------------
\* Budgets and hits.

\* The shares of the tiers leave nothing over.
LEMMA Shares ==
  ASSUME NEW b \in Nat
  PROVE  /\ PinnedShare(b) \in Nat /\ AtomsShare(b) \in Nat /\ ScenesShare(b) \in Nat
         /\ CoreShare(b) \in Nat
         /\ PinnedShare(b) + AtomsShare(b) + ScenesShare(b) + CoreShare(b) = b
<1>1. /\ PinnedPercent \in Nat /\ AtomsPercent \in Nat /\ ScenesPercent \in Nat
      /\ PinnedPercent + AtomsPercent + ScenesPercent <= 100
  BY RecallAssumption
<1>2. ASSUME NEW p \in Nat
      PROVE  b * p \in Nat
  OBVIOUS
<1> DEFINE x == b * PinnedPercent
           y == b * AtomsPercent
           z == b * ScenesPercent
<1>3. x \in Nat /\ y \in Nat /\ z \in Nat
  BY <1>1, <1>2
<1>4. ASSUME NEW p \in Nat, NEW q \in Nat, NEW r \in Nat, p + q + r <= 100
      PROVE  b * p + b * q + b * r <= b * 100
  <2>1. b * p + b * q + b * r = b * (p + q + r)
    OBVIOUS
  <2>2. \A s \in Nat : s <= 100 => b * s <= b * 100
    OBVIOUS
  <2> QED
    BY <1>4, <2>1, <2>2
<1>5. x + y + z <= b * 100
  BY <1>1, <1>4
<1> HIDE DEF x, y, z
<1>6. (x \div 100) + (y \div 100) + (z \div 100) <= b
  BY <1>3, <1>5
<1>7. x \div 100 \in Nat /\ y \div 100 \in Nat /\ z \div 100 \in Nat
  BY <1>3
<1>8. PinnedShare(b) = x \div 100 /\ AtomsShare(b) = y \div 100 /\ ScenesShare(b) = z \div 100
  BY DEF PinnedShare, AtomsShare, ScenesShare, Share, x, y, z
<1> QED
  BY <1>6, <1>7, <1>8 DEF CoreShare

LEMMA BudgetType ==
  ASSUME NEW budget \in McpBudgets \cup HttpBudgets
  PROVE  budget \in Nat
BY RecallAssumption DEF McpBudgets, HttpBudgets, Defaults, AtMost

\* What is found is found once.
LEMMA OrderFacts ==
  ASSUME NEW S, IsFiniteSet(S), NEW order \in SetToSeqs(S)
  PROVE  /\ order \in Seq(S)
         /\ \A i, j \in 1..Len(order) : i # j => order[i] # order[j]
<1>1. Cardinality(S) \in Nat
  BY FS_CardinalityType
<1>2. /\ order \in [1..Cardinality(S) -> S]
      /\ \A i, j \in 1..Cardinality(S) : i # j => order[i] # order[j]
  BY DEF SetToSeqs
<1>3. order \in Seq(S) /\ Len(order) = Cardinality(S)
  BY <1>1, <1>2
<1> QED
  BY <1>2, <1>3

LEMMA HitFacts ==
  ASSUME NEW rows, NEW live, NEW limit, IsFiniteSet(live), NEW hits \in Hits(rows, live, limit)
  PROVE  /\ hits \in Seq(live)
         /\ \A i, j \in 1..Len(hits) : i # j => hits[i] # hits[j]
<1>1. PICK top : hits \in SetToSeqs(top \cap live)
  BY DEF Hits
<1>2. IsFiniteSet(top \cap live) /\ top \cap live \subseteq live
  BY FS_Subset
<1>3. hits \in Seq(top \cap live)
  BY <1>1, <1>2, OrderFacts
<1>4. hits \in Seq(live)
  BY <1>3
<1> QED
  BY <1>1, <1>2, <1>4, OrderFacts

LEMMA SetOfSeq ==
  ASSUME NEW S, NEW s \in Seq(S)
  PROVE  ToSet(s) = {s[k] : k \in 1..Len(s)} /\ ToSet(s) \subseteq S
BY DEF ToSet

-----------------------------------------------------------------------------
\* What a recall is between its reads, and what it answers.

Missing(r, tier, ids) == {x \in ids : <<tier, x>> \notin ItemRefs(r.items)}

\* What is left out of the ranked atoms would not fit in what is left.
LeftOut(r) ==
  \A a \in r.found \ r.first :
    <<"T1", a>> \notin ItemRefs(r.items) =>
      Chars(r.items, {"pinned", "ranked"}) + Truncated(Length(a), AtomItemCap)
        > PinnedShare(r.budget) + AtomsShare(r.budget)

AfterPinned(r) ==
  /\ Chars(r.items, {"pinned"}) <= PinnedShare(r.budget)
  /\ \A sources \in SUBSET AllSources :
       Chars(r.items, sources) = IF "pinned" \in sources THEN Chars(r.items, {"pinned"}) ELSE 0
  /\ \A ref \in ItemRefs(r.items) : \E a \in r.first : ref = <<"T1", a>>
  /\ r.truncated <=> Missing(r, "T1", r.first) # {}
  /\ Once(r.items)

AfterRanked(r) ==
  /\ Chars(r.items, {"pinned"}) <= PinnedShare(r.budget)
  /\ Chars(r.items, {"pinned", "ranked"}) <= PinnedShare(r.budget) + AtomsShare(r.budget)
  /\ Chars(r.items, {"pinned", "ranked", "scene"}) = Chars(r.items, {"pinned", "ranked"})
  /\ Chars(r.items, AllSources) = Chars(r.items, {"pinned", "ranked"})
  /\ Chars(r.items, {"core"}) = 0
  /\ \A ref \in ItemRefs(r.items) : \E a \in Atoms : ref = <<"T1", a>>
  /\ LeftOut(r)
  /\ r.truncated <=> Missing(r, "T1", r.first \cup r.found) # {}
  /\ Once(r.items)

AfterScenes(r) ==
  /\ Chars(r.items, {"pinned"}) <= PinnedShare(r.budget)
  /\ Chars(r.items, {"pinned", "ranked"}) <= PinnedShare(r.budget) + AtomsShare(r.budget)
  /\ Chars(r.items, {"pinned", "ranked", "scene"}) <= r.budget - CoreShare(r.budget)
  /\ Chars(r.items, AllSources) = Chars(r.items, {"pinned", "ranked", "scene"})
  /\ Chars(r.items, {"core"}) = 0
  /\ LeftOut(r)
  /\ r.truncated <=> \/ Missing(r, "T1", r.first \cup r.found) # {}
                     \/ Missing(r, "T2", r.scenes) # {}
  /\ Once(r.items)
  /\ <<"T3", "core">> \notin ItemRefs(r.items)

Assembled(r) ==
  /\ Chars(r.items, {"pinned"}) <= PinnedShare(r.budget)
  /\ Chars(r.items, {"pinned", "ranked"}) <= PinnedShare(r.budget) + AtomsShare(r.budget)
  /\ Chars(r.items, {"pinned", "ranked", "scene"}) <= r.budget - CoreShare(r.budget)
  /\ Chars(r.items, AllSources) <= r.budget
  /\ LeftOut(r)
  /\ r.truncated <=> \/ Missing(r, "T1", r.first \cup r.found) # {}
                     \/ Missing(r, "T2", r.scenes) # {}
                     \/ Chars(r.items, {"core"}) < r.core

Requests == [phase : {"idle", "embed_atoms", "embed_scenes", "done"},
             budget : Nat, first : SUBSET Atoms, found : SUBSET Atoms,
             scenes : SUBSET Scenes, core : CoreLengths \cup {0},
             items : Seq(Item), truncated : BOOLEAN, id : 0..MaxRecalls]

\* The pinned tier of a recall.
LEMMA Pinning ==
  ASSUME NEW b \in Nat, NEW order \in Seq(Atoms),
         \A i, j \in 1..Len(order) : i # j => order[i] # order[j],
         NEW tier, tier = AdmitPinned(PinnedShare(b), order),
         NEW r, r.budget = b, r.items = tier.items, r.first = ToSet(order),
         r.truncated = tier.full
  PROVE  tier \in Tier /\ AfterPinned(r)
<1> DEFINE cap == PinnedShare(b)
<1>1. cap \in Nat
  BY Shares
<1>2. GoodTier(tier, cap, "T1", "pinned", <<>>, order, {}, Len(order))
  BY <1>1, PinnedTier
<1>3. tier \in Tier /\ tier.used \in Nat /\ tier.used <= cap /\ tier.full \in BOOLEAN
  BY <1>2 DEF GoodTier, Tier
<1>4. \A sources \in SUBSET AllSources :
        Chars(r.items, sources) = IF "pinned" \in sources THEN tier.used ELSE 0
  <2>1. \A sources \in SUBSET AllSources :
          Chars(r.items, sources) =
            Chars(<<>>, sources) + (IF "pinned" \in sources THEN tier.used ELSE 0)
    BY <1>2 DEF GoodTier
  <2> QED
    BY <1>3, <2>1, CharsOfNone
<1>5. Chars(r.items, {"pinned"}) = tier.used
  BY <1>4 DEF AllSources
<1>6. ASSUME NEW ref \in ItemRefs(r.items)
      PROVE  \E a \in r.first : ref = <<"T1", a>>
  <2>1. ref \in ItemRefs(<<>>) \/ \E k \in 1..Len(order) : ref = <<"T1", order[k]>>
    BY <1>2 DEF GoodTier
  <2>2. ItemRefs(<<>>) = {}
    BY DEF ItemRefs
  <2> QED
    BY <2>1, <2>2, SetOfSeq
<1>7. r.truncated <=> Missing(r, "T1", r.first) # {}
  <2>1. tier.full <=> \E k \in 1..Len(order) :
                        /\ order[k] \notin {}
                        /\ <<"T1", order[k]>> \notin ItemRefs(tier.items)
    BY <1>2 DEF GoodTier
  <2>2. r.first = {order[k] : k \in 1..Len(order)}
    BY SetOfSeq
  <2> QED
    BY <2>1, <2>2 DEF Missing
<1> QED
  BY <1>2, <1>3, <1>4, <1>5, <1>6, <1>7 DEF AfterPinned, GoodTier

\* The ranked atoms of a recall, after the pinned ones.
LEMMA Ranking ==
  ASSUME NEW q \in Requests, AfterPinned(q), NEW hits \in Seq(Atoms),
         \A i, j \in 1..Len(hits) : i # j => hits[i] # hits[j],
         NEW tier,
         tier = AdmitRanked("T1", "ranked", AtomItemCap,
                            PinnedShare(q.budget) + AtomsShare(q.budget)
                              - Chars(q.items, {"pinned"}),
                            q.items, hits, q.first),
         NEW r, r.budget = q.budget, r.first = q.first, r.items = tier.items,
         r.found = ToSet(hits), r.truncated = (q.truncated \/ tier.full)
  PROVE  tier \in Tier /\ AfterRanked(r)
<1> DEFINE p == Chars(q.items, {"pinned"})
           P == PinnedShare(q.budget)
           A == AtomsShare(q.budget)
           cap == P + A - p
<1>1. q.budget \in Nat /\ q.items \in Seq(Item) /\ q.first \in SUBSET Atoms
      /\ q.truncated \in BOOLEAN
  BY DEF Requests
<1>2. P \in Nat /\ A \in Nat /\ p \in Nat /\ p <= P /\ AtomItemCap \in Nat
  BY <1>1, Shares, CharsType, RecallAssumption DEF AfterPinned
<1> HIDE DEF p, P, A
<1>3. cap \in Nat
  BY <1>2
<1>4. ASSUME NEW n \in 1..Len(hits)
      PROVE  /\ <<"T1", hits[n]>> \in Refs
             /\ hits[n] \notin q.first => <<"T1", hits[n]>> \notin ItemRefs(q.items)
  <2>1. hits[n] \in Atoms
    OBVIOUS
  <2>2. <<"T1", hits[n]>> \in ItemRefs(q.items) => hits[n] \in q.first
    BY DEF AfterPinned
  <2> QED
    BY <2>1, <2>2 DEF Refs
<1>5. /\ GoodTier(tier, cap, "T1", "ranked", q.items, hits, q.first, Len(hits))
      /\ Misfits(tier, cap, "T1", AtomItemCap, hits, q.first, Len(hits))
  <2>1. hits \in Seq(Atoms \cup Scenes) /\ "ranked" \in AllSources
    BY DEF AllSources
  <2>2. tier = AdmitRanked("T1", "ranked", AtomItemCap, cap, q.items, hits, q.first)
    BY DEF p, P, A
  <2>3. Once(q.items)
    BY DEF AfterPinned
  <2> QED
    BY <1>1, <1>2, <1>3, <1>4, <2>1, <2>2, <2>3, RankedTier
<1>6. tier \in Tier /\ tier.used \in Nat /\ tier.used <= cap /\ tier.full \in BOOLEAN
  BY <1>5 DEF GoodTier, Tier
<1> DEFINE used == tier.used
<1>7. used \in Nat /\ used <= P + A - p
  BY <1>6
<1> HIDE DEF used
<1>8. p + used <= P + A
  BY <1>2, <1>7
<1>9. /\ Chars(r.items, {"pinned"}) = p
      /\ Chars(r.items, {"pinned", "ranked"}) = p + tier.used
      /\ Chars(r.items, {"pinned", "ranked", "scene"}) = p + tier.used
      /\ Chars(r.items, AllSources) = p + tier.used
      /\ Chars(r.items, {"core"}) = 0
  <2>1. \A sources \in SUBSET AllSources :
          Chars(r.items, sources) =
            Chars(q.items, sources) + (IF "ranked" \in sources THEN tier.used ELSE 0)
    BY <1>5 DEF GoodTier
  <2>2. \A sources \in SUBSET AllSources :
          Chars(q.items, sources) = IF "pinned" \in sources THEN p ELSE 0
    BY DEF AfterPinned, p
  <2>3. /\ {"pinned"} \in SUBSET AllSources /\ {"pinned", "ranked"} \in SUBSET AllSources
        /\ {"pinned", "ranked", "scene"} \in SUBSET AllSources
        /\ AllSources \in SUBSET AllSources /\ {"core"} \in SUBSET AllSources
        /\ "pinned" \in AllSources /\ "ranked" \in AllSources
    BY DEF AllSources
  <2>4. \A sources \in SUBSET AllSources :
          Chars(r.items, sources) = (IF "pinned" \in sources THEN p ELSE 0)
                                      + (IF "ranked" \in sources THEN used ELSE 0)
    BY <2>1, <2>2 DEF used
  <2>5. /\ Chars(r.items, {"pinned"}) = p + 0
        /\ Chars(r.items, {"pinned", "ranked"}) = p + used
        /\ Chars(r.items, {"pinned", "ranked", "scene"}) = p + used
        /\ Chars(r.items, {"core"}) = 0 + 0
    BY <2>3, <2>4
  <2>6. Chars(r.items, AllSources) = p + used
    BY <2>3, <2>4
  <2> QED
    BY <1>2, <1>7, <2>5, <2>6 DEF used
<1>10. \A ref \in ItemRefs(r.items) : \E a \in Atoms : ref = <<"T1", a>>
  BY <1>1, <1>5 DEF GoodTier, AfterPinned
<1>11. LeftOut(r)
  <2>1. SUFFICES ASSUME NEW a \in r.found \ r.first, <<"T1", a>> \notin ItemRefs(r.items)
                 PROVE  p + tier.used + Truncated(Length(a), AtomItemCap) > P + A
    BY <1>9 DEF LeftOut, P, A
  <2>2. PICK k \in 1..Len(hits) : a = hits[k]
    BY SetOfSeq
  <2>3. tier.used + Truncated(Length(a), AtomItemCap) > cap
    BY <1>5, <2>1, <2>2 DEF Misfits
  <2> DEFINE t == Truncated(Length(a), AtomItemCap)
  <2>4. t \in Nat
    <3>1. hits[k] \in Atoms
      OBVIOUS
    <3> QED
      BY <1>2, <2>2, <3>1, LengthType
  <2>5. used + t > P + A - p
    BY <2>3 DEF used
  <2> HIDE DEF t
  <2>6. p + used + t > P + A
    BY <1>2, <1>7, <2>4, <2>5
  <2> QED
    BY <2>6 DEF t, used
<1> HIDE DEF cap
<1>12. r.truncated <=> Missing(r, "T1", r.first \cup r.found) # {}
  <2>1. tier.full <=> \E x \in r.found \ r.first : <<"T1", x>> \notin ItemRefs(r.items)
    <3>1. tier.full <=> \E k \in 1..Len(hits) :
                          /\ hits[k] \notin q.first
                          /\ <<"T1", hits[k]>> \notin ItemRefs(tier.items)
      BY <1>5 DEF GoodTier
    <3>2. r.found = {hits[k] : k \in 1..Len(hits)}
      BY SetOfSeq
    <3> QED
      BY <3>1, <3>2
  <2>2. q.truncated <=> \E x \in r.first : <<"T1", x>> \notin ItemRefs(q.items)
    BY DEF AfterPinned, Missing
  <2>3. ASSUME NEW x \in r.first
        PROVE  <<"T1", x>> \in ItemRefs(q.items) <=> <<"T1", x>> \in ItemRefs(r.items)
    <3>1. ItemRefs(q.items) \subseteq ItemRefs(r.items)
      BY <1>5 DEF GoodTier
    <3>2. <<"T1", x>> \in ItemRefs(r.items) =>
            \/ <<"T1", x>> \in ItemRefs(q.items)
            \/ \E k \in 1..Len(hits) : hits[k] \notin q.first /\ <<"T1", x>> = <<"T1", hits[k]>>
      BY <1>5 DEF GoodTier
    <3> QED
      BY <3>1, <3>2
  <2> QED
    BY <2>1, <2>2, <2>3 DEF Missing
<1>13. Once(r.items)
  BY <1>5 DEF GoodTier
<1> QED
  BY <1>2, <1>6, <1>8, <1>9, <1>10, <1>11, <1>12, <1>13 DEF AfterRanked, P, A, used

\* The scenes of a recall, after the atoms.
LEMMA Scening ==
  ASSUME NEW q \in Requests, AfterRanked(q), NEW hits \in Seq(Scenes),
         \A i, j \in 1..Len(hits) : i # j => hits[i] # hits[j],
         NEW tier,
         tier = AdmitRanked("T2", "scene", SceneItemCap,
                            PinnedShare(q.budget) + AtomsShare(q.budget)
                              + ScenesShare(q.budget)
                              - Chars(q.items, {"pinned", "ranked"}),
                            q.items, hits, {}),
         NEW r, r.budget = q.budget, r.first = q.first, r.found = q.found,
         r.items = tier.items, r.scenes = ToSet(hits),
         r.truncated = (q.truncated \/ tier.full)
  PROVE  tier \in Tier /\ AfterScenes(r)
<1> DEFINE p == Chars(q.items, {"pinned", "ranked"})
           P == PinnedShare(q.budget)
           A == AtomsShare(q.budget)
           S == ScenesShare(q.budget)
           cap == P + A + S - p
<1>1. q.budget \in Nat /\ q.items \in Seq(Item) /\ q.truncated \in BOOLEAN
  BY DEF Requests
<1>2. /\ P \in Nat /\ A \in Nat /\ S \in Nat /\ p \in Nat /\ p <= P + A
      /\ CoreShare(q.budget) \in Nat /\ q.budget - CoreShare(q.budget) = P + A + S
      /\ SceneItemCap \in Nat
  <2>1. p \in Nat /\ SceneItemCap \in Nat
    BY <1>1, CharsType, RecallAssumption
  <2>2. /\ P \in Nat /\ A \in Nat /\ S \in Nat /\ CoreShare(q.budget) \in Nat
        /\ P + A + S + CoreShare(q.budget) = q.budget
    BY <1>1, Shares
  <2>3. p <= P + A
    BY DEF AfterRanked
  <2> HIDE DEF p, P, A, S
  <2> QED
    BY <1>1, <2>1, <2>2, <2>3
<1> HIDE DEF p, P, A, S
<1>3. cap \in Nat
  BY <1>2
<1>4. ASSUME NEW n \in 1..Len(hits)
      PROVE  /\ <<"T2", hits[n]>> \in Refs
             /\ hits[n] \notin {} => <<"T2", hits[n]>> \notin ItemRefs(q.items)
  <2>1. hits[n] \in Scenes
    OBVIOUS
  <2>2. \A a : <<"T2", hits[n]>> # <<"T1", a>>
    OBVIOUS
  <2>3. <<"T2", hits[n]>> \notin ItemRefs(q.items)
    BY <2>2 DEF AfterRanked
  <2> QED
    BY <2>1, <2>3 DEF Refs
<1>5. GoodTier(tier, cap, "T2", "scene", q.items, hits, {}, Len(hits))
  <2>1. hits \in Seq(Atoms \cup Scenes) /\ "scene" \in AllSources
    BY DEF AllSources
  <2>2. tier = AdmitRanked("T2", "scene", SceneItemCap, cap, q.items, hits, {})
    BY DEF p, P, A, S
  <2>3. Once(q.items)
    BY DEF AfterRanked
  <2> QED
    BY <1>1, <1>2, <1>3, <1>4, <2>1, <2>2, <2>3, RankedTier
<1>6. tier \in Tier /\ tier.used \in Nat /\ tier.used <= cap /\ tier.full \in BOOLEAN
  BY <1>5 DEF GoodTier, Tier
<1> DEFINE used == tier.used
<1>7. used \in Nat /\ used <= P + A + S - p
  BY <1>6
<1> HIDE DEF used
<1>8. p + used <= P + A + S
  BY <1>2, <1>7
<1>9. /\ Chars(r.items, {"pinned"}) = Chars(q.items, {"pinned"})
      /\ Chars(r.items, {"pinned", "ranked"}) = p
      /\ Chars(r.items, {"pinned", "ranked", "scene"}) = p + used
      /\ Chars(r.items, AllSources) = p + used
      /\ Chars(r.items, {"core"}) = 0
  <2>1. \A sources \in SUBSET AllSources :
          Chars(r.items, sources) =
            Chars(q.items, sources) + (IF "scene" \in sources THEN used ELSE 0)
    BY <1>5 DEF GoodTier, used
  <2>2. /\ {"pinned"} \in SUBSET AllSources /\ {"pinned", "ranked"} \in SUBSET AllSources
        /\ {"pinned", "ranked", "scene"} \in SUBSET AllSources
        /\ AllSources \in SUBSET AllSources /\ {"core"} \in SUBSET AllSources
        /\ "scene" \in AllSources
    BY DEF AllSources
  <2>3. /\ Chars(r.items, {"pinned"}) = Chars(q.items, {"pinned"}) + 0
        /\ Chars(r.items, {"pinned", "ranked"}) = p + 0
        /\ Chars(r.items, {"pinned", "ranked", "scene"}) =
             Chars(q.items, {"pinned", "ranked", "scene"}) + used
        /\ Chars(r.items, {"core"}) = Chars(q.items, {"core"}) + 0
    BY <2>1, <2>2 DEF p
  <2>4. Chars(r.items, AllSources) = Chars(q.items, AllSources) + used
    BY <2>1, <2>2
  <2>5. /\ Chars(q.items, {"pinned", "ranked", "scene"}) = p
        /\ Chars(q.items, AllSources) = p /\ Chars(q.items, {"core"}) = 0
    BY DEF AfterRanked, p
  <2>6. Chars(q.items, {"pinned"}) \in Nat
    BY <1>1, CharsType
  <2> QED
    BY <1>2, <2>3, <2>4, <2>5, <2>6
<1> HIDE DEF cap
\* Scenes take no atom's place.
<1>10. ASSUME NEW a
       PROVE  <<"T1", a>> \in ItemRefs(q.items) <=> <<"T1", a>> \in ItemRefs(r.items)
  <2>1. ItemRefs(q.items) \subseteq ItemRefs(r.items)
    BY <1>5 DEF GoodTier
  <2>2. <<"T1", a>> \in ItemRefs(r.items) =>
          \/ <<"T1", a>> \in ItemRefs(q.items)
          \/ \E k \in 1..Len(hits) : <<"T1", a>> = <<"T2", hits[k]>>
    BY <1>5 DEF GoodTier
  <2>3. \A k \in 1..Len(hits) : <<"T1", a>> # <<"T2", hits[k]>>
    OBVIOUS
  <2> QED
    BY <2>1, <2>2, <2>3
<1>11. LeftOut(r)
  BY <1>9, <1>10 DEF AfterRanked, LeftOut, p
<1>12. r.truncated <=> \/ Missing(r, "T1", r.first \cup r.found) # {}
                       \/ Missing(r, "T2", r.scenes) # {}
  <2>1. tier.full <=> \E k \in 1..Len(hits) :
                        /\ hits[k] \notin {}
                        /\ <<"T2", hits[k]>> \notin ItemRefs(tier.items)
    BY <1>5 DEF GoodTier
  <2>2. tier.full <=> Missing(r, "T2", r.scenes) # {}
    <3>1. r.scenes = {hits[k] : k \in 1..Len(hits)}
      BY SetOfSeq
    <3> QED
      BY <2>1, <3>1 DEF Missing
  <2>3. Missing(q, "T1", q.first \cup q.found) = Missing(r, "T1", r.first \cup r.found)
    BY <1>10 DEF Missing
  <2>4. q.truncated <=> Missing(r, "T1", r.first \cup r.found) # {}
    BY <2>3 DEF AfterRanked
  <2> QED
    BY <2>2, <2>4
<1>13. /\ Chars(r.items, {"pinned"}) <= P
       /\ Chars(r.items, {"pinned", "ranked"}) <= P + A
       /\ Chars(r.items, {"pinned", "ranked", "scene"}) <= r.budget - CoreShare(r.budget)
  <2>1. Chars(q.items, {"pinned"}) <= P
    BY DEF AfterRanked, P
  <2> QED
    BY <1>2, <1>8, <1>9, <2>1
<1>14. Once(r.items) /\ <<"T3", "core">> \notin ItemRefs(r.items)
  <2>1. \A x : <<"T1", x>> # <<"T3", "core">> /\ <<"T2", x>> # <<"T3", "core">>
    OBVIOUS
  <2>2. <<"T3", "core">> \notin ItemRefs(q.items)
    BY <2>1 DEF AfterRanked
  <2> QED
    BY <1>5, <2>1, <2>2 DEF GoodTier
<1> QED
  BY <1>6, <1>9, <1>11, <1>12, <1>13, <1>14 DEF AfterScenes, P, A

\* The core is cut to what is left, if that is enough to be cut to.
LEMMA CutCore ==
  ASSUME NEW n \in Nat, NEW cap \in Int, cap >= 3
  PROVE  /\ Truncated(n, cap) \in Nat /\ Truncated(n, cap) <= cap
         /\ Truncated(n, cap) <= n
BY DEF Truncated

\* The core of a recall, after everything else.
LEMMA Coring ==
  ASSUME CoreFloor >= 2,
         NEW q, AfterScenes(q), q.items \in Seq(Item), q.budget \in Nat,
         q.truncated \in BOOLEAN, NEW n \in Nat,
         NEW room, room = q.budget - Chars(q.items, {"pinned", "ranked", "scene"}),
         NEW item, item = [ref |-> <<"T3", "core">>, source |-> "core",
                           chars |-> Truncated(n, room)],
         NEW r, r.budget = q.budget, r.first = q.first, r.found = q.found,
         r.scenes = q.scenes, r.core = n,
         r.items = IF n > 0 /\ room > CoreFloor THEN Append(q.items, item) ELSE q.items,
         r.truncated = (q.truncated \/ (n > 0 /\ ~(room > CoreFloor /\ Truncated(n, room) >= n)))
  PROVE  r.items \in Seq(Item) /\ Assembled(r)
<1> DEFINE taken == Chars(q.items, {"pinned", "ranked", "scene"})
<1>1. /\ taken \in Nat /\ CoreFloor \in Nat /\ room \in Int /\ room = q.budget - taken
      /\ CoreShare(q.budget) \in Nat /\ taken <= q.budget - CoreShare(q.budget)
  <2>1. taken \in Nat /\ CoreFloor \in Nat /\ CoreShare(q.budget) \in Nat
    BY CharsType, Shares, RecallAssumption
  <2>2. taken <= q.budget - CoreShare(q.budget)
    BY DEF AfterScenes
  <2> HIDE DEF taken
  <2>3. room = q.budget - taken
    BY DEF taken
  <2> QED
    BY <2>1, <2>2, <2>3
<1> HIDE DEF taken
<1>2. /\ Chars(q.items, AllSources) = taken /\ Chars(q.items, {"core"}) = 0
      /\ Chars(q.items, {"pinned"}) <= PinnedShare(q.budget)
      /\ Chars(q.items, {"pinned", "ranked"}) <= PinnedShare(q.budget) + AtomsShare(q.budget)
      /\ LeftOut(q)
      /\ q.truncated <=> \/ Missing(q, "T1", q.first \cup q.found) # {}
                         \/ Missing(q, "T2", q.scenes) # {}
  BY DEF AfterScenes, taken
<1>3. CASE n > 0 /\ room > CoreFloor
  <2> DEFINE cut == Truncated(n, room)
  <2>1. cut \in Nat /\ cut <= room /\ cut <= n
    BY <1>1, <1>3, CutCore
  <2>2. item \in Item /\ item.source = "core" /\ item.chars = cut /\ item.ref = <<"T3", "core">>
    BY <2>1 DEF Item, Refs
  <2>3. r.items = Append(q.items, item) /\ r.items \in Seq(Item)
    BY <1>3, <2>2
  <2>4. ItemRefs(r.items) = ItemRefs(q.items) \cup {<<"T3", "core">>}
    BY <2>2, <2>3, RefsOfAppend
  <2> HIDE DEF cut
  <2>5. \A sources :
          Chars(r.items, sources) =
            Chars(q.items, sources) + (IF "core" \in sources THEN cut ELSE 0)
    BY <2>2, <2>3, CharsOfAppend DEF Amount
  <2>6. \A sources : "core" \notin sources => Chars(r.items, sources) = Chars(q.items, sources)
    BY <2>5, CharsType
  <2>7. /\ Chars(r.items, {"pinned"}) = Chars(q.items, {"pinned"})
        /\ Chars(r.items, {"pinned", "ranked"}) = Chars(q.items, {"pinned", "ranked"})
        /\ Chars(r.items, {"pinned", "ranked", "scene"}) = taken
    BY <2>6 DEF taken
  <2>8. Chars(r.items, AllSources) = taken + cut /\ Chars(r.items, {"core"}) = cut
    <3>1. "core" \in AllSources /\ "core" \in {"core"}
      BY DEF AllSources
    <3>2. Chars(r.items, {"core"}) = 0 + cut
      BY <1>2, <2>5, <3>1
    <3> QED
      BY <1>2, <2>1, <2>5, <3>1, <3>2
  <2>9. Chars(r.items, AllSources) <= q.budget
    BY <1>1, <2>1, <2>8
  <2>10. /\ LeftOut(r)
         /\ \A ids : /\ Missing(r, "T1", ids) = Missing(q, "T1", ids)
                     /\ Missing(r, "T2", ids) = Missing(q, "T2", ids)
    <3>1. \A x : <<"T1", x>> # <<"T3", "core">> /\ <<"T2", x>> # <<"T3", "core">>
      OBVIOUS
    <3>2. \A x : /\ <<"T1", x>> \in ItemRefs(r.items) <=> <<"T1", x>> \in ItemRefs(q.items)
                 /\ <<"T2", x>> \in ItemRefs(r.items) <=> <<"T2", x>> \in ItemRefs(q.items)
      BY <2>4, <3>1
    <3>3. LeftOut(r)
      BY <1>2, <2>7, <3>2 DEF LeftOut
    <3>4. \A ids : Missing(r, "T1", ids) = Missing(q, "T1", ids)
                   /\ Missing(r, "T2", ids) = Missing(q, "T2", ids)
      BY <3>2 DEF Missing
    <3> QED
      BY <3>3, <3>4
  <2>11. r.truncated <=> (q.truncated \/ cut < n)
    <3>1. r.truncated = (q.truncated \/ ~(cut >= n))
      BY <1>3 DEF cut
    <3>2. ~(cut >= n) <=> cut < n
      BY <2>1
    <3> QED
      BY <3>1, <3>2, Zenon
  <2>12. r.truncated <=> \/ Missing(r, "T1", r.first \cup r.found) # {}
                         \/ Missing(r, "T2", r.scenes) # {}
                         \/ Chars(r.items, {"core"}) < r.core
    <3>1. /\ Missing(r, "T1", r.first \cup r.found) = Missing(q, "T1", q.first \cup q.found)
          /\ Missing(r, "T2", r.scenes) = Missing(q, "T2", q.scenes)
      BY <2>10
    <3>2. Chars(r.items, {"core"}) < r.core <=> cut < n
      BY <2>8
    <3> QED
      BY <1>2, <2>11, <3>1, <3>2, Zenon
  <2> QED
    BY <1>1, <1>2, <2>3, <2>7, <2>9, <2>10, <2>12 DEF Assembled
<1>4. CASE ~(n > 0 /\ room > CoreFloor)
  <2>1. r.items = q.items /\ (r.truncated <=> (q.truncated \/ 0 < n))
    BY <1>4
  <2>2. LeftOut(r) /\ \A tier, ids : Missing(r, tier, ids) = Missing(q, tier, ids)
    BY <1>2, <2>1 DEF LeftOut, Missing
  <2>3. r.truncated <=> \/ Missing(r, "T1", r.first \cup r.found) # {}
                        \/ Missing(r, "T2", r.scenes) # {}
                        \/ Chars(r.items, {"core"}) < r.core
    <3>1. /\ Missing(r, "T1", r.first \cup r.found) = Missing(q, "T1", q.first \cup q.found)
          /\ Missing(r, "T2", r.scenes) = Missing(q, "T2", q.scenes)
      BY <2>2
    <3>2. Chars(r.items, {"core"}) < r.core <=> 0 < n
      BY <1>2, <2>1
    <3> QED
      BY <1>2, <2>1, <3>1, <3>2, Zenon
  <2>4. taken <= q.budget
    BY <1>1
  <2> QED
    BY <1>1, <1>2, <2>1, <2>2, <2>3, <2>4 DEF Assembled, taken
<1> QED
  BY <1>3, <1>4

-----------------------------------------------------------------------------
\* The types of the recall and of the traces.

\* What a recall has read when it awaits the embedder.
Reads ==
  /\ req.phase = "embed_atoms" => AfterPinned(req)
  /\ req.phase = "embed_scenes" => AfterRanked(req)

TypesInv == TypeOK /\ RecallInv /\ Reads

TraceRecord(d) == [day : 0..d, items : Seq(TraceItem)]

MemoryType ==
  /\ status \in [Atoms -> AtomStatus] /\ pinned \in [Atoms -> BOOLEAN]
  /\ scene \in [Scenes -> SceneStatus]
  /\ core \in CoreLengths \cup {0}
  /\ writes \in 0..MaxWrites

TracesType ==
  /\ DOMAIN traces \subseteq 1..recalls
  /\ traces \in [DOMAIN traces -> TraceRecord(day)]

CountsType ==
  recalls \in 0..MaxRecalls /\ day \in 0..MaxDays /\ reports \in 0..MaxReports

LEMMA TypeParts ==
  TypeOK <=> MemoryType /\ TracesType /\ CountsType /\ req \in Requests
BY DEF TypeOK, MemoryType, TracesType, CountsType, Requests, TraceRecord

LEMMA IdleType == Idle \in Requests
<1>1. <<>> \in Seq(Item) /\ 0 \in 0..MaxRecalls
  BY RecallAssumption
<1> QED
  BY <1>1 DEF Idle, Requests

\* The rows that a recall may find.
LEMMA LiveFacts ==
  ASSUME TypeOK
  PROVE  /\ Live \subseteq Atoms /\ IsFiniteSet(Live)
         /\ LiveScenes \subseteq Scenes /\ IsFiniteSet(LiveScenes)
<1>1. IsFiniteSet(Atoms) /\ IsFiniteSet(Topics \cup Episodes)
  BY RecallAssumption, FS_Union
<1>2. Live \subseteq Atoms /\ LiveScenes \subseteq Scenes
  BY DEF Live, LiveScenes
<1> QED
  BY <1>1, <1>2, FS_Subset DEF Scenes

\* A step of the recall that leaves the rest as it is.
LEMMA ReadStep ==
  ASSUME TypesInv, NEW r \in Requests, req' = r, UNCHANGED <<memoryVars, traces, day, reports>>,
         recalls' \in recalls..MaxRecalls,
         r.phase = "embed_atoms" => AfterPinned(r),
         r.phase = "embed_scenes" => AfterRanked(r)
  PROVE  TypeOK' /\ Reads'
<1>1. MemoryType' /\ (TracesType /\ CountsType)'
  <2>1. MemoryType /\ TracesType /\ CountsType
    BY TypeParts DEF TypesInv
  <2>2. MemoryType'
    BY <2>1 DEF MemoryType, memoryVars
  <2>3. CountsType'
    BY <2>1, RecallAssumption DEF CountsType
  <2>4. 1..recalls \subseteq 1..recalls'
    BY <2>1, RecallAssumption DEF CountsType
  <2>5. TracesType'
    BY <2>1, <2>4 DEF TracesType, TraceRecord
  <2> QED
    BY <2>2, <2>3, <2>5
<1>2. (req \in Requests)'
  BY DEF Requests
<1>3. TypeOK'
  BY <1>1, <1>2, TypeParts, PTL
<1>4. Reads'
  BY DEF Reads, AfterPinned, AfterRanked, Missing, LeftOut, Once
<1> QED
  BY <1>3, <1>4

LEMMA StartType ==
  ASSUME TypesInv, NEW budget \in McpBudgets \cup HttpBudgets, NEW order \in PinnedOrders,
         Start(budget, order)
  PROVE  TypeOK' /\ Reads'
<1> DEFINE tier == AdmitPinned(PinnedShare(budget), order)
<1>1. budget \in Nat
  BY BudgetType
<1>2. order \in Seq(Atoms) /\ \A i, j \in 1..Len(order) : i # j => order[i] # order[j]
  <2> DEFINE S == {a \in Live : pinned[a]}
  <2>1. S \subseteq Atoms /\ IsFiniteSet(S)
    BY LiveFacts, FS_Subset DEF TypesInv
  <2>2. order \in SetToSeqs(S)
    BY DEF PinnedOrders
  <2> HIDE DEF S
  <2>3. order \in Seq(S) /\ \A i, j \in 1..Len(order) : i # j => order[i] # order[j]
    BY <2>1, <2>2, OrderFacts
  <2>4. order \in Seq(Atoms)
    BY <2>1, <2>3
  <2> QED
    BY <2>3, <2>4
<1>3. PICK n : n = recalls' /\ n \in recalls..MaxRecalls /\ n \in 0..MaxRecalls
  <2>1. recalls \in 0..MaxRecalls /\ recalls < MaxRecalls /\ recalls' = recalls + 1
    BY TypeParts DEF Start, TypesInv, CountsType
  <2> QED
    BY <2>1, RecallAssumption
<1> DEFINE r == [Idle EXCEPT !.phase = "embed_atoms", !.budget = budget,
                             !.first = ToSet(order),
                             !.items = tier.items, !.truncated = tier.full,
                             !.id = n]
<1>4. /\ r.phase = "embed_atoms" /\ r.budget = budget /\ r.first = ToSet(order)
      /\ r.items = tier.items /\ r.truncated = tier.full
  BY DEF Idle
<1>5. tier \in Tier /\ AfterPinned(r)
  <2> HIDE DEF tier, r
  <2>1. tier = AdmitPinned(PinnedShare(budget), order)
    BY DEF tier
  <2> QED
    BY <1>1, <1>2, <1>4, <2>1, Pinning
<1>6. req' = r /\ UNCHANGED <<memoryVars, traces, day, reports>>
  BY <1>3 DEF Start
<1>7. r \in Requests
  <2>1. tier.items \in Seq(Item) /\ tier.full \in BOOLEAN
    BY <1>5 DEF Tier
  <2>2. ToSet(order) \in SUBSET Atoms
    BY <1>2, SetOfSeq
  <2> HIDE DEF tier
  <2> QED
    BY <1>1, <1>3, <2>1, <2>2, IdleType DEF Idle, Requests
<1> HIDE DEF r
<1> QED
  BY <1>3, <1>4, <1>5, <1>6, <1>7, ReadStep

LEMMA SearchAtomsType ==
  ASSUME TypesInv, SearchAtoms
  PROVE  TypeOK' /\ Reads'
<1> DEFINE rows == {a \in Atoms : status[a] # "absent"}
           limit == AtomLimit(AtomsCap)
<1>1. PICK hits \in Hits(rows, Live, limit) : RankAtoms(hits)
  BY DEF SearchAtoms
<1> HIDE DEF rows, limit
<1>2. hits \in Seq(Atoms) /\ \A i, j \in 1..Len(hits) : i # j => hits[i] # hits[j]
  <2>1. hits \in Seq(Live) /\ \A i, j \in 1..Len(hits) : i # j => hits[i] # hits[j]
    BY LiveFacts, HitFacts DEF TypesInv
  <2>2. hits \in Seq(Atoms)
    BY <2>1, LiveFacts DEF TypesInv
  <2> QED
    BY <2>1, <2>2
<1>3. req \in Requests /\ req.phase = "embed_atoms" /\ AfterPinned(req)
  BY <1>1, TypeParts DEF TypesInv, Reads, RankAtoms
<1> DEFINE tier == AdmitRanked("T1", "ranked", AtomItemCap, AtomsCap, req.items, hits, Passed)
           r == [req EXCEPT !.phase = "embed_scenes", !.items = tier.items,
                            !.found = ToSet(hits), !.truncated = @ \/ tier.full]
<1>4. /\ r.phase = "embed_scenes" /\ r.budget = req.budget /\ r.first = req.first
      /\ r.items = tier.items /\ r.found = ToSet(hits)
      /\ r.truncated = (req.truncated \/ tier.full)
  BY <1>3 DEF Requests
<1>5. tier = AdmitRanked("T1", "ranked", AtomItemCap,
                         PinnedShare(req.budget) + AtomsShare(req.budget)
                           - Chars(req.items, {"pinned"}),
                         req.items, hits, req.first)
  BY DEF AtomsCap, Passed
<1>6. req' = r /\ UNCHANGED <<memoryVars, traces, recalls, day, reports>>
  BY <1>1 DEF RankAtoms
<1> HIDE DEF tier
<1>7. tier \in Tier /\ AfterRanked(r)
  <2> HIDE DEF r
  <2> QED
    BY <1>2, <1>3, <1>4, <1>5, Ranking
<1>8. r \in Requests
  <2>1. tier.items \in Seq(Item) /\ tier.full \in BOOLEAN
    BY <1>7 DEF Tier
  <2>2. ToSet(hits) \in SUBSET Atoms
    BY <1>2, SetOfSeq
  <2> QED
    BY <1>3, <2>1, <2>2 DEF Requests
<1> HIDE DEF r
<1>9. recalls' \in recalls..MaxRecalls
  BY <1>6, TypeParts, RecallAssumption DEF TypesInv, CountsType
<1> QED
  BY <1>4, <1>6, <1>7, <1>8, <1>9, ReadStep

\* What is answered is typed, and so is the trace of it.
LEMMA WithCoreType ==
  ASSUME TypeOK, NEW items \in Seq(Item), req.budget \in Nat
  PROVE  WithCore(items) \in Seq(Item)
<1> DEFINE room == CoreCap(items)
           item == [ref |-> <<"T3", "core">>, source |-> "core", chars |-> Truncated(core, room)]
<1>1. room \in Int /\ core \in Nat /\ CoreFloor \in Nat
  <2>1. Chars(items, {"pinned", "ranked", "scene"}) \in Nat
    BY CharsType
  <2> QED
    <3>1. core \in CoreLengths \cup {0}
      BY TypeParts DEF MemoryType
    <3>2. core \in Nat /\ CoreFloor \in Nat
      BY <3>1, RecallAssumption
    <3> QED
      BY <2>1, <3>2 DEF CoreCap
<1>2. ASSUME NEW n \in Nat, NEW m \in Nat
      PROVE  Truncated(n, m) \in Nat
  BY <1>2 DEF Truncated, AtLeast
<1>3. room > CoreFloor => item \in Item
  <2>1. room > CoreFloor => Truncated(core, room) \in Nat
    <3> HIDE DEF room
    <3>1. room > CoreFloor => room \in Nat
      BY <1>1
    <3> QED
      BY <1>1, <1>2, <3>1
  <2> QED
    BY <2>1 DEF Item, Refs
<1> HIDE DEF room
<1>4. room > CoreFloor => Append(items, item) \in Seq(Item)
  BY <1>3
<1> QED
  BY <1>4 DEF WithCore, room

LEMMA TraceType ==
  ASSUME NEW r, r.items \in Seq(Item), day \in Nat
  PROVE  Trace(r) \in TraceRecord(day)
<1>1. DOMAIN r.items = 1..Len(r.items) /\ Len(r.items) \in Nat
  OBVIOUS
<1>2. ASSUME NEW i \in 1..Len(r.items)
      PROVE  [ref |-> r.items[i].ref, source |-> r.items[i].source, usage |-> "unknown"]
               \in TraceItem
  <2>1. r.items[i] \in Item
    BY <1>2
  <2> QED
    BY <2>1 DEF Item, TraceItem, Usage
<1>3. [i \in DOMAIN r.items |->
         [ref |-> r.items[i].ref, source |-> r.items[i].source, usage |-> "unknown"]]
        \in Seq(TraceItem)
  BY <1>1, <1>2
<1>4. day \in 0..day
  OBVIOUS
<1> QED
  BY <1>3, <1>4 DEF Trace, TraceRecord

\* What a recall found, before the core.
BeforeCore(hits, tier) ==
  [req EXCEPT !.items = tier.items, !.scenes = ToSet(hits), !.truncated = @ \/ tier.full]

SceneTier(hits) ==
  AdmitRanked("T2", "scene", SceneItemCap, ScenesCap, req.items, hits, {})

LEMMA ScenesRead ==
  ASSUME TypesInv, req.phase = "embed_scenes",
         NEW rows, NEW limit, NEW hits \in Hits(rows, LiveScenes, limit)
  PROVE  /\ req \in Requests
         /\ SceneTier(hits) \in Tier /\ ToSet(hits) \in SUBSET Scenes
         /\ AfterScenes(BeforeCore(hits, SceneTier(hits)))
<1>1. hits \in Seq(Scenes) /\ \A i, j \in 1..Len(hits) : i # j => hits[i] # hits[j]
  <2>1. hits \in Seq(LiveScenes) /\ \A i, j \in 1..Len(hits) : i # j => hits[i] # hits[j]
    BY LiveFacts, HitFacts DEF TypesInv
  <2>2. hits \in Seq(Scenes)
    BY <2>1, LiveFacts DEF TypesInv
  <2> QED
    BY <2>1, <2>2
<1>2. req \in Requests /\ AfterRanked(req)
  BY TypeParts DEF TypesInv, Reads
<1> DEFINE tier == SceneTier(hits)
           r == BeforeCore(hits, tier)
<1>3. tier = AdmitRanked("T2", "scene", SceneItemCap,
                         PinnedShare(req.budget) + AtomsShare(req.budget)
                           + ScenesShare(req.budget)
                           - Chars(req.items, {"pinned", "ranked"}),
                         req.items, hits, {})
  BY DEF SceneTier, ScenesCap
<1> HIDE DEF tier
<1>4. /\ r.budget = req.budget /\ r.first = req.first /\ r.found = req.found
      /\ r.items = tier.items /\ r.scenes = ToSet(hits)
      /\ r.truncated = (req.truncated \/ tier.full)
  BY <1>2 DEF Requests, BeforeCore
<1>5. tier \in Tier /\ AfterScenes(r)
  <2> HIDE DEF r
  <2> QED
    BY <1>1, <1>2, <1>3, <1>4, Scening
<1>6. ToSet(hits) \in SUBSET Scenes
  BY <1>1, SetOfSeq
<1> QED
  BY <1>2, <1>5, <1>6 DEF tier

Answer(hits) ==
  LET tier == SceneTier(hits)
  IN [req EXCEPT !.phase = "done", !.items = WithCore(tier.items),
                 !.scenes = ToSet(hits), !.core = core,
                 !.truncated = @ \/ tier.full \/ CoreIsCut(tier.items)]

LEMMA AnswerType ==
  ASSUME TypesInv, req.phase = "embed_scenes",
         NEW rows, NEW limit, NEW hits \in Hits(rows, LiveScenes, limit)
  PROVE  Answer(hits) \in Requests /\ Answer(hits).phase = "done"
<1> DEFINE tier == SceneTier(hits)
<1>1. /\ req \in Requests /\ tier \in Tier /\ ToSet(hits) \in SUBSET Scenes
  BY ScenesRead
<1>2. tier.items \in Seq(Item) /\ tier.full \in BOOLEAN
  BY <1>1 DEF Tier
<1>3. WithCore(tier.items) \in Seq(Item)
  BY <1>1, <1>2, WithCoreType DEF TypesInv, Requests
<1>4. CoreIsCut(tier.items) \in BOOLEAN
  BY DEF CoreIsCut
<1>5. core \in CoreLengths \cup {0}
  BY TypeParts DEF TypesInv, MemoryType
<1> DEFINE items == WithCore(tier.items)
           found == ToSet(hits)
           cut == req.truncated \/ tier.full \/ CoreIsCut(tier.items)
           r == [req EXCEPT !.phase = "done", !.items = items, !.scenes = found,
                            !.core = core, !.truncated = cut]
<1>6. Answer(hits) = r
  BY DEF Answer
<1>7. items \in Seq(Item) /\ found \in SUBSET Scenes /\ cut \in BOOLEAN
  BY <1>1, <1>3
<1> HIDE DEF items, found, cut
<1>8. r \in Requests /\ r.phase = "done"
  BY <1>1, <1>5, <1>7 DEF Requests
<1> QED
  BY <1>6, <1>8

\* A recall ends with its answer, and with a trace of it or with none.
LEMMA FinishType ==
  ASSUME TypesInv, NEW rows, NEW limit, NEW hits \in Hits(rows, LiveScenes, limit), Finish(hits)
  PROVE  TypeOK' /\ Reads'
<1>1. req.phase = "embed_scenes" /\ UNCHANGED <<memoryVars, recalls, day, reports>>
  BY DEF Finish
<1> DEFINE r == Answer(hits)
<1>2. r \in Requests /\ r.phase = "done"
  BY <1>1, AnswerType
<1>3. \/ req' = r /\ traces' = Filed(r)
      \/ req' = [r EXCEPT !.id = 0] /\ UNCHANGED traces
  BY DEF Finish, Answer, SceneTier, Filed
<1> HIDE DEF r
<1>4. /\ MemoryType /\ TracesType /\ CountsType /\ RecallInv
  BY TypeParts DEF TypesInv
<1>5. (MemoryType /\ CountsType)'
  BY <1>1, <1>4 DEF MemoryType, CountsType, memoryVars
<1>6. (req \in Requests)' /\ req'.phase = "done"
  <2>1. 0 \in 0..MaxRecalls
    BY RecallAssumption
  <2>2. [r EXCEPT !.id = 0] \in Requests /\ [r EXCEPT !.id = 0].phase = "done"
    BY <1>2, <2>1 DEF Requests
  <2> QED
    BY <1>2, <1>3, <2>2 DEF Requests
<1>7. TracesType'
  <2>1. CASE UNCHANGED traces
    BY <1>1, <1>4, <2>1 DEF TracesType, TraceRecord
  <2>2. CASE traces' = Filed(r)
    <3>1. req.id = recalls /\ recalls \in Nat \ {0} /\ day \in Nat
      BY <1>1, <1>4, RecallAssumption DEF RecallInv, InFlight, CountsType
    <3>2. Trace(r) \in TraceRecord(day)
      BY <1>2, <3>1, TraceType DEF Requests
    <3>3. DOMAIN traces' = DOMAIN traces \cup {req.id} /\ DOMAIN traces' \subseteq 1..recalls
      BY <1>4, <2>2, <3>1 DEF Filed, TracesType
    <3>4. traces' \in [DOMAIN traces' -> TraceRecord(day)]
      <4>1. \A k \in DOMAIN traces : traces[k] \in TraceRecord(day)
        BY <1>4 DEF TracesType
      <4> HIDE DEF TraceRecord
      <4> QED
        BY <2>2, <3>2, <3>3, <4>1 DEF Filed
    <3> QED
      BY <1>1, <3>3, <3>4 DEF TracesType, TraceRecord
  <2> QED
    BY <1>3, <2>1, <2>2
<1>8. TypeOK'
  BY <1>5, <1>6, <1>7, TypeParts, PTL
<1> QED
  BY <1>6, <1>8 DEF Reads

LEMMA FailsType ==
  ASSUME TypesInv, RecallFails
  PROVE  TypeOK' /\ Reads'
<1>1. /\ req' = Idle /\ UNCHANGED <<memoryVars, traces, recalls, day, reports>>
  BY DEF RecallFails
<1>2. recalls' \in recalls..MaxRecalls
  BY <1>1, TypeParts, RecallAssumption DEF TypesInv, CountsType
<1>3. Idle.phase = "idle"
  BY IdleRecord
<1> QED
  BY <1>1, <1>2, <1>3, IdleType, ReadStep

\* A step of the traces that leaves the rest as it is.
LEMMA TracesStep ==
  ASSUME TypesInv, UNCHANGED <<memoryVars, req, recalls, day>>,
         reports' \in 0..MaxReports,
         DOMAIN traces' \subseteq DOMAIN traces,
         traces' \in [DOMAIN traces' -> TraceRecord(day)]
  PROVE  TypeOK' /\ Reads'
<1>1. MemoryType /\ TracesType /\ CountsType /\ req \in Requests
  BY TypeParts DEF TypesInv
<1>2. (MemoryType /\ CountsType)'
  BY <1>1 DEF MemoryType, CountsType, memoryVars
<1>3. TracesType'
  BY <1>1 DEF TracesType, TraceRecord
<1>4. (req \in Requests)'
  BY <1>1 DEF Requests
<1>5. TypeOK'
  BY <1>2, <1>3, <1>4, TypeParts, PTL
<1>6. Reads'
  BY DEF TypesInv, Reads, AfterPinned, AfterRanked, Missing, LeftOut, Once
<1> QED
  BY <1>5, <1>6

LEMMA ReportType ==
  ASSUME TypesInv, NEW r, NEW used, NEW unused, ReportUsage(r, used, unused)
  PROVE  TypeOK' /\ Reads'
<1> DEFINE t == traces[r]
           new == Reported(t, used, unused)
           R == TraceRecord(day)
<1>1. /\ r \in DOMAIN traces /\ traces' = [traces EXCEPT ![r] = new]
      /\ UNCHANGED <<memoryVars, req, recalls, day>>
      /\ reports < MaxReports /\ reports' = reports + 1
  BY DEF ReportUsage
<1>2. TracesType /\ CountsType
  BY TypeParts DEF TypesInv
<1>3. traces \in [DOMAIN traces -> R] /\ t \in R
  BY <1>1, <1>2 DEF TracesType
<1>4. new \in R
  <2>1. t.items \in Seq(TraceItem) /\ t.day \in 0..day
    BY <1>3 DEF TraceRecord
  <2> DEFINE said(i) == [t.items[i] EXCEPT !.usage = IF t.items[i].ref \in used THEN "used"
                           ELSE IF t.items[i].ref \in unused THEN "unused"
                           ELSE @]
             items == [i \in DOMAIN t.items |-> said(i)]
  <2>2. ASSUME NEW i \in 1..Len(t.items)
        PROVE  said(i) \in TraceItem
    <3>1. t.items[i] \in TraceItem
      BY <2>1
    <3> QED
      BY <3>1 DEF TraceItem, Usage
  <2>3. DOMAIN t.items = 1..Len(t.items) /\ Len(t.items) \in Nat
    BY <2>1
  <2>4. items \in Seq(TraceItem)
    <3> HIDE DEF said
    <3> QED
      BY <2>2, <2>3
  <2>5. new = [t EXCEPT !.items = items]
    BY DEF Reported
  <2> HIDE DEF items, new, t
  <2> QED
    BY <1>3, <2>4, <2>5 DEF TraceRecord
<1> HIDE DEF new, R
<1>5. DOMAIN traces' = DOMAIN traces /\ traces' \in [DOMAIN traces' -> R]
  BY <1>1, <1>3, <1>4
<1>6. reports' \in 0..MaxReports
  BY <1>1, <1>2, RecallAssumption DEF CountsType
<1> QED
  BY <1>1, <1>5, <1>6, TracesStep DEF R

LEMMA PruneType ==
  ASSUME TypesInv, PruneTraces
  PROVE  TypeOK' /\ Reads'
<1>1. /\ UNCHANGED <<memoryVars, req, recalls, day, reports>>
      /\ traces' = [r \in DOMAIN traces \ Expired |-> traces[r]]
  BY DEF PruneTraces, Restrict
<1>2. TracesType /\ CountsType
  BY TypeParts DEF TypesInv
<1>3. traces' \in [DOMAIN traces' -> TraceRecord(day)] /\ DOMAIN traces' \subseteq DOMAIN traces
  BY <1>1, <1>2 DEF TracesType
<1> QED
  BY <1>1, <1>2, <1>3, TracesStep DEF CountsType

\* A step that leaves the recall and the traces as they are.
LEMMA OutsideStep ==
  ASSUME TypesInv, UNCHANGED <<req, traces, recalls, reports>>, MemoryType',
         day' \in day..MaxDays
  PROVE  TypeOK' /\ Reads'
<1>1. TracesType /\ CountsType /\ req \in Requests
  BY TypeParts DEF TypesInv
<1>2. CountsType'
  BY <1>1, RecallAssumption DEF CountsType
<1>3. TracesType'
  <2>1. 0..day \subseteq 0..day'
    BY <1>1, RecallAssumption DEF CountsType
  <2>2. TraceRecord(day) \subseteq TraceRecord(day')
    BY <2>1 DEF TraceRecord
  <2>3. traces' \in [DOMAIN traces' -> TraceRecord(day')]
    <3> HIDE DEF TraceRecord
    <3> QED
      BY <1>1, <2>2 DEF TracesType
  <2> QED
    BY <1>1, <2>3 DEF TracesType, TraceRecord
<1>4. (req \in Requests)'
  BY <1>1 DEF Requests
<1>5. TypeOK'
  BY <1>2, <1>3, <1>4, TypeParts, PTL
<1>6. Reads'
  BY DEF TypesInv, Reads, AfterPinned, AfterRanked, Missing, LeftOut, Once
<1> QED
  BY <1>5, <1>6

LEMMA MemoryStep ==
  ASSUME TypesInv, MemoryChanges
  PROVE  TypeOK' /\ Reads'
<1>1. MemoryType /\ CountsType
  BY TypeParts DEF TypesInv
<1>2. UNCHANGED <<req, traces, recalls, day, reports>> /\ writes' \in 0..MaxWrites
  <2>1. Written
    BY DEF MemoryChanges, Remember, Forget, WriteScene, WriteCore
  <2> QED
    BY <1>1, <2>1, RecallAssumption DEF Written, MemoryType
<1>3. /\ status' \in [Atoms -> AtomStatus] /\ pinned' \in [Atoms -> BOOLEAN]
      /\ scene' \in [Scenes -> SceneStatus] /\ core' \in CoreLengths \cup {0}
  <2>1. ASSUME NEW a \in Atoms, NEW pin \in BOOLEAN, Remember(a, pin)
        PROVE  <1>3
    BY <1>1, <2>1 DEF MemoryType, Remember, AtomStatus
  <2>2. ASSUME NEW a \in Atoms, NEW st \in Ends, Forget(a, st)
        PROVE  <1>3
    <3>1. st \in AtomStatus
      BY RecallAssumption DEF AtomStatus
    <3> QED
      BY <1>1, <2>2, <3>1 DEF MemoryType, Forget
  <2>3. ASSUME NEW s \in Scenes, NEW st \in SceneStatus, WriteScene(s, st)
        PROVE  <1>3
    BY <1>1, <2>3 DEF MemoryType, WriteScene
  <2>4. ASSUME NEW n \in CoreLengths \cup {0}, WriteCore(n)
        PROVE  <1>3
    BY <1>1, <2>4 DEF MemoryType, WriteCore
  <2> QED
    BY <2>1, <2>2, <2>3, <2>4 DEF MemoryChanges
<1>4. MemoryType' /\ day' \in day..MaxDays
  BY <1>1, <1>2, <1>3, RecallAssumption DEF MemoryType, CountsType
<1> QED
  BY <1>2, <1>4, OutsideStep

LEMMA DayStep ==
  ASSUME TypesInv, DayPasses
  PROVE  TypeOK' /\ Reads'
<1>1. MemoryType /\ CountsType
  BY TypeParts DEF TypesInv
<1>2. UNCHANGED <<memoryVars, req, traces, recalls, reports>> /\ day' \in day..MaxDays
  BY <1>1, RecallAssumption DEF DayPasses, CountsType
<1>3. MemoryType'
  BY <1>1, <1>2 DEF MemoryType, memoryVars
<1> QED
  BY <1>2, <1>3, OutsideStep

LEMMA StillStep ==
  ASSUME TypesInv, UNCHANGED vars
  PROVE  TypeOK' /\ Reads'
<1>1. MemoryType /\ CountsType
  BY TypeParts DEF TypesInv
<1>2. UNCHANGED <<req, traces, recalls, reports, memoryVars>> /\ day' \in day..MaxDays
  BY <1>1, RecallAssumption DEF vars, memoryVars, CountsType
<1>3. MemoryType'
  BY <1>1, <1>2 DEF MemoryType, memoryVars
<1> QED
  BY <1>2, <1>3, OutsideStep

LEMMA NextTypes == TypesInv /\ [Next]_vars => TypesInv'
<1> SUFFICES ASSUME TypesInv, [Next]_vars PROVE TypesInv'
  OBVIOUS
<1>1. RecallInv'
  BY NextFinal DEF TypesInv
<1>2. TypeOK' /\ Reads'
  <2>1. CASE McpRecall \/ HttpRecall \/ TopicRecall
    BY <2>1, StartType DEF McpRecall, HttpRecall, TopicRecall
  <2>2. CASE SearchAtoms
    BY <2>2, SearchAtomsType
  <2>3. CASE SearchScenes
    BY <2>3, FinishType DEF SearchScenes
  <2>4. CASE RecallFails
    BY <2>4, FailsType
  <2>5. ASSUME NEW r, NEW used, NEW unused, ReportUsage(r, used, unused)
        PROVE  TypeOK' /\ Reads'
    BY <2>5, ReportType
  <2>6. CASE PruneTraces
    BY <2>6, PruneType
  <2>7. CASE MemoryChanges
    BY <2>7, MemoryStep
  <2>8. CASE DayPasses
    BY <2>8, DayStep
  <2>9. CASE UNCHANGED vars
    BY <2>9, StillStep
  <2> QED
    BY <2>1, <2>2, <2>3, <2>4, <2>5, <2>6, <2>7, <2>8, <2>9 DEF Next
<1> QED
  BY <1>1, <1>2 DEF TypesInv

LEMMA InitTypes == Init => TypesInv
<1> SUFFICES ASSUME Init PROVE TypesInv
  OBVIOUS
<1>1. RecallInv
  BY InitRecallInv
<1>2. req = Idle /\ req \in Requests /\ Idle.phase = "idle"
  BY IdleType, IdleRecord DEF Init
<1>3. MemoryType
  <2>1. 0 \in 0..MaxWrites
    BY RecallAssumption
  <2> QED
    BY <2>1 DEF Init, MemoryType, AtomStatus, SceneStatus
<1>4. CountsType
  BY RecallAssumption DEF Init, CountsType
<1>5. TracesType
  <2>1. CASE traces = <<>>
    BY <2>1 DEF TracesType
  <2>2. CASE traces = Earlier
    <3> DEFINE item == [ref |-> <<"T3", "core">>, source |-> "core", usage |-> "used"]
               trace == [day |-> 0, items |-> <<item>>]
    <3>1. item \in TraceItem
      BY DEF TraceItem, Refs, Usage
    <3>2. <<item>> \in Seq(TraceItem) /\ day = 0 /\ 0 \in 0..day
      <4> HIDE DEF item
      <4> QED
        BY <3>1 DEF Init
    <3>3. trace \in TraceRecord(day)
      BY <3>2 DEF TraceRecord
    <3> HIDE DEF TraceRecord
    <3>4. traces = [r \in {1} |-> trace]
      BY <2>2 DEF Earlier
    <3> HIDE DEF trace
    <3>5. DOMAIN traces = {1} /\ recalls = 1 /\ traces \in [DOMAIN traces -> TraceRecord(day)]
      BY <3>3, <3>4 DEF Init
    <3> QED
      BY <3>5 DEF TracesType
  <2> QED
    BY <2>1, <2>2 DEF Init
<1>6. TypeOK
  BY <1>2, <1>3, <1>4, <1>5, TypeParts
<1> QED
  BY <1>1, <1>2, <1>6 DEF TypesInv, Reads

\* Whatever is asked for, found, reported, pruned and changed, the recall, its
\* traces and the memory keep their types: no text has a negative length, no item
\* is of an unknown tier, no trace has an id that was never given out.
THEOREM RecallTypeCorrect == Spec => []TypeOK
<1>1. TypesInv => TypeOK
  BY DEF TypesInv
<1> QED
  BY InitTypes, NextTypes, <1>1, PTL DEF Spec

-----------------------------------------------------------------------------
\* The budget.

BudgetInv == req.phase = "done" => Assembled(req)

\* The answer of a recall fits its budget.
LEMMA AnswerFits ==
  ASSUME CoreFloor >= 2, TypesInv, req.phase = "embed_scenes",
         NEW rows, NEW limit, NEW hits \in Hits(rows, LiveScenes, limit)
  PROVE  Assembled(Answer(hits))
<1> DEFINE tier == SceneTier(hits)
           before == BeforeCore(hits, tier)
           room == before.budget - Chars(before.items, {"pinned", "ranked", "scene"})
           r == Answer(hits)
<1>1. /\ req \in Requests /\ tier \in Tier /\ ToSet(hits) \in SUBSET Scenes
      /\ AfterScenes(before)
  BY ScenesRead
<1>2. core \in Nat
  <2>1. core \in CoreLengths \cup {0}
    BY TypeParts DEF TypesInv, MemoryType
  <2> QED
    BY <2>1, RecallAssumption
<1>3. tier.items \in Seq(Item) /\ tier.full \in BOOLEAN
  BY <1>1 DEF Tier
<1> HIDE DEF tier
<1>4. /\ before.items = tier.items /\ before.budget = req.budget /\ before.budget \in Nat
      /\ before.first = req.first /\ before.found = req.found
      /\ before.scenes = ToSet(hits)
      /\ before.truncated = (req.truncated \/ tier.full)
      /\ before.truncated \in BOOLEAN
  BY <1>1, <1>3 DEF BeforeCore, Requests
<1>5. room = CoreCap(tier.items)
  BY <1>4 DEF CoreCap
<1>6. /\ r.budget = req.budget /\ r.first = req.first /\ r.found = req.found
      /\ r.scenes = ToSet(hits) /\ r.core = core
      /\ r.items = WithCore(tier.items)
      /\ r.truncated = (req.truncated \/ tier.full \/ CoreIsCut(tier.items))
  BY <1>1 DEF Answer, Requests, tier
<1> DEFINE item == [ref |-> <<"T3", "core">>, source |-> "core", chars |-> Truncated(core, room)]
<1> HIDE DEF before, r
<1>7. r.items = IF core > 0 /\ room > CoreFloor THEN Append(before.items, item)
                ELSE before.items
  BY <1>4, <1>5, <1>6 DEF WithCore
<1>8. r.truncated = (before.truncated
                       \/ (core > 0 /\ ~(room > CoreFloor /\ Truncated(core, room) >= core)))
  BY <1>4, <1>5, <1>6 DEF CoreIsCut
<1>9. /\ r.budget = before.budget /\ r.first = before.first /\ r.found = before.found
      /\ r.scenes = before.scenes /\ r.core = core
  BY <1>4, <1>6
<1>10. before.items \in Seq(Item)
  BY <1>3, <1>4
<1>11. PICK m, i : m = room /\ i = item
  OBVIOUS
<1>12. m = before.budget - Chars(before.items, {"pinned", "ranked", "scene"})
  BY <1>11
<1>13. i = [ref |-> <<"T3", "core">>, source |-> "core", chars |-> Truncated(core, m)]
  BY <1>11
<1>14. r.items = IF core > 0 /\ m > CoreFloor THEN Append(before.items, i) ELSE before.items
  BY <1>7, <1>11
<1>15. r.truncated = (before.truncated
                        \/ (core > 0 /\ ~(m > CoreFloor /\ Truncated(core, m) >= core)))
  BY <1>8, <1>11
<1> HIDE DEF room, item
<1> QED
  BY <1>1, <1>2, <1>4, <1>9, <1>10, <1>12, <1>13, <1>14, <1>15, Coring DEF r

LEMMA NextFits ==
  ASSUME CoreFloor >= 2
  PROVE  TypesInv /\ BudgetInv /\ [Next]_vars => BudgetInv'
<1> SUFFICES ASSUME TypesInv, BudgetInv, [Next]_vars PROVE BudgetInv'
  OBVIOUS
<1>1. ASSUME req' = req
      PROVE  BudgetInv'
  BY <1>1 DEF BudgetInv, Assembled, Missing, LeftOut
<1>2. ASSUME req'.phase # "done"
      PROVE  BudgetInv'
  BY <1>2 DEF BudgetInv
<1>3. ASSUME NEW budget, NEW order, Start(budget, order)
      PROVE  BudgetInv'
  <2>1. req'.phase = "embed_atoms"
    BY <1>3 DEF Start, Idle
  <2> QED
    BY <1>2, <2>1
<1>4. CASE SearchAtoms
  <2>1. req \in Requests
    BY TypeParts DEF TypesInv
  <2>2. req'.phase = "embed_scenes"
    BY <1>4, <2>1 DEF SearchAtoms, RankAtoms, Requests
  <2> QED
    BY <1>2, <2>2
<1>5. CASE SearchScenes
  <2> DEFINE rows == {s \in Scenes : scene[s] # "absent"}
             limit == SceneLimit(ScenesCap)
  <2>1. PICK hits \in Hits(rows, LiveScenes, limit) : Finish(hits)
    BY <1>5 DEF SearchScenes
  <2> HIDE DEF rows, limit
  <2>2. req.phase = "embed_scenes"
    BY <2>1 DEF Finish
  <2> DEFINE r == Answer(hits)
  <2>3. Assembled(r) /\ r \in Requests
    BY <2>2, AnswerFits, AnswerType
  <2>4. req' = r \/ req' = [r EXCEPT !.id = 0]
    BY <2>1 DEF Finish, Answer, SceneTier
  <2> HIDE DEF r
  <2>5. PICK q : req' = q /\ (q = r \/ q = [r EXCEPT !.id = 0])
    BY <2>4
  <2>6. Assembled(q)
    <3>1. /\ q.items = r.items /\ q.budget = r.budget /\ q.first = r.first
          /\ q.found = r.found /\ q.scenes = r.scenes /\ q.core = r.core
          /\ q.truncated = r.truncated
      BY <2>3, <2>5 DEF Requests
    <3> QED
      BY <2>3, <3>1 DEF Assembled, Missing, LeftOut
  <2> QED
    BY <2>5, <2>6 DEF BudgetInv, Assembled, Missing, LeftOut
<1>6. CASE RecallFails
  BY <1>2, <1>6, IdleRecord DEF RecallFails
<1>7. ASSUME NEW r, NEW used, NEW unused, ReportUsage(r, used, unused)
      PROVE  BudgetInv'
  BY <1>1, <1>7 DEF ReportUsage
<1>8. CASE PruneTraces
  BY <1>1, <1>8 DEF PruneTraces
<1>9. CASE MemoryChanges
  BY <1>1, <1>9 DEF MemoryChanges, Remember, Forget, WriteScene, WriteCore, Written
<1>10. CASE DayPasses
  BY <1>1, <1>10 DEF DayPasses
<1>11. CASE UNCHANGED vars
  BY <1>1, <1>11 DEF vars
<1> QED
  BY <1>3, <1>4, <1>5, <1>6, <1>7, <1>8, <1>9, <1>10, <1>11
     DEF Next, McpRecall, HttpRecall, TopicRecall

\* Whatever budget is asked for and whatever the memory holds and becomes between
\* the reads of a recall, what is answered fits the budget, no tier takes what is
\* kept for the next ones, an atom is passed over only if it would not fit in what
\* is left, and the answer says truncated exactly if something is missing.  It
\* needs room for the three dots of a cut: the floor of the code is 50
\* (context.ts:185).
THEOREM RecallFitsItsBudget ==
  ASSUME CoreFloor >= 2
  PROVE  Spec => []AssemblyWithinBudget
<1>1. Init => TypesInv /\ BudgetInv
  <2>1. Init => BudgetInv
    BY IdleRecord DEF Init, BudgetInv
  <2> QED
    BY <2>1, InitTypes
<1>2. TypesInv /\ BudgetInv /\ [Next]_vars => TypesInv' /\ BudgetInv'
  BY NextTypes, NextFits
<1>3. TypesInv /\ BudgetInv => AssemblyWithinBudget
  <2> SUFFICES ASSUME BudgetInv, req.phase = "done" PROVE AssemblyWithinBudget
    BY DEF AssemblyWithinBudget
  <2>1. Assembled(req)
    BY DEF BudgetInv
  <2>2. /\ Missing(req, "T1", req.first \cup req.found) # {} <=>
             \E a \in req.first \cup req.found : <<"T1", a>> \notin ItemRefs(req.items)
        /\ Missing(req, "T2", req.scenes) # {} <=>
             \E s \in req.scenes : <<"T2", s>> \notin ItemRefs(req.items)
    BY DEF Missing
  <2> QED
    BY <2>1, <2>2 DEF AssemblyWithinBudget, Assembled, LeftOut
<1> QED
  BY <1>1, <1>2, <1>3, PTL DEF Spec

-----------------------------------------------------------------------------
\* Traces and answers.

TraceInv ==
  \A r \in DOMAIN traces :
    /\ Once(traces[r].items)
    /\ req.phase = "done" /\ req.id = r => ItemRefs(traces[r].items) = ItemRefs(req.items)

\* Neither do answers name an item twice: the core is the only one of its kind.
LEMMA AnswerOnce ==
  ASSUME TypesInv, req.phase = "embed_scenes",
         NEW rows, NEW limit, NEW hits \in Hits(rows, LiveScenes, limit)
  PROVE  Once(Answer(hits).items)
<1> DEFINE tier == SceneTier(hits)
           before == BeforeCore(hits, tier)
<1>1. req \in Requests /\ tier \in Tier /\ AfterScenes(before)
  BY ScenesRead
<1>2. tier.items \in Seq(Item)
  BY <1>1 DEF Tier
<1> HIDE DEF tier
<1>3. before.items = tier.items
  BY <1>1 DEF BeforeCore, Requests
<1>4. Once(tier.items) /\ <<"T3", "core">> \notin ItemRefs(tier.items)
  BY <1>1, <1>3 DEF AfterScenes
<1> DEFINE item == [ref |-> <<"T3", "core">>, source |-> "core",
                    chars |-> Truncated(core, CoreCap(tier.items))]
<1>5. Once(Append(tier.items, item))
  <2>1. item.ref = <<"T3", "core">>
    OBVIOUS
  <2> HIDE DEF item
  <2> QED
    BY <1>2, <1>4, <2>1, OnceOfAppend
<1>6. Once(WithCore(tier.items))
  BY <1>4, <1>5 DEF WithCore
<1>7. Answer(hits).items = WithCore(tier.items)
  BY <1>1 DEF Answer, Requests, tier
<1> QED
  BY <1>6, <1>7

\* A step after which the recall is not at its end, or is as it was, and the
\* traces are some of those there were, item by item.
LEMMA TraceStep ==
  ASSUME TraceInv, req' = req \/ req'.phase # "done",
         \A r \in DOMAIN traces' :
           /\ r \in DOMAIN traces
           /\ DOMAIN traces'[r].items = DOMAIN traces[r].items
           /\ \A i \in DOMAIN traces[r].items :
                traces'[r].items[i].ref = traces[r].items[i].ref
  PROVE  TraceInv'
<1> SUFFICES ASSUME NEW r \in DOMAIN traces'
             PROVE  /\ Once(traces'[r].items)
                    /\ req'.phase = "done" /\ req'.id = r =>
                         ItemRefs(traces'[r].items) = ItemRefs(req'.items)
  BY DEF TraceInv, Once, ItemRefs
<1> DEFINE old == traces[r].items
<1>1. PICK new : new = traces'[r].items
  OBVIOUS
<1>2. /\ r \in DOMAIN traces /\ DOMAIN new = DOMAIN old
      /\ \A i \in DOMAIN old : new[i].ref = old[i].ref
  BY <1>1
<1>3. Once(old) /\ (req.phase = "done" /\ req.id = r => ItemRefs(old) = ItemRefs(req.items))
  BY <1>2 DEF TraceInv
<1> HIDE DEF old
<1>4. Once(new) /\ ItemRefs(new) = ItemRefs(old)
  BY <1>2, <1>3 DEF Once, ItemRefs
<1>5. Once(traces'[r].items)
  BY <1>1, <1>4
<1>6. ASSUME req'.phase = "done", req'.id = r
      PROVE  ItemRefs(traces'[r].items) = ItemRefs(req'.items)
  <2>1. req' = req /\ req.phase = "done" /\ req.id = r
    BY <1>6
  <2>2. ItemRefs(new) = ItemRefs(req.items)
    BY <1>3, <1>4, <2>1
  <2> QED
    BY <1>1, <2>1, <2>2
<1> QED
  BY <1>5, <1>6

\* The trace that is filed is the answer.
LEMMA FiledStep ==
  ASSUME TypesInv, TraceInv, NEW rows, NEW limit,
         NEW hits \in Hits(rows, LiveScenes, limit), Finish(hits)
  PROVE  TraceInv'
<1> DEFINE r == Answer(hits)
<1>1. req.phase = "embed_scenes"
  BY DEF Finish
<1>2. r \in Requests /\ Once(r.items) /\ DOMAIN traces \subseteq 1..recalls /\ recalls \in Nat
  BY <1>1, AnswerType, AnswerOnce, TypeParts, RecallAssumption
     DEF TypesInv, TracesType, CountsType
<1>3. r.id = req.id
  <2>1. req \in Requests
    BY TypeParts DEF TypesInv
  <2> QED
    BY <2>1 DEF Answer, Requests
<1>4. \/ req' = r /\ traces' = Filed(r)
      \/ req' = [r EXCEPT !.id = 0] /\ UNCHANGED traces
  BY DEF Finish, Answer, SceneTier, Filed
<1> HIDE DEF r
<1>5. CASE req' = [r EXCEPT !.id = 0] /\ UNCHANGED traces
  <2>1. req'.id = 0
    BY <1>2, <1>5 DEF Requests
  <2>2. 0 \notin DOMAIN traces
    BY <1>2
  <2> QED
    BY <1>5, <2>1, <2>2 DEF TraceInv, Once
<1>6. CASE req' = r /\ traces' = Filed(r)
  <2> DEFINE items == Trace(r).items
  <2>1. /\ DOMAIN items = DOMAIN r.items
        /\ \A i \in DOMAIN r.items : items[i].ref = r.items[i].ref
    BY DEF Trace
  <2>2. Once(items) /\ ItemRefs(items) = ItemRefs(r.items)
    <3> HIDE DEF items
    <3> QED
      BY <1>2, <2>1 DEF Once, ItemRefs
  <2>3. /\ DOMAIN traces' = DOMAIN traces \cup {r.id}
        /\ traces'[r.id].items = items
        /\ \A k \in DOMAIN traces \ {r.id} : traces'[k] = traces[k]
    BY <1>3, <1>6 DEF Filed
  <2> HIDE DEF items
  <2>4. \A k \in DOMAIN traces : Once(traces[k].items)
    BY DEF TraceInv
  <2>5. ASSUME NEW k \in DOMAIN traces'
        PROVE  /\ Once(traces'[k].items)
               /\ req'.id = k => ItemRefs(traces'[k].items) = ItemRefs(req'.items)
    <3>1. CASE k = r.id
      BY <1>6, <2>2, <2>3, <3>1
    <3>2. CASE k # r.id
      BY <1>6, <2>3, <2>4, <3>2
    <3> QED
      BY <3>1, <3>2
  <2> QED
    BY <2>5 DEF TraceInv, Once, ItemRefs
<1> QED
  BY <1>4, <1>5, <1>6

LEMMA NextTraces == TypesInv /\ TraceInv /\ [Next]_vars => TraceInv'
<1> SUFFICES ASSUME TypesInv, TraceInv, [Next]_vars PROVE TraceInv'
  OBVIOUS
<1>1. ASSUME UNCHANGED traces, req' = req \/ req'.phase # "done"
      PROVE  TraceInv'
  BY <1>1, TraceStep
<1>2. ASSUME NEW budget, NEW order, Start(budget, order)
      PROVE  TraceInv'
  <2>1. req'.phase = "embed_atoms" /\ UNCHANGED traces
    BY <1>2 DEF Start, Idle
  <2> QED
    BY <1>1, <2>1
<1>3. CASE SearchAtoms
  <2>1. req \in Requests
    BY TypeParts DEF TypesInv
  <2>2. req'.phase = "embed_scenes" /\ UNCHANGED traces
    BY <1>3, <2>1 DEF SearchAtoms, RankAtoms, Requests
  <2> QED
    BY <1>1, <2>2
<1>4. CASE SearchScenes
  <2> DEFINE rows == {s \in Scenes : scene[s] # "absent"}
             limit == SceneLimit(ScenesCap)
  <2>1. PICK hits \in Hits(rows, LiveScenes, limit) : Finish(hits)
    BY <1>4 DEF SearchScenes
  <2> HIDE DEF rows, limit
  <2> QED
    BY <2>1, FiledStep
<1>5. CASE RecallFails
  BY <1>1, <1>5, IdleRecord DEF RecallFails
<1>6. ASSUME NEW r, NEW used, NEW unused, ReportUsage(r, used, unused)
      PROVE  TraceInv'
  <2> DEFINE t == traces[r]
             new == Reported(t, used, unused)
  <2>1. r \in DOMAIN traces /\ traces' = [traces EXCEPT ![r] = new] /\ req' = req
    BY <1>6 DEF ReportUsage
  <2>2. TraceShape(t)
    BY <2>1 DEF TypesInv, RecallInv
  <2>3. /\ DOMAIN new.items = DOMAIN t.items
        /\ \A i \in DOMAIN t.items : new.items[i].ref = t.items[i].ref
    BY <2>2 DEF Reported, TraceShape
  <2> HIDE DEF new
  <2>4. /\ DOMAIN traces' = DOMAIN traces /\ traces'[r] = new
        /\ \A k \in DOMAIN traces \ {r} : traces'[k] = traces[k]
    BY <2>1
  <2> QED
    BY <2>1, <2>3, <2>4, TraceStep
<1>7. CASE PruneTraces
  <2>1. /\ req' = req /\ DOMAIN traces' \subseteq DOMAIN traces
        /\ \A k \in DOMAIN traces' : traces'[k] = traces[k]
    BY <1>7 DEF PruneTraces, Restrict
  <2> QED
    BY <2>1, TraceStep
<1>8. CASE MemoryChanges
  BY <1>1, <1>8 DEF MemoryChanges, Remember, Forget, WriteScene, WriteCore, Written
<1>9. CASE DayPasses
  BY <1>1, <1>9 DEF DayPasses
<1>10. CASE UNCHANGED vars
  BY <1>1, <1>10 DEF vars
<1> QED
  BY <1>2, <1>3, <1>4, <1>5, <1>6, <1>7, <1>8, <1>9, <1>10
     DEF Next, McpRecall, HttpRecall, TopicRecall

\* No trace there may be from before names an item twice.
LEMMA InitTraces == Init => TypesInv /\ TraceInv
<1> SUFFICES ASSUME Init PROVE TraceInv
  BY InitTypes
<1>1. req.phase = "idle"
  BY IdleRecord DEF Init
<1>2. CASE traces = <<>>
  BY <1>2 DEF TraceInv
<1>3. CASE traces = Earlier
  <2>1. DOMAIN traces = {1} /\ DOMAIN traces[1].items = {1}
    BY <1>3 DEF Earlier
  <2> QED
    BY <1>1, <2>1 DEF TraceInv, Once
<1> QED
  BY <1>2, <1>3 DEF Init

\* However atoms are pinned and unpinned, written and taken out of service between
\* the reads of a recall, no trace names an item twice, so that a report means one
\* row; and as long as a trace is kept, whatever is reported on it, its items are
\* those of the answer that bore its id.
THEOREM TracesAreAnswers == Spec => []TraceIsTheAnswer
<1>1. TypesInv /\ TraceInv /\ [Next]_vars => TypesInv' /\ TraceInv'
  BY NextTypes, NextTraces
<1>2. TraceInv => TraceIsTheAnswer
  BY DEF TraceInv, TraceIsTheAnswer, Once
<1> QED
  BY InitTraces, <1>1, <1>2, PTL DEF Spec

-----------------------------------------------------------------------------
\* The metrics: what a breakdown counts, added up.

\* Each row is counted under the usage it has.
LEMMA CountedIs ==
  ASSUME NEW rows, IsFiniteSet(rows), \A p \in rows : ItemOf(p).usage \in Usage
  PROVE  Counted(UsageRate(rows)) = Cardinality(rows)
<1> DEFINE Of(u) == {p \in rows : ItemOf(p).usage = u}
           U1 == Of("used")  U2 == Of("unused")  U3 == Of("unknown")
<1>1. /\ UsageRate(rows)["used"] = Cardinality(U1)
      /\ UsageRate(rows)["unused"] = Cardinality(U2)
      /\ UsageRate(rows)["unknown"] = Cardinality(U3)
  BY DEF UsageRate, Usage
<1>2. /\ U1 \in SUBSET rows /\ U2 \in SUBSET rows /\ U3 \in SUBSET rows
      /\ rows = (U1 \cup U2) \cup U3
      /\ U1 \cap U2 = {} /\ (U1 \cup U2) \cap U3 = {}
  BY DEF Usage
<1> HIDE DEF U1, U2, U3
<1>3. IsFiniteSet(U1) /\ IsFiniteSet(U2) /\ IsFiniteSet(U3)
  BY <1>2, FS_Subset
<1>4. /\ IsFiniteSet(U1 \cup U2)
      /\ Cardinality(U1 \cup U2) = Cardinality(U1) + Cardinality(U2) - Cardinality(U1 \cap U2)
      /\ Cardinality((U1 \cup U2) \cup U3)
           = Cardinality(U1 \cup U2) + Cardinality(U3) - Cardinality((U1 \cup U2) \cap U3)
  BY <1>3, FS_Union
<1>5. /\ Cardinality({}) = 0
      /\ Cardinality(U1) \in Nat /\ Cardinality(U2) \in Nat /\ Cardinality(U3) \in Nat
  BY <1>3, FS_EmptySet, FS_CardinalityType
<1>6. Cardinality(rows) = Cardinality(U1) + Cardinality(U2) + Cardinality(U3)
  <2>1. Cardinality(U1 \cap U2) = 0 /\ Cardinality((U1 \cup U2) \cap U3) = 0
    BY <1>2, <1>5
  <2>2. Cardinality(rows) = Cardinality((U1 \cup U2) \cup U3)
    BY <1>2
  <2> QED
    BY <1>4, <1>5, <2>1, <2>2
<1>7. Counted(UsageRate(rows)) = Cardinality(U1) + Cardinality(U2) + Cardinality(U3)
  BY <1>1 DEF Counted
<1> QED
  BY <1>6, <1>7

Totals(f, rates, keys) ==
  f = [n \in 0..Len(keys) |-> IF n = 0 THEN 0 ELSE f[n - 1] + Counted(rates[keys[n]])]

\* The sums that CountedAll is defined by exist.
LEMMA TotalsAre ==
  ASSUME NEW keys, Len(keys) \in Nat, NEW rates,
         \A n \in 1..Len(keys) : Counted(rates[keys[n]]) \in Nat
  PROVE  \E f : /\ f[0] = 0
                /\ \A n \in 1..Len(keys) : f[n] = f[n - 1] + Counted(rates[keys[n]])
                /\ CountedAll(rates, keys) = f[Len(keys)]
<1> DEFINE len == Len(keys)
           step == [p \in (1..len) \X Nat |-> p[2] + Counted(rates[keys[p[1]]])]
<1>1. step \in [(1..len) \X Nat -> Nat]
  OBVIOUS
<1>2. \A n \in 1..len, m \in Nat : step[<<n, m>>] = m + Counted(rates[keys[n]])
  OBVIOUS
<1> HIDE DEF step
<1>3. PICK g \in [0..len -> Nat] : Solves(g, len, 0, step)
  BY <1>1, Recursion
<1>4. Totals(g, rates, keys)
  <2>1. \A n \in 0..len : g[n] = IF n = 0 THEN 0 ELSE step[<<n, g[n - 1]>>]
    BY <1>3 DEF Solves
  <2>2. \A n \in 1..len : step[<<n, g[n - 1]>>] = g[n - 1] + Counted(rates[keys[n]])
    BY <1>2, <1>3
  <2>3. \A n \in 0..len : n = 0 \/ n \in 1..len
    OBVIOUS
  <2>4. \A n \in 0..len : g[n] = IF n = 0 THEN 0 ELSE g[n - 1] + Counted(rates[keys[n]])
    BY <2>1, <2>2, <2>3, Zenon
  <2>5. g = [n \in 0..len |-> g[n]]
    BY <1>3
  <2> QED
    BY <2>4, <2>5 DEF Totals
<1> DEFINE f == CHOOSE h : Totals(h, rates, keys)
<1>5. Totals(f, rates, keys)
  BY <1>4
<1>6. CountedAll(rates, keys) = f[len]
  BY DEF CountedAll, Totals
<1> HIDE DEF f
<1>7. \A n \in 0..len : f[n] = IF n = 0 THEN 0 ELSE f[n - 1] + Counted(rates[keys[n]])
  BY <1>5, Zenon DEF Totals
<1>8. f[0] = 0 /\ \A n \in 1..len : f[n] = f[n - 1] + Counted(rates[keys[n]])
  <2>1. 0 \in 0..len /\ \A n \in 1..len : n \in 0..len /\ n # 0
    OBVIOUS
  <2> QED
    BY <1>7, <2>1, Zenon
<1> QED
  BY <1>6, <1>8

\* rates are those of the rows of each value of their key, and no value is missing
\* or there twice.
BreaksDown(rows, key, keys, rates) ==
  /\ IsFiniteSet(rows)
  /\ Len(keys) \in Nat
  /\ \A p \in rows : \E n \in 1..Len(keys) : key[p] = keys[n]
  /\ \A i, j \in 1..Len(keys) : keys[i] = keys[j] => i = j
  /\ \A n \in 1..Len(keys) :
       Counted(rates[keys[n]]) = Cardinality({p \in rows : key[p] = keys[n]})

\* Such a breakdown counts every row once.
LEMMA CellsAddUp ==
  ASSUME NEW rows, NEW key, NEW keys, NEW rates, BreaksDown(rows, key, keys, rates)
  PROVE  CountedAll(rates, keys) = Cardinality(rows)
<1> USE DEF BreaksDown
<1> DEFINE len == Len(keys)
           Cell(n) == {p \in rows : key[p] = keys[n]}
           Up(n) == {p \in rows : \E i \in 1..n : key[p] = keys[i]}
<1>1. \A n \in 1..len : Counted(rates[keys[n]]) = Cardinality(Cell(n)) /\ Cell(n) \in SUBSET rows
  OBVIOUS
<1>2. \A n \in 1..len : IsFiniteSet(Cell(n)) /\ Cardinality(Cell(n)) \in Nat
  <2> SUFFICES ASSUME NEW n \in 1..len
               PROVE  IsFiniteSet(Cell(n)) /\ Cardinality(Cell(n)) \in Nat
    OBVIOUS
  <2>1. Cell(n) \in SUBSET rows
    OBVIOUS
  <2> HIDE DEF Cell
  <2>2. IsFiniteSet(Cell(n))
    BY <2>1, FS_Subset
  <2> QED
    BY <2>2, FS_CardinalityType
<1>3. PICK f : /\ f[0] = 0
               /\ \A n \in 1..len : f[n] = f[n - 1] + Counted(rates[keys[n]])
               /\ CountedAll(rates, keys) = f[len]
  <2>1. \A n \in 1..len : Counted(rates[keys[n]]) \in Nat
    BY <1>1, <1>2
  <2> QED
    BY <2>1, TotalsAre
<1> DEFINE T == {n \in 0..len : f[n] = Cardinality(Up(n))}
<1>4. 0 \in T
  <2>1. Up(0) = {} /\ 0 \in 0..len
    OBVIOUS
  <2> HIDE DEF Up
  <2> QED
    BY <1>3, <2>1, FS_EmptySet
<1>5. ASSUME NEW n \in 1..len, n - 1 \in T
      PROVE  n \in T
  <2>1. Up(n) = Up(n - 1) \cup Cell(n)
    <3>1. \A i \in 1..n : i \in 1..(n - 1) \/ i = n
      OBVIOUS
    <3>2. n \in 1..n /\ \A i \in 1..(n - 1) : i \in 1..n
      OBVIOUS
    <3> QED
      BY <3>1, <3>2
  <2>2. Up(n - 1) \cap Cell(n) = {}
    <3>1. \A i \in 1..(n - 1) : i \in 1..len /\ i # n
      OBVIOUS
    <3> QED
      BY <3>1
  <2>3. Up(n - 1) \in SUBSET rows
    OBVIOUS
  <2>4. f[n - 1] = Cardinality(Up(n - 1)) /\ n \in 0..len
    BY <1>5
  <2>5. f[n] = f[n - 1] + Cardinality(Cell(n))
    BY <1>1, <1>3
  <2>6. PICK A, B : A = Up(n - 1) /\ B = Cell(n) /\ Up(n) = A \cup B
    BY <2>1
  <2> HIDE DEF Up, Cell, T
  <2>7. IsFiniteSet(A) /\ IsFiniteSet(B)
    BY <1>2, <2>3, <2>6, FS_Subset
  <2>8. /\ Cardinality(A \cup B) = Cardinality(A) + Cardinality(B) - Cardinality(A \cap B)
        /\ Cardinality(A \cap B) = 0
        /\ Cardinality(A) \in Nat /\ Cardinality(B) \in Nat
    BY <2>2, <2>6, <2>7, FS_Union, FS_EmptySet, FS_CardinalityType
  <2>9. f[n] = Cardinality(Up(n))
    BY <2>4, <2>5, <2>6, <2>8
  <2> QED
    BY <2>4, <2>9 DEF T
<1> HIDE DEF T
<1>6. len \in T
  <2>1. 0..len \subseteq T
    BY <1>4, <1>5, UpTo
  <2>2. len \in 0..len
    OBVIOUS
  <2> QED
    BY <2>1, <2>2
<1>7. Up(len) = rows
  OBVIOUS
<1> QED
  BY <1>3, <1>6, <1>7 DEF T

\* No trace has more items than there are things to refer to, and the rows are as
\* typed.
LEMMA RowFacts ==
  ASSUME TypesInv, TraceInv
  PROVE  /\ IsFiniteSet(ItemRows)
         /\ Cardinality(Refs) \in Nat
         /\ \A p \in ItemRows : ItemOf(p) \in TraceItem /\ p[2] \in 1..Cardinality(Refs)
<1>1. IsFiniteSet(Refs)
  <2> DEFINE AtomRefs == {"T1"} \X Atoms
             SceneRefs == {"T2"} \X Scenes
             CoreRefs == {<<"T3", "core">>}
  <2>1. IsFiniteSet(Atoms) /\ IsFiniteSet(Scenes)
    BY RecallAssumption, FS_Union DEF Scenes
  <2>2. IsFiniteSet({"T1"}) /\ IsFiniteSet({"T2"}) /\ IsFiniteSet(CoreRefs)
    BY FS_Singleton
  <2>3. IsFiniteSet(AtomRefs) /\ IsFiniteSet(SceneRefs)
    BY <2>1, <2>2, FS_Product
  <2>4. Refs = (AtomRefs \cup SceneRefs) \cup CoreRefs
    BY DEF Refs
  <2> HIDE DEF AtomRefs, SceneRefs, CoreRefs
  <2> QED
    BY <2>2, <2>3, <2>4, FS_Union
<1>2. Cardinality(Refs) \in Nat
  BY <1>1, FS_CardinalityType
<1>3. /\ DOMAIN traces \subseteq 1..recalls /\ recalls \in Nat
      /\ \A r \in DOMAIN traces : traces[r].items \in Seq(TraceItem)
  <2>1. TracesType /\ CountsType
    BY TypeParts DEF TypesInv
  <2>2. recalls \in Nat
    BY <2>1, RecallAssumption DEF CountsType
  <2>3. \A r \in DOMAIN traces : traces[r] \in TraceRecord(day)
    BY <2>1 DEF TracesType
  <2> QED
    BY <2>1, <2>2, <2>3 DEF TracesType, TraceRecord
<1>4. ASSUME NEW r \in DOMAIN traces
      PROVE  DOMAIN traces[r].items \subseteq 1..Cardinality(Refs)
  <2> DEFINE items == traces[r].items
             f == [i \in 1..Len(items) |-> items[i].ref]
  <2>1. items \in Seq(TraceItem) /\ Once(items)
    BY <1>3 DEF TraceInv
  <2> HIDE DEF items
  <2>2. DOMAIN items = 1..Len(items) /\ Len(items) \in Nat
    BY <2>1
  <2>3. \A i \in 1..Len(items) : items[i].ref \in Refs
    <3>1. \A i \in 1..Len(items) : items[i] \in TraceItem
      BY <2>1
    <3> QED
      BY <3>1 DEF TraceItem
  <2>4. \A i, j \in 1..Len(items) : items[i].ref = items[j].ref => i = j
    BY <2>1, <2>2 DEF Once
  <2>5. f \in Injection(1..Len(items), Refs)
    BY <2>3, <2>4 DEF Injection, IsInjective
  <2>6. Cardinality(1..Len(items)) <= Cardinality(Refs)
    BY <1>1, <2>5, FS_Injection
  <2>7. Cardinality(1..Len(items)) = Len(items)
    BY <2>2, FS_Interval
  <2>8. 1..Len(items) \subseteq 1..Cardinality(Refs)
    BY <1>2, <2>2, <2>6, <2>7
  <2> QED
    BY <2>2, <2>8 DEF items
<1>5. \A p \in ItemRows : /\ p[1] \in DOMAIN traces /\ p[2] \in DOMAIN traces[p[1]].items
                          /\ p = <<p[1], p[2]>>
  BY DEF ItemRows
<1>6. IsFiniteSet(ItemRows)
  <2>1. ItemRows \in SUBSET ((1..recalls) \X (1..Cardinality(Refs)))
    BY <1>3, <1>4, <1>5
  <2>2. IsFiniteSet(1..recalls) /\ IsFiniteSet(1..Cardinality(Refs))
    BY <1>2, <1>3, FS_Interval
  <2>3. IsFiniteSet((1..recalls) \X (1..Cardinality(Refs)))
    BY <2>2, FS_Product
  <2> QED
    BY <2>1, <2>3, FS_Subset
<1>7. \A p \in ItemRows : ItemOf(p) \in TraceItem
  BY <1>3, <1>5 DEF ItemOf
<1>8. \A p \in ItemRows : p[2] \in 1..Cardinality(Refs)
  BY <1>4, <1>5
<1> QED
  BY <1>2, <1>6, <1>7, <1>8

\* Every breakdown counts every row once.
LEMMA MetricsAddUp ==
  ASSUME TypesInv, TraceInv
  PROVE  /\ CountedAll(Metrics.by_tier, <<"T1", "T2", "T3">>) = Metrics.item_count
         /\ CountedAll(Metrics.by_source, <<"pinned", "ranked", "scene", "core">>)
              = Metrics.item_count
         /\ CountedAll(Metrics.by_rank, Ranks) = Metrics.item_count
<1>1. /\ IsFiniteSet(ItemRows) /\ Cardinality(Refs) \in Nat
      /\ \A p \in ItemRows : ItemOf(p) \in TraceItem /\ p[2] \in 1..Cardinality(Refs)
  BY RowFacts
<1>2. \A rows \in SUBSET ItemRows : Counted(UsageRate(rows)) = Cardinality(rows)
  <2> SUFFICES ASSUME NEW rows \in SUBSET ItemRows
               PROVE  Counted(UsageRate(rows)) = Cardinality(rows)
    OBVIOUS
  <2>1. IsFiniteSet(rows) /\ \A p \in rows : ItemOf(p).usage \in Usage
    BY <1>1, FS_Subset DEF TraceItem
  <2> QED
    BY <2>1, CountedIs
<1>3. Metrics.item_count = Cardinality(ItemRows)
  BY DEF Metrics
<1>4. CountedAll(Metrics.by_tier, <<"T1", "T2", "T3">>) = Cardinality(ItemRows)
  <2> DEFINE key == [p \in ItemRows |-> ItemOf(p).ref[1]]
             keys == <<"T1", "T2", "T3">>
             rates == Metrics.by_tier
  <2>1. \A p \in ItemRows : key[p] = ItemOf(p).ref[1] /\ key[p] \in {"T1", "T2", "T3"}
    BY <1>1 DEF TraceItem, Refs
  <2>2. \A k \in {"T1", "T2", "T3"} :
          rates[k] = UsageRate({p \in ItemRows : ItemOf(p).ref[1] = k})
    BY DEF Metrics
  <2>3. /\ Len(keys) = 3 /\ keys[1] = "T1" /\ keys[2] = "T2" /\ keys[3] = "T3"
        /\ \A n \in 1..3 : n = 1 \/ n = 2 \/ n = 3
    OBVIOUS
  <2> HIDE DEF key, keys, rates
  <2>4. \A k \in {"T1", "T2", "T3"} :
          Counted(rates[k]) = Cardinality({p \in ItemRows : key[p] = k})
    <3> SUFFICES ASSUME NEW k \in {"T1", "T2", "T3"}
                 PROVE  Counted(rates[k]) = Cardinality({p \in ItemRows : key[p] = k})
      OBVIOUS
    <3>1. {p \in ItemRows : ItemOf(p).ref[1] = k} = {p \in ItemRows : key[p] = k}
      BY <2>1
    <3> QED
      BY <1>2, <2>2, <3>1
  <2>5. /\ Len(keys) \in Nat
        /\ \A p \in ItemRows : \E n \in 1..Len(keys) : key[p] = keys[n]
        /\ \A i, j \in 1..Len(keys) : keys[i] = keys[j] => i = j
        /\ \A n \in 1..Len(keys) : keys[n] \in {"T1", "T2", "T3"}
    BY <2>1, <2>3
  <2>6. \A n \in 1..Len(keys) :
          Counted(rates[keys[n]]) = Cardinality({p \in ItemRows : key[p] = keys[n]})
    BY <2>4, <2>5
  <2>7. BreaksDown(ItemRows, key, keys, rates)
    BY <1>1, <2>5, <2>6 DEF BreaksDown
  <2> QED
    BY <2>7, CellsAddUp DEF rates, keys
<1>5. CountedAll(Metrics.by_source, <<"pinned", "ranked", "scene", "core">>)
        = Cardinality(ItemRows)
  <2> DEFINE key == [p \in ItemRows |-> ItemOf(p).source]
             keys == <<"pinned", "ranked", "scene", "core">>
             rates == Metrics.by_source
  <2>1. \A p \in ItemRows : key[p] = ItemOf(p).source /\ key[p] \in AllSources
    BY <1>1 DEF TraceItem, AllSources
  <2>2. \A k \in AllSources : rates[k] = UsageRate({p \in ItemRows : ItemOf(p).source = k})
    BY DEF Metrics, AllSources
  <2>3. /\ Len(keys) = 4 /\ keys[1] = "pinned" /\ keys[2] = "ranked" /\ keys[3] = "scene"
        /\ keys[4] = "core" /\ \A n \in 1..4 : n = 1 \/ n = 2 \/ n = 3 \/ n = 4
    OBVIOUS
  <2> HIDE DEF key, keys, rates
  <2>4. \A k \in AllSources : Counted(rates[k]) = Cardinality({p \in ItemRows : key[p] = k})
    <3> SUFFICES ASSUME NEW k \in AllSources
                 PROVE  Counted(rates[k]) = Cardinality({p \in ItemRows : key[p] = k})
      OBVIOUS
    <3>1. {p \in ItemRows : ItemOf(p).source = k} = {p \in ItemRows : key[p] = k}
      BY <2>1
    <3> QED
      BY <1>2, <2>2, <3>1
  <2>5. /\ Len(keys) \in Nat
        /\ \A p \in ItemRows : \E n \in 1..Len(keys) : key[p] = keys[n]
        /\ \A i, j \in 1..Len(keys) : keys[i] = keys[j] => i = j
        /\ \A n \in 1..Len(keys) : keys[n] \in AllSources
    BY <2>1, <2>3 DEF AllSources
  <2>6. \A n \in 1..Len(keys) :
          Counted(rates[keys[n]]) = Cardinality({p \in ItemRows : key[p] = keys[n]})
    BY <2>4, <2>5
  <2>7. BreaksDown(ItemRows, key, keys, rates)
    BY <1>1, <2>5, <2>6 DEF BreaksDown
  <2> QED
    BY <2>7, CellsAddUp DEF rates, keys
<1>6. CountedAll(Metrics.by_rank, Ranks) = Cardinality(ItemRows)
  <2> DEFINE key == [p \in ItemRows |-> p[2]]
             rates == Metrics.by_rank
  <2>1. \A p \in ItemRows : key[p] = p[2] /\ key[p] \in 1..Cardinality(Refs)
    BY <1>1
  <2>2. \A k \in 1..Cardinality(Refs) : rates[k] = UsageRate({p \in ItemRows : p[2] = k})
    BY DEF Metrics
  <2>3. Len(Ranks) = Cardinality(Refs) /\ \A k \in 1..Cardinality(Refs) : Ranks[k] = k
    BY <1>1 DEF Ranks
  <2> HIDE DEF key, rates
  <2>4. \A k \in 1..Cardinality(Refs) :
          Counted(rates[k]) = Cardinality({p \in ItemRows : key[p] = k})
    <3> SUFFICES ASSUME NEW k \in 1..Cardinality(Refs)
                 PROVE  Counted(rates[k]) = Cardinality({p \in ItemRows : key[p] = k})
      OBVIOUS
    <3>1. {p \in ItemRows : p[2] = k} = {p \in ItemRows : key[p] = k}
      BY <2>1
    <3> QED
      BY <1>2, <2>2, <3>1
  <2>5. /\ Len(Ranks) \in Nat
        /\ \A p \in ItemRows : \E n \in 1..Len(Ranks) : key[p] = Ranks[n]
        /\ \A i, j \in 1..Len(Ranks) : Ranks[i] = Ranks[j] => i = j
    BY <1>1, <2>1, <2>3
  <2>6. \A n \in 1..Len(Ranks) :
          Counted(rates[Ranks[n]]) = Cardinality({p \in ItemRows : key[p] = Ranks[n]})
    BY <2>3, <2>4
  <2>7. BreaksDown(ItemRows, key, Ranks, rates)
    BY <1>1, <2>5, <2>6 DEF BreaksDown
  <2> QED
    BY <2>7, CellsAddUp DEF rates
<1> QED
  BY <1>3, <1>4, <1>5, <1>6

-----------------------------------------------------------------------------
\* A trace looked at again.

Mark == [ref : Refs, reason : {"not_found", "superseded", "merged", "archived", "retired",
                               "deleted"}]
Looked == [shown : Seq(Refs), stale : Seq(Mark)]

\* What is not in service has a reason.
LEMMA ReasonType ==
  ASSUME MemoryType, NEW ref \in Refs, ~InService(ref)
  PROVE  [ref |-> ref, reason |-> StaleReason(ref)] \in Mark
<1> SUFFICES StaleReason(ref) \in {"not_found", "superseded", "merged", "archived", "retired",
                                   "deleted"}
  BY DEF Mark
<1>1. CASE ref[1] = "T1"
  <2>1. ref[2] \in Atoms
    BY <1>1 DEF Refs
  <2>2. status[ref[2]] \in AtomStatus \ {"active"}
    BY <1>1, <2>1 DEF InService, Live, MemoryType
  <2> QED
    BY <1>1, <2>2 DEF StaleReason, AtomStatus
<1>2. CASE ref[1] = "T2"
  BY <1>2 DEF StaleReason
<1>3. CASE ref[1] # "T1" /\ ref[1] # "T2"
  BY <1>3 DEF StaleReason
<1> QED
  BY <1>1, <1>2, <1>3

LEMMA LookType ==
  ASSUME MemoryType, NEW seen \in Looked, NEW ref \in Refs
  PROVE  Look(seen, ref) \in Looked
<1>1. CASE InService(ref)
  <2>1. Append(seen.shown, ref) \in Seq(Refs)
    BY DEF Looked
  <2> QED
    BY <1>1, <2>1 DEF Look, Looked
<1>2. CASE ~InService(ref)
  <2>1. Append(seen.stale, [ref |-> ref, reason |-> StaleReason(ref)]) \in Seq(Mark)
    BY <1>2, ReasonType DEF Looked
  <2> QED
    BY <1>2, <2>1 DEF Look, Looked
<1> QED
  BY <1>1, <1>2

Count(looked) == Len(looked.shown) + Len(looked.stale)

\* What has been seen of the first n items of a trace.
SoFar(looked, items, n) ==
  /\ Range(looked.shown) = {items[i].ref : i \in 1..n} \cap Served
  /\ ItemRefs(looked.stale) = {items[i].ref : i \in 1..n} \ Served
  /\ Count(looked) = n

\* The test of each item tells what a recall could find.
LEMMA ServedIs ==
  ASSUME NEW ref \in Refs
  PROVE  InService(ref) <=> ref \in Served
<1>1. CASE ref \in {<<"T1", a>> : a \in Atoms}
  BY <1>1 DEF InService, Served
<1>2. CASE ref \in {<<"T2", x>> : x \in Scenes}
  BY <1>2 DEF InService, Served
<1>3. CASE ref = <<"T3", "core">>
  BY <1>3 DEF InService, Served
<1> QED
  BY <1>1, <1>2, <1>3 DEF Refs

LEMMA OneMore == \A a, b \in Nat : (a + 1) + b = (a + b) + 1 /\ a + (b + 1) = (a + b) + 1
OBVIOUS

\* An item more is seen, and counted.
LEMMA LookStep ==
  ASSUME NEW seen \in Looked, NEW ref \in Refs
  PROVE  /\ Range(Look(seen, ref).shown) = Range(seen.shown) \cup ({ref} \cap Served)
         /\ ItemRefs(Look(seen, ref).stale) = ItemRefs(seen.stale) \cup ({ref} \ Served)
         /\ Count(Look(seen, ref)) = Count(seen) + 1
<1>1. PICK new, mark : /\ new = Look(seen, ref)
                       /\ mark = [ref |-> ref, reason |-> StaleReason(ref)]
  OBVIOUS
<1>2. seen.shown \in Seq(Refs) /\ seen.stale \in Seq(Mark)
  BY DEF Looked
<1>3. mark.ref = ref
  BY <1>1
<1>4. ASSUME InService(ref)
      PROVE  /\ Range(new.shown) = Range(seen.shown) \cup ({ref} \cap Served)
             /\ ItemRefs(new.stale) = ItemRefs(seen.stale) \cup ({ref} \ Served)
             /\ Count(new) = Count(seen) + 1
  <2> DEFINE old == seen.shown
             more == Append(old, ref)
  <2>1. new.shown = more /\ new.stale = seen.stale
    BY <1>1, <1>4 DEF Look, Looked
  <2>2. PICK k : /\ DOMAIN more = DOMAIN old \cup {k} /\ more[k] = ref
                 /\ \A i \in DOMAIN old : more[i] = old[i]
    <3>1. /\ DOMAIN more = (DOMAIN old) \cup {Len(old) + 1}
          /\ more[Len(old) + 1] = ref
          /\ \A i \in DOMAIN old : more[i] = old[i]
      BY <1>2, <1>3
    <3> QED
      BY <3>1
  <2>3. Len(more) = Len(old) + 1
    BY <1>2
  <2> HIDE DEF more
  <2>4. Range(more) = Range(old) \cup {ref}
    BY <2>2 DEF Range
  <2>5. /\ Range(new.shown) = Range(seen.shown) \cup ({ref} \cap Served)
        /\ ItemRefs(new.stale) = ItemRefs(seen.stale) \cup ({ref} \ Served)
    <3>1. ref \in Served
      BY <1>4, ServedIs
    <3> QED
      BY <2>1, <2>4, <3>1
  <2>6. Count(new) = Count(seen) + 1
    <3>1. PICK a, b \in Nat : a = Len(seen.shown) /\ b = Len(seen.stale)
      BY <1>2
    <3>2. Len(new.shown) = a + 1 /\ Len(new.stale) = b
      BY <2>1, <2>3, <3>1
    <3>3. Count(new) = (a + 1) + b /\ Count(seen) = a + b
      BY <3>1, <3>2, Zenon DEF Count
    <3> QED
      BY <3>1, <3>3, OneMore, Zenon
  <2> QED
    BY <2>5, <2>6
<1>5. ASSUME ~InService(ref)
      PROVE  /\ Range(new.shown) = Range(seen.shown) \cup ({ref} \cap Served)
             /\ ItemRefs(new.stale) = ItemRefs(seen.stale) \cup ({ref} \ Served)
             /\ Count(new) = Count(seen) + 1
  <2> DEFINE old == seen.stale
             more == Append(old, mark)
  <2>1. new.stale = more /\ new.shown = seen.shown
    BY <1>1, <1>5 DEF Look, Looked
  <2>2. PICK k : /\ DOMAIN more = DOMAIN old \cup {k} /\ more[k].ref = ref
                 /\ \A i \in DOMAIN old : more[i] = old[i]
    <3>1. /\ DOMAIN more = (DOMAIN old) \cup {Len(old) + 1}
          /\ more[Len(old) + 1].ref = ref
          /\ \A i \in DOMAIN old : more[i] = old[i]
      BY <1>2, <1>3
    <3> QED
      BY <3>1
  <2>3. Len(more) = Len(old) + 1
    BY <1>2
  <2> HIDE DEF more
  <2>4. ItemRefs(more) = ItemRefs(old) \cup {ref}
    BY <2>2 DEF ItemRefs
  <2>5. /\ Range(new.shown) = Range(seen.shown) \cup ({ref} \cap Served)
        /\ ItemRefs(new.stale) = ItemRefs(seen.stale) \cup ({ref} \ Served)
    <3>1. ref \notin Served
      BY <1>5, ServedIs
    <3> QED
      BY <2>1, <2>4, <3>1
  <2>6. Count(new) = Count(seen) + 1
    <3>1. PICK a, b \in Nat : a = Len(seen.shown) /\ b = Len(seen.stale)
      BY <1>2
    <3>2. Len(new.shown) = a /\ Len(new.stale) = b + 1
      BY <2>1, <2>3, <3>1
    <3>3. Count(new) = a + (b + 1) /\ Count(seen) = a + b
      BY <3>1, <3>2, Zenon DEF Count
    <3> QED
      BY <3>1, <3>3, OneMore, Zenon
  <2> QED
    BY <2>5, <2>6
<1> QED
  BY <1>1, <1>4, <1>5

Looks(f, items) ==
  f = [n \in 0..Len(items) |-> IF n = 0 THEN [shown |-> <<>>, stale |-> <<>>]
                               ELSE Look(f[n - 1], items[n].ref)]

\* Every item of a trace is shown or marked stale, as it is in service or not.
LEMMA ReconstructedIs ==
  ASSUME MemoryType, NEW items, Len(items) \in Nat, DOMAIN items = 1..Len(items),
         \A i \in 1..Len(items) : items[i].ref \in Refs
  PROVE  Reconstructed(items) \in Looked /\ SoFar(Reconstructed(items), items, Len(items))
<1> DEFINE len == Len(items)
           none == [shown |-> <<>>, stale |-> <<>>]
           step == [p \in (1..len) \X Looked |-> Look(p[2], items[p[1]].ref)]
<1>1. none \in Looked
  BY DEF Looked
<1>2. step \in [(1..len) \X Looked -> Looked]
  BY LookType
<1>3. \A n \in 1..len, seen \in Looked : step[<<n, seen>>] = Look(seen, items[n].ref)
  OBVIOUS
<1>4. none.shown = <<>> /\ none.stale = <<>>
  OBVIOUS
<1> HIDE DEF step, none
<1>5. PICK g \in [0..len -> Looked] : Solves(g, len, none, step)
  BY <1>1, <1>2, Recursion
<1>6. \A n \in 0..len : g[n] = IF n = 0 THEN none ELSE Look(g[n - 1], items[n].ref)
  <2>1. \A n \in 0..len : g[n] = IF n = 0 THEN none ELSE step[<<n, g[n - 1]>>]
    BY <1>5 DEF Solves
  <2>2. \A n \in 1..len : step[<<n, g[n - 1]>>] = Look(g[n - 1], items[n].ref)
    BY <1>3, <1>5
  <2>3. \A n \in 0..len : n = 0 \/ n \in 1..len
    OBVIOUS
  <2> QED
    BY <2>1, <2>2, <2>3, Zenon
<1>7. Looks(g, items)
  <2>1. g = [n \in 0..len |-> g[n]]
    BY <1>5
  <2> QED
    BY <1>6, <2>1 DEF Looks, none
<1> DEFINE f == CHOOSE h : Looks(h, items)
<1>8. Looks(f, items)
  BY <1>7
<1>9. Reconstructed(items) = f[len]
  BY DEF Reconstructed, Looks
<1> HIDE DEF f
<1>10. \A n \in 0..len : f[n] = IF n = 0 THEN none ELSE Look(f[n - 1], items[n].ref)
  BY <1>8, Zenon DEF Looks, none
<1> DEFINE T == {n \in 0..len : f[n] \in Looked /\ SoFar(f[n], items, n)}
<1>11. 0 \in T
  <2>1. f[0] = none /\ 0 \in 0..len
    BY <1>10
  <2>2. Range(none.shown) = {} /\ ItemRefs(none.stale) = {} /\ Len(none.shown) = 0
        /\ Len(none.stale) = 0
    BY <1>4 DEF Range, ItemRefs
  <2>3. SoFar(none, items, 0)
    BY <2>2 DEF SoFar, Count
  <2> QED
    BY <1>1, <2>1, <2>3
<1>12. ASSUME NEW n \in 1..len, n - 1 \in T
       PROVE  n \in T
  <2>1. n \in 0..len /\ n \in Nat \ {0} /\ f[n - 1] \in Looked /\ SoFar(f[n - 1], items, n - 1)
    BY <1>12
  <2>2. f[n] = Look(f[n - 1], items[n].ref)
    BY <1>10, <2>1
  <2>3. f[n] \in Looked
    BY <2>1, <2>2, LookType
  <2>4. SoFar(f[n], items, n)
    <3>1. PICK m \in Nat : n = m + 1 /\ SoFar(f[m], items, m) /\ f[m] = f[n - 1]
      BY <2>1
    <3>2. /\ Range(f[n].shown) = Range(f[m].shown) \cup ({items[n].ref} \cap Served)
          /\ ItemRefs(f[n].stale) = ItemRefs(f[m].stale) \cup ({items[n].ref} \ Served)
          /\ Count(f[n]) = Count(f[m]) + 1
      <4>1. items[n].ref \in Refs /\ f[m] \in Looked /\ f[n] = Look(f[m], items[n].ref)
        BY <2>1, <2>2, <3>1
      <4> QED
        BY <4>1, LookStep
    <3>3. Count(f[n]) = n
      BY <3>1, <3>2 DEF SoFar
    <3>4. /\ Range(f[n].shown) = {items[i].ref : i \in 1..n} \cap Served
          /\ ItemRefs(f[n].stale) = {items[i].ref : i \in 1..n} \ Served
      <4>1. 1..n = (1..m) \cup {n}
        BY <3>1
      <4>2. {items[i].ref : i \in 1..n} = {items[i].ref : i \in 1..m} \cup {items[n].ref}
        BY <4>1
      <4> QED
        BY <3>1, <3>2, <4>2 DEF SoFar
    <3> QED
      BY <3>3, <3>4 DEF SoFar
  <2> QED
    BY <2>1, <2>3, <2>4
<1> HIDE DEF T
<1>13. len \in T
  <2>1. 0..len \subseteq T
    BY <1>11, <1>12, UpTo
  <2> QED
    BY <2>1
<1> QED
  BY <1>9, <1>13 DEF T

\* However the memory changes after a recall, its trace shows those of its items that
\* a recall could find now, and marks the others stale (reconstruct.ts:53-79); and each
\* breakdown of the metrics counts every item of
\* every trace once, the ranks among them because no trace names an item twice.
THEOREM TracesAreAccountable == Spec => []TraceIsAccountable
<1>1. Spec => []TypesInv
  BY InitTypes, NextTypes, PTL DEF Spec
<1>2. Spec => []TraceInv
  BY <1>1, InitTraces, NextTraces, PTL DEF Spec
<1>3. TypesInv /\ TraceInv => TraceIsAccountable
  <2> SUFFICES ASSUME TypesInv, TraceInv PROVE TraceIsAccountable
    OBVIOUS
  <2>1. ASSUME NEW r \in DOMAIN traces
        PROVE  LET items == traces[r].items
                   now == Reconstructed(items)
               IN /\ Range(now.shown) = ItemRefs(items) \cap Served
                  /\ ItemRefs(now.stale) = ItemRefs(items) \ Served
                  /\ Len(now.shown) + Len(now.stale) = Len(items)
    <3> DEFINE items == traces[r].items
               now == Reconstructed(items)
    <3>1. items \in Seq(TraceItem) /\ MemoryType
      <4>1. TracesType /\ MemoryType
        BY TypeParts DEF TypesInv
      <4>2. traces[r] \in TraceRecord(day)
        BY <4>1 DEF TracesType
      <4> QED
        BY <4>1, <4>2 DEF TraceRecord
    <3> HIDE DEF items
    <3>2. /\ Len(items) \in Nat /\ DOMAIN items = 1..Len(items)
          /\ \A i \in 1..Len(items) : items[i].ref \in Refs
      <4>1. \A i \in 1..Len(items) : items[i] \in TraceItem
        BY <3>1
      <4> QED
        BY <3>1, <4>1 DEF TraceItem
    <3>3. now \in Looked /\ SoFar(now, items, Len(items))
      BY <3>1, <3>2, ReconstructedIs
    <3> HIDE DEF now
    <3>4. ItemRefs(items) = {items[i].ref : i \in 1..Len(items)}
      BY <3>2 DEF ItemRefs
    <3>5. /\ Range(now.shown) = ItemRefs(items) \cap Served
          /\ ItemRefs(now.stale) = ItemRefs(items) \ Served
          /\ Len(now.shown) + Len(now.stale) = Len(items)
      BY <3>3, <3>4 DEF SoFar, Count
    <3> QED
      BY <3>5 DEF now, items
  <2> QED
    BY <2>1, MetricsAddUp DEF TraceIsAccountable
<1> QED
  BY <1>1, <1>2, <1>3, PTL
==============================================================================
