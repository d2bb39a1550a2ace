--------------------------- MODULE DistillService ---------------------------
(***************************************************************************)
(* What the queue and its worker promise together, with rows, priorities,  *)
(* leases, timers and lanes abstracted away.                               *)
(*                                                                         *)
(* A store is owed a pass once a request or a sweep was accepted for it.   *)
(* The debt is settled only by beginning a pass: a request accepted while  *)
(* a pass runs is not satisfied by that pass.  One pass runs at a time; it *)
(* may end with the debt renewed (it failed and is retried), and a process *)
(* that dies in the middle of one leaves it owed.                          *)
(***************************************************************************)
CONSTANTS Stores, NoStore    \* NoStore is no store

VARIABLES
  owed,      \* stores that are owed a pass
  active     \* the store whose pass is running, or NoStore

vars == <<owed, active>>

TypeOK == owed \subseteq Stores /\ active \in Stores \cup {NoStore}

Init == owed = {} /\ active = NoStore

\* Debts that beginning a pass of s may leave: other work may be waiting for s.
AfterBegin(debts, s) == {debts, debts \ {s}}

Accept(S) ==
  /\ owed' = owed \cup S
  /\ UNCHANGED active

\* A request may find the worker idle and have its pass begun at once.
Begin(S, s) ==
  /\ active = NoStore
  /\ s \in owed \cup S
  /\ active' = s
  /\ owed' \in AfterBegin(owed \cup S, s)

End(s) ==
  /\ active = s
  /\ active' = NoStore
  /\ owed' \in {owed, owed \cup {s}}

Die ==
  /\ active # NoStore
  /\ active' = NoStore
  /\ owed' = owed \cup {active}

Next ==
  \/ \E S \in SUBSET Stores : Accept(S)
  \/ \E S \in SUBSET Stores, s \in Stores : Begin(S, s)
  \/ \E s \in Stores : End(s)
  \/ Die

Spec == Init /\ [][Next]_vars

\* A debt is settled by a pass of its store.
EveryDebtServed == \A s \in Stores : (s \in owed) ~> (active = s)
=============================================================================
