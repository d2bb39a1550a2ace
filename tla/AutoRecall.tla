------------------------------ MODULE AutoRecall ------------------------------
(***************************************************************************)
(* What both plugins promise of automatic recall, whatever they keep their *)
(* notes in (src/integrations, docs/future/claude-code-plugin.md:          *)
(* "recall fires once per session; post-compact fires once per             *)
(* compaction; both-pending on one prompt fires exactly one recall").      *)
(*                                                                         *)
(*  - A session is due for a recall at its first prompt and after each     *)
(*    compaction.  A prompt that finds it due is good for one attempt,     *)
(*    however many reasons there are, and whatever comes of the attempt.   *)
(*  - What a fault may cost is one prompt's or one compaction's due.       *)
(***************************************************************************)
EXTENDS Naturals

CONSTANTS
  AtStart,      \* whether the first prompt is a reason: TRUE or FALSE
  AfterCompact  \* whether a compaction is

VARIABLES due, attempts, prompts, compactions, faults

vars == <<due, attempts, prompts, compactions, faults>>

Init ==
  /\ due = AtStart
  /\ attempts = 0 /\ prompts = 0 /\ compactions = 0 /\ faults = 0

\* A prompt is submitted.
Prompted ==
  /\ prompts' = prompts + 1
  /\ attempts' = IF due THEN attempts + 1 ELSE attempts
  /\ due' = FALSE
  /\ UNCHANGED <<compactions, faults>>

\* A compaction is noted.
Compacted ==
  /\ compactions' = compactions + 1
  /\ due' = (due \/ AfterCompact)
  /\ UNCHANGED <<attempts, prompts, faults>>

\* A prompt's hook dies before it has looked, or cannot note that it has.
PromptFails ==
  /\ faults' = faults + 1
  /\ prompts' = prompts + 1
  /\ attempts' = IF due THEN attempts + 1 ELSE attempts
  /\ UNCHANGED <<due, compactions>>

HookDies ==
  /\ faults' = faults + 1
  /\ UNCHANGED <<due, attempts, prompts, compactions>>

\* The notes of a session that was left for long are gone.
Forgotten ==
  /\ faults' = faults + 1
  /\ due' = AtStart
  /\ UNCHANGED <<attempts, prompts, compactions>>

Next == Prompted \/ Compacted \/ PromptFails \/ HookDies \/ Forgotten

Spec == Init /\ [][Next]_vars

\* No reason is good for two attempts.
AttemptsHaveReasons ==
  attempts + (IF due THEN 1 ELSE 0) <= (IF AtStart THEN 1 ELSE 0) + compactions + faults
=============================================================================
