----------------------------- MODULE Integrations -----------------------------
(***************************************************************************)
(* The two plugins of src/integrations in one session of their host:       *)
(* what they do at its prompts and compactions, beside the capture of its  *)
(* turns (Capture).                                                        *)
(*                                                                         *)
(*  - The opencode plugin lives in the host's process.  Its hooks share    *)
(*    its notes and the memoized credentials with capture, and the host    *)
(*    awaits them.                                                         *)
(*  - The Claude Code plugin is a process for each hook.  Its notes are a  *)
(*    file that a hook reads, and replaces as a whole; the hook of a       *)
(*    prompt is waited for, that of a compaction is not, so the two may    *)
(*    interleave.  Any of them may be killed, and a write may fail.        *)
(*  - What Claude Code captures goes to the server in one call and is not  *)
(*    followed up here, nor are the jobs that a compaction enqueues.       *)
(***************************************************************************)
EXTENDS Capture

CONSTANTS
  AtStart,          \* FALDA_AUTO_RECALL
  AfterCompact,     \* FALDA_RECALL_ON_COMPACT, with FALDA_CAPTURE
  MaxPrompts,       \* bound: prompts of the session
  MaxCompactions,   \* bound: its compactions
  MaxHookFaults     \* bound: deaths of hooks, failed writes and pruned files

ASSUME IntegrationsAssumption ==
  /\ AtStart \in BOOLEAN /\ AfterCompact \in BOOLEAN
  /\ MaxPrompts \in Nat /\ MaxCompactions \in Nat /\ MaxHookFaults \in Nat

VARIABLES
  host,        \* "opencode" or "claude"
  notes,       \* autoRecalled and pendingPostCompactRecall, or the state file
  hook,        \* the hook of the prompt under way
  compaction,  \* the compaction under way in opencode
  marks,       \* the mark-compacted processes of Claude Code
  submitted,   \* prompts so far
  compacted,   \* compactions so far
  prompts,     \* history: prompts that were looked at
  attempts,    \* history: of these, those that were due a recall
  noted,       \* history: compactions that were noted
  hookFaults   \* faults of hooks so far

historyVars == <<prompts, attempts, noted>>
hookVars == <<host, notes, hook, compaction, marks, submitted, compacted,
              historyVars, hookFaults>>
allVars == <<vars, hookVars>>

\* What stays when a hook asks for the credentials.
captureRest == <<hostVars, pending, settled, flushed, waiting, calls, serverVars, faults>>

Notes == [recalled : BOOLEAN, pending : BOOLEAN]

Empty == [recalled |-> FALSE, pending |-> FALSE]

Idle == [at |-> "idle", text |-> FALSE, saw |-> Empty]

\* Either reason to recall at a prompt.
Due(n) == (AtStart /\ ~n.recalled) \/ (AfterCompact /\ n.pending)

\* Both reasons are consumed before the attempt.
Spent(n) == [recalled |-> n.recalled \/ AtStart, pending |-> FALSE]

HookFault ==
  /\ hookFaults < MaxHookFaults
  /\ hookFaults' = hookFaults + 1

-----------------------------------------------------------------------------
(* opencode.                                                               *)

\* getCreds: resolved once, by whichever hook or flush is the first to ask.
GetCreds == creds' = IF creds = "unknown" THEN "resolving" ELSE creds

\* chat.message, up to its first await.  Without text there is nothing to ask for.
ChatMessage(text) ==
  /\ host = "opencode" /\ hook = Idle
  /\ submitted < MaxPrompts
  /\ submitted' = submitted + 1
  /\ IF Disabled THEN UNCHANGED <<notes, hook, creds, prompts, attempts>>
     ELSE /\ prompts' = prompts + 1
          /\ IF ~Due(notes) THEN UNCHANGED <<notes, hook, creds, attempts>>
             ELSE /\ notes' = Spent(notes)
                  /\ attempts' = attempts + 1
                  /\ IF text THEN hook' = [Idle EXCEPT !.at = "creds", !.text = TRUE]
                                  /\ GetCreds
                             ELSE UNCHANGED <<hook, creds>>
  /\ UNCHANGED <<captureRest, host, compaction, marks, compacted, noted, hookFaults>>

\* Mutant: without credentials the hook goes on waiting.
ChatResumesFound ==
  /\ hook.at = "creds" /\ creds = "found"
  /\ hook' = [hook EXCEPT !.at = "call"]
  /\ UNCHANGED <<vars, host, notes, compaction, marks, submitted, compacted, historyVars,
                 hookFaults>>

\* It has the credentials, or has none and returns.
ChatResumes ==
  /\ hook.at = "creds" /\ creds \in {"found", "none"}
  /\ hook' = IF Disabled THEN Idle ELSE [hook EXCEPT !.at = "call"]
  /\ UNCHANGED <<vars, host, notes, compaction, marks, submitted, compacted, historyVars,
                 hookFaults>>

\* experimental.session.compacting, up to its first await.
Compacting ==
  /\ host = "opencode" /\ compaction = "none"
  /\ compacted < MaxCompactions
  /\ compacted' = compacted + 1
  /\ IF Disabled THEN compaction' = "summary" /\ UNCHANGED creds
                 ELSE compaction' = "creds" /\ GetCreds
  /\ UNCHANGED <<captureRest, host, notes, hook, marks, submitted, historyVars, hookFaults>>

DistillResumes ==
  /\ compaction = "creds" /\ creds \in {"found", "none"}
  /\ compaction' = IF Disabled THEN "summary" ELSE "call"
  /\ UNCHANGED <<vars, host, notes, hook, marks, submitted, compacted, historyVars, hookFaults>>

\* falda_distill has answered, failed or timed out.
DistillEnds ==
  /\ compaction = "call"
  /\ compaction' = "summary"
  /\ UNCHANGED <<vars, host, notes, hook, marks, submitted, compacted, historyVars, hookFaults>>

\* session.compacted.
SessionCompacted ==
  /\ compaction = "summary"
  /\ compaction' = "none"
  /\ IF Disabled \/ ~AfterCompact THEN UNCHANGED <<notes, noted>>
     ELSE /\ notes' = [notes EXCEPT !.pending = TRUE]
          /\ noted' = noted + 1
  /\ UNCHANGED <<vars, host, hook, marks, submitted, compacted, prompts, attempts, hookFaults>>

\* falda_recall has answered, with or without something to inject, failed or timed
\* out; the race with the timer covers the connection too.
RecallEnds ==
  /\ host = "opencode" /\ hook.at = "call"
  /\ hook' = Idle
  /\ UNCHANGED <<vars, host, notes, compaction, marks, submitted, compacted, historyVars,
                 hookFaults>>

-----------------------------------------------------------------------------
(* Claude Code.                                                            *)

\* UserPromptSubmit starts auto-recall, and waits for it.
PromptSubmit(text) ==
  /\ host = "claude" /\ hook = Idle
  /\ submitted < MaxPrompts
  /\ submitted' = submitted + 1
  /\ hook' = [Idle EXCEPT !.at = "reading", !.text = text]
  /\ UNCHANGED <<vars, host, notes, compaction, marks, compacted, historyVars, hookFaults>>

\* readState.  A session that is due nothing has its file left alone.
ReadNotes ==
  /\ hook.at = "reading"
  /\ IF Due(notes)
       THEN hook' = [hook EXCEPT !.at = "writing", !.saw = notes] /\ UNCHANGED prompts
       ELSE hook' = Idle /\ prompts' = prompts + 1
  /\ UNCHANGED <<vars, host, notes, compaction, marks, submitted, compacted, attempts, noted,
                 hookFaults>>

\* With or without its note, the attempt is made.
Attempt ==
  /\ hook.at = "writing"
  /\ prompts' = prompts + 1
  /\ attempts' = attempts + 1
  /\ hook' = IF hook.text THEN [Idle EXCEPT !.at = "call", !.text = TRUE] ELSE Idle
  /\ UNCHANGED <<vars, host, compaction, marks, submitted, compacted, noted>>

\* Mutant: of two reasons only the first is consumed.
WriteNotesFirst ==
  /\ Attempt
  /\ notes' = [Spent(hook.saw) EXCEPT !.pending = hook.saw.pending /\ ~hook.saw.recalled]
  /\ UNCHANGED hookFaults

\* writeState: what was read, with both reasons consumed.
WriteNotes == Attempt /\ notes' = Spent(hook.saw) /\ UNCHANGED hookFaults

\* It cannot be written, which is logged.
WriteFails == Attempt /\ HookFault /\ UNCHANGED notes

\* The host's time for the hook is up before it has come to call.
HookKilled ==
  /\ hook.at \in {"reading", "writing"}
  /\ HookFault
  /\ hook' = Idle
  /\ UNCHANGED <<vars, host, notes, compaction, marks, submitted, compacted, historyVars>>

\* callTool: every failure and the signal of its timer come out as null.
CallToolEnds ==
  /\ host = "claude" /\ hook.at = "call"
  /\ hook' = Idle
  /\ UNCHANGED <<vars, host, notes, compaction, marks, submitted, compacted, historyVars,
                 hookFaults>>

\* PostCompact starts mark-compacted, and does not wait for it.
PostCompact ==
  /\ host = "claude" /\ AfterCompact
  /\ compacted < MaxCompactions
  /\ compacted' = compacted + 1
  /\ marks' = [marks EXCEPT ![compacted'].at = "started"]
  /\ UNCHANGED <<vars, host, notes, hook, compaction, submitted, historyVars, hookFaults>>

MarkReads(k) ==
  /\ marks[k].at = "started"
  /\ marks' = [marks EXCEPT ![k] = [at |-> "read", saw |-> notes]]
  /\ UNCHANGED <<vars, host, notes, hook, compaction, submitted, compacted, historyVars,
                 hookFaults>>

\* What it read, though a prompt may have consumed its reasons since.
MarkWrites(k) ==
  /\ marks[k].at = "read"
  /\ notes' = [marks[k].saw EXCEPT !.pending = TRUE]
  /\ marks' = [marks EXCEPT ![k].at = "done"]
  /\ noted' = noted + 1
  /\ UNCHANGED <<vars, host, hook, compaction, submitted, compacted, prompts, attempts,
                 hookFaults>>

\* It is killed or cannot write.
MarkFails(k) ==
  /\ marks[k].at \in {"started", "read"}
  /\ HookFault
  /\ marks' = [marks EXCEPT ![k].at = "done"]
  /\ UNCHANGED <<vars, host, notes, hook, compaction, submitted, compacted, historyVars>>

\* Seven days without a write: another session's hook removes the file.
Prune ==
  /\ host = "claude" /\ hook = Idle
  /\ \A k \in DOMAIN marks : marks[k].at \notin {"started", "read"}
  /\ notes # Empty
  /\ HookFault
  /\ notes' = Empty
  /\ UNCHANGED <<vars, host, hook, compaction, marks, submitted, compacted, historyVars>>

-----------------------------------------------------------------------------
HooksInit ==
  /\ Init
  /\ host \in {"opencode", "claude"}
  /\ notes = Empty
  /\ hook = Idle
  /\ compaction = "none"
  /\ marks = [k \in 1..MaxCompactions |-> [at |-> "none", saw |-> Empty]]
  /\ submitted = 0 /\ compacted = 0
  /\ prompts = 0 /\ attempts = 0 /\ noted = 0
  /\ hookFaults = 0

OpencodeNext ==
  \/ host = "opencode" /\ Next /\ UNCHANGED hookVars
  \/ \E text \in BOOLEAN : ChatMessage(text)
  \/ ChatResumes \/ RecallEnds
  \/ Compacting \/ DistillResumes \/ DistillEnds \/ SessionCompacted

ClaudeNext ==
  \/ \E text \in BOOLEAN : PromptSubmit(text)
  \/ ReadNotes \/ WriteNotes \/ WriteFails \/ HookKilled \/ CallToolEnds
  \/ PostCompact
  \/ \E k \in DOMAIN marks : MarkReads(k) \/ MarkWrites(k) \/ MarkFails(k)
  \/ Prune

HooksNext == OpencodeNext \/ ClaudeNext

HooksSpec == HooksInit /\ [][HooksNext]_allVars

Captures(A) == host = "opencode" /\ A /\ UNCHANGED hookVars

\* What FairSpec assumes of capture; and that processes run, the credentials
\* arrive and the timers of the calls go off, not that any call is answered.
HooksFairSpec ==
  /\ HooksSpec
  /\ WF_allVars(Captures(CredsResolved(TRUE) \/ CredsResolved(FALSE)))
  /\ WF_allVars(Captures(CallStep))
  /\ \A m \in Messages :
       WF_allVars(Captures(Resume(m))) /\ WF_allVars(Captures(MessageUpdated(m)))
  /\ WF_allVars(ChatResumes) /\ WF_allVars(DistillResumes)
  /\ WF_allVars(RecallEnds) /\ WF_allVars(DistillEnds)
  /\ WF_allVars(ReadNotes) /\ WF_allVars(WriteNotes) /\ WF_allVars(CallToolEnds)

-----------------------------------------------------------------------------
\* Both plugins keep the one-shot semantics of recall (claude-code-plugin.md:351-353):
\* a session is due one attempt at its first prompt and one after a compaction, none
\* is doubled and no compaction goes unnoticed, though processes that replace the
\* same file interleave (state.mjs:24-56), unless one of them dies or cannot write.
Recalls == INSTANCE AutoRecall WITH
  due <- Due(notes), compactions <- noted, faults <- hookFaults

ImplementsAutoRecall == Recalls!Spec

\* No hook holds up the host (falda-capture.ts:352, falda-hook.mjs:17): a prompt goes
\* to the model and a compaction to its summary in the end, whatever becomes of the
\* server and whoever resolves the credentials, if the host answers for its config.
NeverBlocks ==
  /\ hook # Idle ~> hook = Idle
  /\ compaction \in {"creds", "call"} ~> compaction = "summary"
=============================================================================
