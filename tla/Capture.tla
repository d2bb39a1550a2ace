------------------------------- MODULE Capture -------------------------------
(***************************************************************************)
(* Capture of a session's turns: the opencode plugin, which gathers the    *)
(* text of each message and sends it when the message settles              *)
(* (falda-capture.ts, capture-flush.ts), and the stream that takes it      *)
(* (addStream in src/falda.ts).                                            *)
(*                                                                         *)
(*  - The host reports updates of a message's text, each with the whole    *)
(*    text so far, and that the message has settled, in any order and more *)
(*    than once.  A text is the number of its update.                      *)
(*  - A flush waits for the credentials, then for the answer; a call may   *)
(*    fail before the server has it, while the server works on it or on    *)
(*    its way back.                                                        *)
(*  - The server writes the row, then embeds it.                           *)
(***************************************************************************)
EXTENDS Integers, FiniteSets

CONSTANTS
  Messages,
  MaxUpdates,   \* bound: updates of one message
  MaxFaults     \* bound: failed calls, failed embeddings and refusals

ASSUME CaptureAssumption == MaxUpdates \in Nat /\ MaxFaults \in Nat

VARIABLES
  sent,      \* updates of each message the host has reported
  ended,     \* messages it reported settled
  creds,     \* the memoized credentials
  pending,   \* text accumulated, 0 if none
  settled,   \* messages of settledRole
  flushed,   \* flushedIds
  waiting,   \* flushes of each message that await the credentials
  calls,     \* calls under way
  stream,    \* text of each message's row, 0 if none
  vectors,   \* messages whose row has a vector
  orphans,   \* rows the server embeds for a call that has failed
  faults,    \* faults so far
  refused,   \* history: messages the server refused
  due        \* history: text of a message when it first had text and was settled

hostVars   == <<sent, ended, due>>
clientVars == <<creds, pending, settled, flushed, waiting>>
serverVars == <<stream, vectors, orphans, refused>>
vars == <<hostVars, clientVars, calls, serverVars, faults>>

Texts == 0..MaxUpdates

Call == [msg : Messages, text : 1..MaxUpdates, prior : BOOLEAN,
         at : {"sent", "embedding", "answered"}]

-----------------------------------------------------------------------------
\* The plugin.

Disabled == creds = "none"

\* hasDeliverableText, as the event leaves it.
Deliverable(m) == m \notin flushed /\ pending'[m] > 0

\* flush up to its first await.
BeginFlush(m) ==
  IF Deliverable(m)
  THEN /\ waiting' = [waiting EXCEPT ![m] = @ + 1]
       /\ creds' = IF creds = "unknown" THEN "resolving" ELSE creds
  ELSE UNCHANGED <<waiting, creds>>

\* message.part.updated: recordPart overwrites.
PartUpdated(m) ==
  /\ ~Disabled
  /\ sent[m] < MaxUpdates
  /\ sent' = [sent EXCEPT ![m] = @ + 1]
  /\ due' = [due EXCEPT ![m] = IF m \in ended /\ @ = 0 THEN sent'[m] ELSE @]
  /\ pending' = [pending EXCEPT ![m] = sent'[m]]
  /\ IF m \in settled THEN BeginFlush(m) ELSE UNCHANGED <<waiting, creds>>
  /\ UNCHANGED <<ended, settled, flushed, calls, serverVars, faults>>

\* message.updated of a message that is complete.  At most two flushes of the
\* message wait when it comes (a bound).
MessageUpdated(m) ==
  /\ ~Disabled
  /\ waiting[m] <= 2
  /\ ended' = ended \cup {m}
  /\ due' = [due EXCEPT ![m] = IF @ = 0 THEN sent[m] ELSE @]
  /\ UNCHANGED pending
  /\ IF pending[m] > 0
     THEN BeginFlush(m) /\ UNCHANGED settled
     ELSE settled' = settled \cup {m} /\ UNCHANGED <<waiting, creds>>
  /\ UNCHANGED <<sent, flushed, calls, serverVars, faults>>

CredsResolved(found) ==
  /\ creds = "resolving"
  /\ creds' = IF found THEN "found" ELSE "none"
  /\ UNCHANGED <<hostVars, pending, settled, flushed, waiting, calls, serverVars,
                 faults>>

Taken(m) == pending[m] = 0 \/ m \in flushed

\* Without credentials a flush returns.  With them it takes the text, unless
\* another flush has taken it, and sends it.
Resume(m) ==
  /\ creds \in {"found", "none"}
  /\ waiting[m] > 0
  /\ waiting' = [waiting EXCEPT ![m] = @ - 1]
  /\ IF Disabled \/ Taken(m)
     THEN UNCHANGED <<pending, settled, flushed, calls>>
     ELSE /\ calls' = calls \cup {[msg |-> m, text |-> pending[m],
                                   prior |-> m \in settled, at |-> "sent"]}
          /\ pending' = [pending EXCEPT ![m] = 0]
          /\ settled' = settled \ {m}
          /\ flushed' = flushed \cup {m}
  /\ UNCHANGED <<hostVars, creds, serverVars, faults>>

\* callTool returns; an error of the tool is an answer too.
Answered(c) ==
  /\ c.at = "answered"
  /\ calls' = calls \ {c}
  /\ UNCHANGED <<hostVars, clientVars, serverVars, faults>>

-----------------------------------------------------------------------------
\* The server.

At(c, place) == (calls \ {c}) \cup {[c EXCEPT !.at = place]}

Fault ==
  /\ faults < MaxFaults
  /\ faults' = faults + 1

\* Mutant: the row is left for after the embedding.
AddStreamLate(c) ==
  /\ c.at = "sent"
  /\ stream[c.msg] = 0
  /\ calls' = At(c, "embedding")
  /\ UNCHANGED <<hostVars, clientVars, serverVars, faults>>

\* addStream: the message's id is the key of its row.
AddStream(c) ==
  /\ c.at = "sent"
  /\ stream[c.msg] = 0
  /\ stream' = [stream EXCEPT ![c.msg] = c.text]
  /\ calls' = At(c, "embedding")
  /\ UNCHANGED <<hostVars, clientVars, vectors, orphans, faults, refused>>

KeyTaken(c) ==
  /\ c.at = "sent"
  /\ stream[c.msg] # 0
  /\ calls' = At(c, "answered")
  /\ UNCHANGED <<hostVars, clientVars, serverVars, faults>>

\* The tool fails before the row is written.
Refused(c) ==
  /\ c.at = "sent"
  /\ Fault
  /\ refused' = refused \cup {c.msg}
  /\ calls' = At(c, "answered")
  /\ UNCHANGED <<hostVars, clientVars, stream, vectors, orphans>>

Embedded(c) ==
  /\ c.at = "embedding"
  /\ vectors' = vectors \cup {c.msg}
  /\ calls' = At(c, "answered")
  /\ UNCHANGED <<hostVars, clientVars, stream, orphans, faults, refused>>

EmbeddingFails(c) ==
  /\ c.at = "embedding"
  /\ Fault
  /\ calls' = At(c, "answered")
  /\ UNCHANGED <<hostVars, clientVars, serverVars>>

OrphanEmbedded(m) ==
  /\ m \in orphans
  /\ orphans' = orphans \ {m}
  /\ vectors' \in {vectors, vectors \cup {m}}
  /\ UNCHANGED <<hostVars, clientVars, calls, stream, faults, refused>>

-----------------------------------------------------------------------------
\* Mutant: only the mark of the flush is taken back.
RestoredMark(c) ==
  /\ flushed' = flushed \ {c.msg}
  /\ UNCHANGED <<pending, settled>>

\* Mutant: the mark of the flush stays.
RestoredText(c) ==
  /\ pending' = [pending EXCEPT ![c.msg] = c.text]
  /\ settled' = IF c.prior THEN settled \cup {c.msg} ELSE settled
  /\ UNCHANGED flushed

\* What flush puts back: the entry it sent, over any later one, and the role.
Restored(c) ==
  /\ pending' = [pending EXCEPT ![c.msg] = c.text]
  /\ settled' = IF c.prior THEN settled \cup {c.msg} ELSE settled
  /\ flushed' = flushed \ {c.msg}

\* The call fails, wherever it is; the server goes on with what it has.
CallFails(c) ==
  /\ Fault
  /\ calls' = calls \ {c}
  /\ Restored(c)
  /\ orphans' = IF c.at = "embedding" THEN orphans \cup {c.msg} ELSE orphans
  /\ UNCHANGED <<hostVars, creds, waiting, stream, vectors, refused>>

Init ==
  /\ sent = [m \in Messages |-> 0]
  /\ ended = {}
  /\ creds = "unknown"
  /\ pending = [m \in Messages |-> 0]
  /\ settled = {}
  /\ flushed = {}
  /\ waiting = [m \in Messages |-> 0]
  /\ calls = {}
  /\ stream = [m \in Messages |-> 0]
  /\ vectors = {}
  /\ orphans = {}
  /\ faults = 0
  /\ refused = {}
  /\ due = [m \in Messages |-> 0]

CallStep ==
  \E c \in calls :
    Answered(c) \/ AddStream(c) \/ KeyTaken(c) \/ Embedded(c) \/ EmbeddingFails(c)

Next ==
  \/ \E m \in Messages :
       PartUpdated(m) \/ MessageUpdated(m) \/ Resume(m) \/ OrphanEmbedded(m)
  \/ \E found \in BOOLEAN : CredsResolved(found)
  \/ CallStep
  \/ \E c \in calls : Refused(c) \/ CallFails(c)

Spec == Init /\ [][Next]_vars

\* Awaited calls return, and the host goes on reporting that a message has
\* settled.  The code cannot promise the latter: it is the condition under
\* which the plugin promises delivery, for it has no timer of its own.
FairSpec ==
  /\ Spec
  /\ WF_vars(CredsResolved(TRUE) \/ CredsResolved(FALSE))
  /\ WF_vars(CallStep)
  /\ \A m \in Messages : WF_vars(Resume(m)) /\ WF_vars(MessageUpdated(m))

-----------------------------------------------------------------------------
\* The type invariant: the queue's maps, the calls and the rows are what the
\* code's types say, and only rows that are there have vectors.
TypeOK ==
  /\ sent \in [Messages -> Texts]
  /\ ended \subseteq Messages
  /\ creds \in {"unknown", "resolving", "found", "none"}
  /\ pending \in [Messages -> Texts]
  /\ settled \subseteq Messages
  /\ flushed \subseteq Messages
  /\ waiting \in [Messages -> Nat]
  /\ calls \subseteq Call
  /\ stream \in [Messages -> Texts]
  /\ vectors \subseteq {m \in Messages : stream[m] # 0}
  /\ orphans \subseteq {m \in Messages : stream[m] # 0}
  /\ faults \in 0..MaxFaults
  /\ refused \subseteq Messages
  /\ due \in [Messages -> Texts]

\* A turn is not lost: from when a message has text and has settled, that text
\* or a later one is in the stream, on its way there, or pending where the next
\* report can flush it, however flushes of the message overlap and wherever
\* calls fail.  A call the server refused counts as delivered, and is lost.
Holds(text, m) == text # 0 /\ text >= due[m]

TurnNotLost ==
  \A m \in Messages \ refused :
    due[m] # 0 =>
      \/ Holds(stream[m], m)
      \/ \E c \in calls : c.msg = m /\ Holds(c.text, m)
      \/ m \notin flushed /\ Holds(pending[m], m)

\* A message is sent by one flush at a time, though several may have been under
\* way when the credentials came.
OneCallPerMessage ==
  \A c, d \in calls : c.msg = d.msg => c = d

\* While the host goes on reporting it, a settled message with text comes to be
\* in the stream, unless there are no credentials or the server refuses it.
EveryTurnIsStored ==
  \A m \in Messages :
    due[m] # 0 ~> stream[m] # 0 \/ Disabled \/ m \in refused
=============================================================================
