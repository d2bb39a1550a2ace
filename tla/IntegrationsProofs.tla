-------------------------- MODULE IntegrationsProofs --------------------------
(***************************************************************************)
(* Proofs about Capture and Integrations, for any messages, updates,       *)
(* settings and bounds.                                                    *)
(*                                                                         *)
(* TurnNotLost is not inductive: that the text a failed call puts back is  *)
(* not older than due needs a bound on every copy of it, and that a        *)
(* flushed message is stored or refused needs to know what its call, when  *)
(* it is answered, has done.  IInv adds both, and what holds of a message  *)
(* before it is due.                                                       *)
(*                                                                         *)
(* That the plugins implement AutoRecall needs two facts of processes that *)
(* have read the file and not yet written it: a prompt's hook that is      *)
(* going to write met a session that was due, and it still is, for all     *)
(* that may have been written since are compactions; and a compaction's    *)
(* hook runs only where a compaction is a reason, so what it writes leaves *)
(* the session due, whatever it read.  HooksInv states both.               *)
(*                                                                         *)
(* Capture keeps its promise beside them: the one thing the other hooks    *)
(* do to its state is to ask for the credentials.                          *)
(***************************************************************************)
EXTENDS Integrations, TLAPS

-----------------------------------------------------------------------------
\* Capture.

\* A call belongs to a message that has ended and is flushed, and has a text
\* that is due; from its embedding on the row is there, unless the message was
\* refused.
CallsOK ==
  \A c \in calls :
    /\ c.msg \in ended
    /\ c.msg \in flushed
    /\ c.text >= due[c.msg]
    /\ c.at = "embedding" => stream[c.msg] # 0
    /\ c.at = "answered" => stream[c.msg] # 0 \/ c.msg \in refused

\* Flushes begin when a message has ended.
EndedOK ==
  \A m \in Messages : waiting[m] > 0 \/ m \in settled => m \in ended

\* Before it is due, a message's text is pending and nothing else was done.
NotDue(m) ==
  /\ pending[m] = sent[m]
  /\ m \notin flushed
  /\ stream[m] = 0
  /\ m \in ended => sent[m] = 0

\* From then on no copy of it is older, and it is pending, or flushed.
IsDue(m) ==
  /\ due[m] <= sent[m]
  /\ pending[m] # 0 => pending[m] >= due[m]
  /\ stream[m] # 0 => stream[m] >= due[m]
  /\ m \notin flushed => pending[m] # 0
  /\ m \in flushed =>
       \/ \E c \in calls : c.msg = m
       \/ stream[m] # 0
       \/ m \in refused

DueOK == \A m \in Messages : IF due[m] = 0 THEN NotDue(m) ELSE IsDue(m)

IInv == TypeOK /\ OneCallPerMessage /\ CallsOK /\ EndedOK /\ DueOK

-----------------------------------------------------------------------------
LEMMA InitIInv == Init => IInv
<1> SUFFICES ASSUME Init PROVE IInv
  OBVIOUS
<1>1. TypeOK
  BY CaptureAssumption DEF Init, TypeOK, Texts
<1>2. OneCallPerMessage /\ CallsOK /\ EndedOK /\ DueOK
  BY DEF Init, OneCallPerMessage, CallsOK, EndedOK, DueOK, NotDue
<1> QED
  BY <1>1, <1>2 DEF IInv

-----------------------------------------------------------------------------
\* The client's steps.

LEMMA PartUpdatedStep ==
  ASSUME IInv, NEW m \in Messages, PartUpdated(m)
  PROVE  IInv'
<1> USE CaptureAssumption
<1> USE DEF IInv
<1>1. sent[m] \in Nat /\ sent'[m] = sent[m] + 1 /\ sent'[m] \in 1..MaxUpdates
  BY DEF PartUpdated, TypeOK, Texts
<1>2. /\ pending' = [pending EXCEPT ![m] = sent'[m]]
      /\ due' = [due EXCEPT ![m] = IF m \in ended /\ due[m] = 0 THEN sent'[m] ELSE due[m]]
      /\ sent' = [sent EXCEPT ![m] = @ + 1]
      /\ UNCHANGED <<ended, settled, flushed, calls, stream, vectors, orphans, refused, faults>>
  BY DEF PartUpdated, serverVars
<1>3. /\ waiting' \in [Messages -> Nat]
      /\ creds' \in {"unknown", "resolving", "found", "none"}
      /\ \A n \in Messages : waiting'[n] = waiting[n] \/ (n = m /\ m \in settled)
  BY DEF PartUpdated, BeginFlush, TypeOK
<1>4. TypeOK'
  <2>1. /\ sent' \in [Messages -> Texts]
        /\ due' \in [Messages -> Texts]
        /\ pending' \in [Messages -> Texts]
    BY <1>1, <1>2 DEF TypeOK, Texts
  <2> QED
    BY <1>2, <1>3, <2>1 DEF TypeOK
<1>5. OneCallPerMessage'
  BY <1>2 DEF OneCallPerMessage
<1>6. EndedOK'
  BY <1>2, <1>3 DEF EndedOK, TypeOK
<1>7. \A n \in Messages : due'[n] = due[n] \/ (n = m /\ due[m] = 0)
  BY <1>2 DEF TypeOK
<1>8. CallsOK'
  BY <1>2, <1>7 DEF CallsOK, DueOK, NotDue, TypeOK, Call
<1>9. DueOK'
  <2> SUFFICES ASSUME NEW n \in Messages
               PROVE  IF due'[n] = 0 THEN NotDue(n)' ELSE IsDue(n)'
    BY DEF DueOK
  <2>1. CASE n # m
    BY <1>2, <2>1 DEF PartUpdated, DueOK, NotDue, IsDue, TypeOK
  <2>2. CASE n = m
    <3>1. CASE due[m] = 0
      BY <1>1, <1>2, <2>2, <3>1 DEF DueOK, NotDue, IsDue, TypeOK, Texts
    <3>2. CASE due[m] # 0
      BY <1>1, <1>2, <2>2, <3>2 DEF DueOK, IsDue, TypeOK, Texts
    <3> QED
      BY <3>1, <3>2
  <2> QED
    BY <2>1, <2>2
<1> QED
  BY <1>4, <1>5, <1>6, <1>8, <1>9

LEMMA MessageUpdatedStep ==
  ASSUME IInv, NEW m \in Messages, MessageUpdated(m)
  PROVE  IInv'
<1> USE CaptureAssumption
<1> USE DEF IInv
<1>1. /\ ended' = ended \cup {m}
      /\ due' = [due EXCEPT ![m] = IF due[m] = 0 THEN sent[m] ELSE due[m]]
      /\ settled' \in {settled, settled \cup {m}}
      /\ UNCHANGED <<sent, pending, flushed, calls, stream, vectors, orphans, refused, faults>>
  BY DEF MessageUpdated, serverVars
<1>2. /\ waiting' \in [Messages -> Nat]
      /\ creds' \in {"unknown", "resolving", "found", "none"}
      /\ \A n \in Messages : waiting'[n] = waiting[n] \/ n = m
  BY DEF MessageUpdated, BeginFlush, TypeOK
<1>3. TypeOK'
  BY <1>1, <1>2 DEF TypeOK, Texts
<1>4. OneCallPerMessage'
  BY <1>1 DEF OneCallPerMessage
<1>5. EndedOK'
  BY <1>1, <1>2 DEF EndedOK, TypeOK
<1>6. \A n \in Messages : due'[n] = due[n] \/ (n = m /\ due[m] = 0)
  BY <1>1 DEF TypeOK
<1>7. CallsOK'
  BY <1>1, <1>6 DEF CallsOK, DueOK, NotDue, TypeOK, Call
<1>8. DueOK'
  <2> SUFFICES ASSUME NEW n \in Messages
               PROVE  IF due'[n] = 0 THEN NotDue(n)' ELSE IsDue(n)'
    BY DEF DueOK
  <2>1. CASE n # m
    BY <1>1, <2>1 DEF DueOK, NotDue, IsDue, TypeOK
  <2>2. CASE n = m
    BY <1>1, <2>2 DEF DueOK, NotDue, IsDue, TypeOK, Texts
  <2> QED
    BY <2>1, <2>2
<1> QED
  BY <1>3, <1>4, <1>5, <1>7, <1>8

LEMMA CredsResolvedStep ==
  ASSUME IInv, NEW found \in BOOLEAN, CredsResolved(found)
  PROVE  IInv'
<1> QED
  BY DEF IInv, CredsResolved, hostVars, serverVars, TypeOK, OneCallPerMessage, CallsOK,
         EndedOK, DueOK, NotDue, IsDue

LEMMA ResumeStep ==
  ASSUME IInv, NEW m \in Messages, Resume(m)
  PROVE  IInv'
<1> USE CaptureAssumption
<1> USE DEF IInv
<1>1. /\ waiting' = [waiting EXCEPT ![m] = @ - 1]
      /\ waiting[m] > 0
      /\ UNCHANGED <<sent, ended, due, creds, stream, vectors, orphans, refused, faults>>
  BY DEF Resume, hostVars, serverVars
<1>2. /\ waiting' \in [Messages -> Nat]
      /\ \A n \in Messages : waiting'[n] > 0 => waiting[n] > 0
  BY <1>1 DEF TypeOK
<1>3. CASE UNCHANGED <<pending, settled, flushed, calls>>
  BY <1>1, <1>2, <1>3 DEF TypeOK, OneCallPerMessage, CallsOK, EndedOK, DueOK, NotDue, IsDue
<1>4. CASE ~UNCHANGED <<pending, settled, flushed, calls>>
  <2> DEFINE c == [msg |-> m, text |-> pending[m], prior |-> m \in settled, at |-> "sent"]
  <2>1. /\ pending[m] # 0
        /\ m \notin flushed
        /\ calls' = calls \cup {c}
        /\ pending' = [pending EXCEPT ![m] = 0]
        /\ settled' = settled \ {m}
        /\ flushed' = flushed \cup {m}
    BY <1>4 DEF Resume, Taken
  <2>2. pending[m] \in 1..MaxUpdates
    BY <2>1 DEF TypeOK, Texts
  <2>3. m \in ended /\ due[m] # 0 /\ IsDue(m)
    BY <1>1, <2>1 DEF DueOK, NotDue, EndedOK
  <2>4. c \in Call
    BY <2>2 DEF Call
  <2>5. TypeOK'
    BY <1>1, <1>2, <2>1, <2>4 DEF TypeOK, Texts
  <2>6. \A d \in calls : d.msg # m
    BY <2>1 DEF CallsOK
  <2>7. OneCallPerMessage'
    BY <2>1, <2>6 DEF OneCallPerMessage
  <2>8. CallsOK'
    BY <1>1, <2>1, <2>3 DEF CallsOK, IsDue
  <2>9. EndedOK'
    BY <1>1, <1>2, <2>1 DEF EndedOK
  <2>10. c \in calls' /\ c.msg = m
    BY <2>1
  <2>11. ASSUME NEW n \in Messages
         PROVE  IF due'[n] = 0 THEN NotDue(n)' ELSE IsDue(n)'
    <3>1. CASE n # m
      BY <1>1, <2>1, <2>6, <3>1 DEF DueOK, NotDue, IsDue, TypeOK
    <3>2. CASE n = m
      BY <1>1, <2>1, <2>3, <2>10, <3>2 DEF IsDue, TypeOK
    <3> QED
      BY <3>1, <3>2
  <2> QED
    BY <2>5, <2>7, <2>8, <2>9, <2>11 DEF DueOK
<1> QED
  BY <1>3, <1>4

-----------------------------------------------------------------------------
\* Steps of a call.  What they have in common: only the call moves.

Moved(c, place) ==
  /\ calls' = At(c, place)
  /\ UNCHANGED <<sent, ended, due, creds, pending, settled, flushed, waiting>>

LEMMA MovedStep ==
  ASSUME IInv, NEW c \in calls, NEW place \in {"embedding", "answered"},
         Moved(c, place),
         stream' \in [Messages -> Texts],
         \A m \in Messages : stream'[m] = stream[m] \/ (m = c.msg /\ stream'[m] = c.text),
         vectors' \subseteq {m \in Messages : stream'[m] # 0},
         orphans' = orphans,
         refused' \in {refused, refused \cup {c.msg}},
         faults' \in 0..MaxFaults,
         stream'[c.msg] # 0 \/ (place = "answered" /\ c.msg \in refused')
  PROVE  IInv'
<1> USE CaptureAssumption
<1> USE DEF IInv
<1> DEFINE d == [c EXCEPT !.at = place]
<1>1. c \in Call /\ c.msg \in Messages /\ c.text \in 1..MaxUpdates
  BY DEF TypeOK, Call
<1>2. /\ d \in Call
      /\ d.msg = c.msg /\ d.text = c.text /\ d.at = place
  BY <1>1 DEF Call
<1>3. calls' = (calls \ {c}) \cup {d}
  BY DEF Moved, At
<1>4. \A m \in Messages : stream[m] # 0 => stream'[m] # 0
  BY <1>1 DEF TypeOK
<1>5. TypeOK'
  <2>1. calls' \subseteq Call
    BY <1>2, <1>3 DEF TypeOK
  <2>2. orphans' \subseteq {m \in Messages : stream'[m] # 0}
    BY <1>4 DEF TypeOK
  <2>3. refused' \subseteq Messages
    BY <1>1 DEF TypeOK
  <2> QED
    BY <2>1, <2>2, <2>3 DEF Moved, TypeOK
<1>6. OneCallPerMessage'
  <2>1. \A e \in calls \ {c} : e.msg # c.msg
    BY DEF OneCallPerMessage
  <2> HIDE DEF d
  <2> QED
    BY <1>2, <1>3, <2>1 DEF OneCallPerMessage
<1>7. c.msg \in ended /\ c.msg \in flushed /\ c.text >= due[c.msg]
  BY DEF CallsOK
<1>8. CallsOK'
  <2> SUFFICES ASSUME NEW e \in calls'
               PROVE  /\ e.msg \in ended'
                      /\ e.msg \in flushed'
                      /\ e.text >= due'[e.msg]
                      /\ e.at = "embedding" => stream'[e.msg] # 0
                      /\ e.at = "answered" => stream'[e.msg] # 0 \/ e.msg \in refused'
    BY DEF CallsOK
  <2>1. CASE e = d
    BY <1>2, <1>7, <2>1 DEF Moved
  <2>2. CASE e \in calls
    <3>1. e.msg \in Messages
      BY <2>2 DEF TypeOK, Call
    <3> QED
      BY <1>4, <2>2, <3>1 DEF Moved, CallsOK
  <2> QED
    BY <1>3, <2>1, <2>2
<1>9. EndedOK'
  BY DEF Moved, EndedOK
<1>10. ASSUME NEW m \in Messages
       PROVE  IF due'[m] = 0 THEN NotDue(m)' ELSE IsDue(m)'
  <2>1. CASE due[m] = 0
    <3>1. m \notin flushed /\ m # c.msg
      BY <1>7, <2>1 DEF DueOK, NotDue
    <3> QED
      BY <2>1, <3>1 DEF Moved, DueOK, NotDue
  <2>2. CASE due[m] # 0
    <3>1. stream'[m] # 0 => stream'[m] >= due[m]
      BY <1>7, <2>2 DEF DueOK, IsDue
    <3>2. (\E e \in calls : e.msg = m) => \E e \in calls' : e.msg = m
      BY <1>2, <1>3
    <3>3. m \in refused => m \in refused'
      OBVIOUS
    <3> QED
      BY <1>4, <2>2, <3>1, <3>2, <3>3 DEF Moved, DueOK, IsDue
  <2> QED
    BY <2>1, <2>2
<1> QED
  BY <1>5, <1>6, <1>8, <1>9, <1>10 DEF DueOK

LEMMA AddStreamStep ==
  ASSUME IInv, NEW c \in calls, AddStream(c)
  PROVE  IInv'
<1>1. c.msg \in Messages /\ c.text \in 1..MaxUpdates
  BY DEF IInv, TypeOK, Call
<1>2. /\ stream' = [stream EXCEPT ![c.msg] = c.text]
      /\ UNCHANGED <<vectors, orphans, refused, faults>>
      /\ Moved(c, "embedding")
  BY DEF AddStream, Moved, hostVars, clientVars
<1>3. /\ stream' \in [Messages -> Texts]
      /\ \A m \in Messages : stream'[m] = stream[m] \/ (m = c.msg /\ stream'[m] = c.text)
      /\ stream'[c.msg] # 0
      /\ vectors' \subseteq {m \in Messages : stream'[m] # 0}
  BY <1>1, <1>2, CaptureAssumption DEF IInv, TypeOK, Texts
<1>4. faults' \in 0..MaxFaults
  BY <1>2 DEF IInv, TypeOK
<1> QED
  BY <1>2, <1>3, <1>4, MovedStep

\* A call that is answered with the row as it was.
LEMMA AnsweredLater ==
  ASSUME IInv, NEW c \in calls, Moved(c, "answered"),
         UNCHANGED <<stream, orphans>>,
         vectors' \in {vectors, vectors \cup {c.msg}},
         refused' \in {refused, refused \cup {c.msg}},
         faults' \in 0..MaxFaults,
         stream[c.msg] # 0 \/ (vectors' = vectors /\ c.msg \in refused')
  PROVE  IInv'
<1>1. c.msg \in Messages
  BY DEF IInv, TypeOK, Call
<1>2. /\ stream' \in [Messages -> Texts]
      /\ vectors' \subseteq {m \in Messages : stream'[m] # 0}
      /\ stream'[c.msg] # 0 \/ c.msg \in refused'
  BY <1>1 DEF IInv, TypeOK
<1> QED
  BY <1>2, MovedStep

LEMMA KeyTakenStep ==
  ASSUME IInv, NEW c \in calls, KeyTaken(c)
  PROVE  IInv'
<1> QED
  BY AnsweredLater DEF KeyTaken, Moved, hostVars, clientVars, serverVars, IInv, TypeOK

LEMMA RefusedStep ==
  ASSUME IInv, NEW c \in calls, Refused(c)
  PROVE  IInv'
<1>1. faults' \in 0..MaxFaults
  BY CaptureAssumption DEF Refused, Fault, IInv, TypeOK
<1> QED
  BY <1>1, AnsweredLater DEF Refused, Moved, hostVars, clientVars

LEMMA EmbeddedStep ==
  ASSUME IInv, NEW c \in calls, Embedded(c)
  PROVE  IInv'
<1>1. stream[c.msg] # 0 /\ faults' \in 0..MaxFaults
  BY DEF Embedded, IInv, CallsOK, TypeOK
<1> QED
  BY <1>1, AnsweredLater DEF Embedded, Moved, hostVars, clientVars

LEMMA EmbeddingFailsStep ==
  ASSUME IInv, NEW c \in calls, EmbeddingFails(c)
  PROVE  IInv'
<1>1. stream[c.msg] # 0
  BY DEF EmbeddingFails, IInv, CallsOK
<1>2. faults' \in 0..MaxFaults
  BY CaptureAssumption DEF EmbeddingFails, Fault, IInv, TypeOK
<1> QED
  BY <1>1, <1>2, AnsweredLater DEF EmbeddingFails, Moved, hostVars, clientVars, serverVars

LEMMA AnsweredStep ==
  ASSUME IInv, NEW c \in calls, Answered(c)
  PROVE  IInv'
<1> USE DEF IInv
<1>1. /\ calls' = calls \ {c}
      /\ UNCHANGED <<sent, ended, due, creds, pending, settled, flushed, waiting, stream,
                     vectors, orphans, refused, faults>>
  BY DEF Answered, hostVars, clientVars, serverVars
<1>2. stream[c.msg] # 0 \/ c.msg \in refused
  BY DEF Answered, CallsOK
<1>3. TypeOK' /\ OneCallPerMessage' /\ CallsOK' /\ EndedOK'
  BY <1>1 DEF TypeOK, OneCallPerMessage, CallsOK, EndedOK
<1>4. \A m \in Messages :
        (\E d \in calls : d.msg = m) =>
          \/ \E d \in calls' : d.msg = m
          \/ stream[m] # 0
          \/ m \in refused
  BY <1>1, <1>2
<1>5. DueOK'
  BY <1>1, <1>4 DEF DueOK, NotDue, IsDue
<1> QED
  BY <1>3, <1>5

LEMMA OrphanEmbeddedStep ==
  ASSUME IInv, NEW m \in Messages, OrphanEmbedded(m)
  PROVE  IInv'
<1> QED
  BY DEF IInv, OrphanEmbedded, hostVars, clientVars, TypeOK, OneCallPerMessage, CallsOK,
         EndedOK, DueOK, NotDue, IsDue

LEMMA CallFailsStep ==
  ASSUME IInv, NEW c \in calls, CallFails(c)
  PROVE  IInv'
<1> USE CaptureAssumption
<1> USE DEF IInv
<1>1. /\ calls' = calls \ {c}
      /\ flushed' = flushed \ {c.msg}
      /\ pending' = [pending EXCEPT ![c.msg] = c.text]
      /\ settled' \in {settled, settled \cup {c.msg}}
      /\ UNCHANGED <<sent, ended, due, creds, waiting, stream, vectors, refused>>
  BY DEF CallFails, Restored, hostVars
<1>2. /\ c \in Call
      /\ c.msg \in Messages
      /\ c.text \in 1..MaxUpdates
      /\ c.msg \in ended
      /\ c.text >= due[c.msg]
  BY DEF TypeOK, Call, CallsOK
<1>3. due[c.msg] # 0 /\ IsDue(c.msg)
  BY DEF DueOK, NotDue, CallsOK, TypeOK, Call
<1>4. \A d \in calls' : d \in calls /\ d.msg # c.msg
  BY <1>1 DEF OneCallPerMessage
<1>5. orphans' \subseteq {m \in Messages : stream[m] # 0}
  BY <1>2 DEF CallFails, CallsOK, TypeOK
<1>6. faults' \in 0..MaxFaults
  BY DEF CallFails, Fault, TypeOK
<1>7. pending' \in [Messages -> Texts]
  BY <1>1, <1>2 DEF TypeOK, Texts
<1>8. TypeOK'
  BY <1>1, <1>2, <1>5, <1>6, <1>7 DEF TypeOK
<1>9. OneCallPerMessage' /\ EndedOK'
  BY <1>1, <1>2 DEF OneCallPerMessage, EndedOK
<1>10. CallsOK'
  BY <1>1, <1>4 DEF CallsOK
<1>11. ASSUME NEW m \in Messages
       PROVE  IF due'[m] = 0 THEN NotDue(m)' ELSE IsDue(m)'
  <2>1. CASE m = c.msg
    BY <1>1, <1>2, <1>3, <2>1 DEF IsDue, TypeOK, Texts
  <2>2. CASE m # c.msg
    <3>1. (\E d \in calls : d.msg = m) => \E d \in calls' : d.msg = m
      BY <1>1, <2>2
    <3> QED
      BY <1>1, <2>2, <3>1 DEF DueOK, NotDue, IsDue, TypeOK
  <2> QED
    BY <2>1, <2>2
<1> QED
  BY <1>8, <1>9, <1>10, <1>11 DEF DueOK

-----------------------------------------------------------------------------
LEMMA NextIInv == IInv /\ [Next]_vars => IInv'
<1> SUFFICES ASSUME IInv, [Next]_vars PROVE IInv'
  OBVIOUS
<1>1. ASSUME NEW m \in Messages,
             PartUpdated(m) \/ MessageUpdated(m) \/ Resume(m) \/ OrphanEmbedded(m)
      PROVE  IInv'
  BY <1>1, PartUpdatedStep, MessageUpdatedStep, ResumeStep, OrphanEmbeddedStep
<1>2. ASSUME NEW found \in BOOLEAN, CredsResolved(found)
      PROVE  IInv'
  BY <1>2, CredsResolvedStep
<1>3. ASSUME NEW c \in calls,
             \/ Answered(c) \/ AddStream(c) \/ KeyTaken(c) \/ Embedded(c)
             \/ EmbeddingFails(c)
      PROVE  IInv'
  BY <1>3, AnsweredStep, AddStreamStep, KeyTakenStep, EmbeddedStep, EmbeddingFailsStep
<1>4. ASSUME NEW c \in calls, Refused(c) \/ CallFails(c)
      PROVE  IInv'
  BY <1>4, RefusedStep, CallFailsStep
<1>5. CASE UNCHANGED vars
  BY <1>5 DEF vars, hostVars, clientVars, serverVars, IInv, TypeOK, OneCallPerMessage,
              CallsOK, EndedOK, DueOK, NotDue, IsDue
<1> QED
  BY <1>1, <1>2, <1>3, <1>4, <1>5 DEF Next, CallStep

LEMMA Invariance == Spec => []IInv
<1> QED
  BY InitIInv, NextIInv, PTL DEF Spec

-----------------------------------------------------------------------------
\* The queue's maps, the calls and the rows keep their types, and the server
\* embeds, also for a call that has failed, only rows that are there.
THEOREM CaptureTypeCorrect == Spec => []TypeOK
<1>1. IInv => TypeOK
  BY DEF IInv
<1> QED
  BY <1>1, Invariance, PTL

\* However many flushes of a message await the credentials, one of them sends
\* it, and no other does while its call is under way: flush tests flushedIds
\* again after its await.
THEOREM CallIsSingle == Spec => []OneCallPerMessage
<1>1. IInv => OneCallPerMessage
  BY DEF IInv
<1> QED
  BY <1>1, Invariance, PTL

LEMMA InvKeepsTurns == IInv => TurnNotLost
<1> SUFFICES ASSUME IInv, NEW m \in Messages \ refused, due[m] # 0
             PROVE  \/ Holds(stream[m], m)
                    \/ \E c \in calls : c.msg = m /\ Holds(c.text, m)
                    \/ m \notin flushed /\ Holds(pending[m], m)
  BY DEF TurnNotLost
<1>1. IsDue(m)
  BY DEF IInv, DueOK
<1>2. \A c \in calls : c.msg = m => Holds(c.text, m)
  BY DEF IInv, CallsOK, TypeOK, Call, Holds
<1> QED
  BY <1>1, <1>2 DEF IsDue, Holds

\* The text of a settled message, or a later one, is stored, in a call or
\* pending and not marked as flushed, unless the server refused it: what flush
\* puts back after a failed call is never less than what was due.
THEOREM TurnIsNotLost == Spec => []TurnNotLost
<1> QED
  BY InvKeepsTurns, Invariance, PTL

-----------------------------------------------------------------------------
\* The hooks beside it.

Hooks == [at : {"idle", "creds", "reading", "writing", "call"}, text : BOOLEAN, saw : Notes]

HookTypeOK ==
  /\ notes \in Notes
  /\ hook \in Hooks
  /\ marks \in [1..MaxCompactions ->
                  [at : {"none", "started", "read", "done"}, saw : Notes]]

\* Due(notes) of a session whose prompt is about to write.
WritesWhenDue == hook.at = "writing" => Due(notes)

\* The processes of a compaction.
MarksWithReason ==
  \A k \in 1..MaxCompactions :
    marks[k].at \in {"started", "read"} => host = "claude" /\ AfterCompact

\* The two hosts keep apart.
HostsApart == hook.at \in {"reading", "writing"} => host = "claude"

HooksInv == HookTypeOK /\ WritesWhenDue /\ MarksWithReason /\ HostsApart

-----------------------------------------------------------------------------
LEMMA InitHooks == HooksInit => HooksInv
BY IntegrationsAssumption
   DEF HooksInit, HooksInv, HookTypeOK, WritesWhenDue, MarksWithReason, HostsApart, Notes,
       Hooks, Empty, Idle

LEMMA IdleType == Idle \in Hooks /\ Idle.at = "idle" /\ Empty \in Notes
<1>1. Empty \in Notes
  BY DEF Empty, Notes
<1> QED
  BY <1>1 DEF Idle, Hooks

LEMMA SpentType == \A n \in Notes : Spent(n) \in Notes /\ ~Due(Spent(n))
BY IntegrationsAssumption DEF Notes, Spent, Due

LEMMA OpencodeHooks ==
  ASSUME HooksInv, OpencodeNext
  PROVE  HooksInv'
<1> USE DEF HooksInv, HookTypeOK, WritesWhenDue, MarksWithReason, HostsApart
<1>1. CASE host = "opencode" /\ Next /\ UNCHANGED hookVars
  BY <1>1 DEF hookVars, Due
<1>2. ASSUME NEW text \in BOOLEAN, ChatMessage(text)
      PROVE  HooksInv'
  <2>1. notes' \in Notes
    BY <1>2, SpentType DEF ChatMessage
  <2>2. hook' \in Hooks /\ hook'.at \in {"idle", "creds"}
    BY <1>2, IdleType DEF ChatMessage, Idle, Hooks
  <2> QED
    BY <1>2, <2>1, <2>2 DEF ChatMessage
<1>3. CASE ChatResumes \/ RecallEnds
  BY <1>3, IdleType DEF ChatResumes, RecallEnds, Hooks, Due
<1>4. CASE Compacting \/ DistillResumes \/ DistillEnds
  BY <1>4 DEF Compacting, DistillResumes, DistillEnds, Due
<1>5. CASE SessionCompacted
  BY <1>5 DEF SessionCompacted, Notes, Due
<1> QED
  BY <1>1, <1>2, <1>3, <1>4, <1>5 DEF OpencodeNext

LEMMA ClaudeHooks ==
  ASSUME HooksInv, ClaudeNext
  PROVE  HooksInv'
<1> USE DEF HooksInv, HookTypeOK, WritesWhenDue, MarksWithReason, HostsApart
<1>1. ASSUME NEW text \in BOOLEAN, PromptSubmit(text)
      PROVE  HooksInv'
  BY <1>1, IdleType DEF PromptSubmit, Idle, Hooks
<1>2. CASE ReadNotes
  <2>1. CASE Due(notes)
    BY <1>2, <2>1 DEF ReadNotes, Hooks, Due
  <2>2. CASE ~Due(notes)
    BY <1>2, <2>2, IdleType DEF ReadNotes
  <2> QED
    BY <2>1, <2>2
<1>3. CASE WriteNotes \/ WriteFails
  <2>1. hook' \in Hooks /\ hook'.at \in {"idle", "call"}
    BY <1>3, IdleType DEF WriteNotes, WriteFails, Attempt, Idle, Hooks
  <2>2. hook.saw \in Notes
    BY DEF Hooks
  <2>3. notes' \in Notes
    BY <1>3, <2>2, SpentType DEF WriteNotes, WriteFails
  <2> QED
    BY <1>3, <2>1, <2>3 DEF WriteNotes, WriteFails, Attempt
<1>4. CASE HookKilled \/ CallToolEnds
  BY <1>4, IdleType DEF HookKilled, CallToolEnds, Due
<1>5. CASE PostCompact
  BY <1>5 DEF PostCompact, Due
<1>6. ASSUME NEW k \in 1..MaxCompactions, MarkReads(k) \/ MarkFails(k)
      PROVE  HooksInv'
  BY <1>6 DEF MarkReads, MarkFails, Due
<1>7. ASSUME NEW k \in 1..MaxCompactions, MarkWrites(k)
      PROVE  HooksInv'
  <2>1. notes' \in Notes /\ notes'.pending /\ AfterCompact
    BY <1>7 DEF MarkWrites, Notes
  <2> QED
    BY <1>7, <2>1 DEF MarkWrites, Due
<1>8. CASE Prune
  BY <1>8, IdleType DEF Prune
<1>9. DOMAIN marks = 1..MaxCompactions
  OBVIOUS
<1> QED
  BY <1>1, <1>2, <1>3, <1>4, <1>5, <1>6, <1>7, <1>8, <1>9 DEF ClaudeNext

LEMMA NextHooks == HooksInv /\ [HooksNext]_allVars => HooksInv'
<1> SUFFICES ASSUME HooksInv, [HooksNext]_allVars PROVE HooksInv'
  OBVIOUS
<1>1. CASE UNCHANGED allVars
  BY <1>1 DEF allVars, hookVars, HooksInv, HookTypeOK, WritesWhenDue, MarksWithReason,
              HostsApart, Due
<1> QED
  BY <1>1, OpencodeHooks, ClaudeHooks DEF HooksNext

LEMMA HooksInvariance == HooksSpec => []HooksInv
<1> QED
  BY InitHooks, NextHooks, PTL DEF HooksSpec

-----------------------------------------------------------------------------
LEMMA OpencodeSteps ==
  ASSUME HooksInv, OpencodeNext
  PROVE  [Recalls!Next]_(Recalls!vars)
<1> USE DEF HooksInv, HookTypeOK
<1>1. CASE host = "opencode" /\ Next /\ UNCHANGED hookVars
  BY <1>1 DEF hookVars, historyVars, Due, Recalls!vars
<1>2. ASSUME NEW text \in BOOLEAN, ChatMessage(text)
      PROVE  [Recalls!Next]_(Recalls!vars)
  <2>1. CASE Disabled
    BY <1>2, <2>1 DEF ChatMessage, Due, Recalls!vars
  <2>2. CASE ~Disabled /\ ~Due(notes)
    BY <1>2, <2>2 DEF ChatMessage, Due, Recalls!Next, Recalls!Prompted
  <2>3. CASE ~Disabled /\ Due(notes)
    <3>1. ~Due(notes')
      BY <1>2, <2>3, SpentType DEF ChatMessage
    <3> QED
      BY <1>2, <2>3, <3>1 DEF ChatMessage, Due, Recalls!Next, Recalls!Prompted
  <2> QED
    BY <2>1, <2>2, <2>3
<1>3. CASE ChatResumes \/ RecallEnds \/ Compacting \/ DistillResumes \/ DistillEnds
  BY <1>3 DEF ChatResumes, RecallEnds, Compacting, DistillResumes, DistillEnds,
              historyVars, Due, Recalls!vars
<1>4. CASE SessionCompacted
  <2>1. CASE Disabled \/ ~AfterCompact
    BY <1>4, <2>1 DEF SessionCompacted, Due, Recalls!vars
  <2>2. CASE ~Disabled /\ AfterCompact
    <3>1. notes'.pending
      BY <1>4, <2>2 DEF SessionCompacted, Notes
    <3> QED
      BY <1>4, <2>2, <3>1 DEF SessionCompacted, Due, Recalls!Next, Recalls!Compacted
  <2> QED
    BY <2>1, <2>2
<1> QED
  BY <1>1, <1>2, <1>3, <1>4 DEF OpencodeNext

LEMMA ClaudeSteps ==
  ASSUME HooksInv, ClaudeNext
  PROVE  [Recalls!Next]_(Recalls!vars)
<1> USE DEF HooksInv, HookTypeOK
<1>1. ASSUME NEW text \in BOOLEAN, PromptSubmit(text)
      PROVE  [Recalls!Next]_(Recalls!vars)
  BY <1>1 DEF PromptSubmit, historyVars, Due, Recalls!vars
<1>2. CASE ReadNotes
  <2>1. CASE Due(notes)
    BY <1>2, <2>1 DEF ReadNotes, Due, Recalls!vars
  <2>2. CASE ~Due(notes)
    BY <1>2, <2>2 DEF ReadNotes, Due, Recalls!Next, Recalls!Prompted
  <2> QED
    BY <2>1, <2>2
<1>3. CASE WriteNotes
  <2>1. hook.saw \in Notes
    BY DEF Hooks
  <2>2. Due(notes)
    BY <1>3 DEF WriteNotes, Attempt, WritesWhenDue
  <2>3. ~Due(notes')
    BY <1>3, <2>1, SpentType DEF WriteNotes
  <2> QED
    BY <1>3, <2>2, <2>3 DEF WriteNotes, Attempt, Due, Recalls!Next, Recalls!Prompted
<1>4. CASE WriteFails
  <2>1. Due(notes)
    BY <1>4 DEF WriteFails, Attempt, WritesWhenDue
  <2> QED
    BY <1>4, <2>1 DEF WriteFails, Attempt, HookFault, Due, Recalls!Next, Recalls!PromptFails
<1>5. CASE HookKilled
  BY <1>5 DEF HookKilled, HookFault, historyVars, Due, Recalls!Next, Recalls!HookDies
<1>6. CASE CallToolEnds \/ PostCompact
  BY <1>6 DEF CallToolEnds, PostCompact, historyVars, Due, Recalls!vars
<1>7. ASSUME NEW k \in 1..MaxCompactions, MarkReads(k)
      PROVE  [Recalls!Next]_(Recalls!vars)
  BY <1>7 DEF MarkReads, historyVars, Due, Recalls!vars
<1>8. ASSUME NEW k \in 1..MaxCompactions, MarkWrites(k)
      PROVE  [Recalls!Next]_(Recalls!vars)
  <2>1. notes'.pending /\ AfterCompact
    BY <1>8 DEF MarkWrites, MarksWithReason, Notes
  <2> QED
    BY <1>8, <2>1 DEF MarkWrites, Due, Recalls!Next, Recalls!Compacted
<1>9. ASSUME NEW k \in 1..MaxCompactions, MarkFails(k)
      PROVE  [Recalls!Next]_(Recalls!vars)
  BY <1>9 DEF MarkFails, HookFault, historyVars, Due, Recalls!Next, Recalls!HookDies
<1>10. CASE Prune
  <2>1. Due(notes') = AtStart
    BY <1>10, IntegrationsAssumption DEF Prune, Empty, Due
  <2> QED
    BY <1>10, <2>1 DEF Prune, HookFault, historyVars, Due, Recalls!Next, Recalls!Forgotten
<1>11. DOMAIN marks = 1..MaxCompactions
  OBVIOUS
<1> QED
  BY <1>1, <1>2, <1>3, <1>4, <1>5, <1>6, <1>7, <1>8, <1>9, <1>10, <1>11 DEF ClaudeNext

\* Whatever the settings and however many processes share the file, a session is
\* due one attempt at its first prompt and one after a compaction: what a hook
\* writes from what it read (state.mjs:38-56) neither brings a consumed reason back
\* nor drops one that was noted in between.
THEOREM HooksImplementAutoRecall == HooksSpec => ImplementsAutoRecall
<1>1. HooksInit => Recalls!Init
  BY IntegrationsAssumption DEF HooksInit, Empty, Due, Recalls!Init
<1>2. HooksInv /\ [HooksNext]_allVars => [Recalls!Next]_(Recalls!vars)
  <2> SUFFICES ASSUME HooksInv, [HooksNext]_allVars
               PROVE  [Recalls!Next]_(Recalls!vars)
    OBVIOUS
  <2>1. CASE UNCHANGED allVars
    BY <2>1 DEF allVars, hookVars, historyVars, Due, Recalls!vars
  <2> QED
    BY <2>1, OpencodeSteps, ClaudeSteps DEF HooksNext
<1> QED
  BY <1>1, <1>2, HooksInvariance, PTL DEF HooksSpec, ImplementsAutoRecall, Recalls!Spec

Counted ==
  /\ attempts \in Nat /\ noted \in Nat /\ hookFaults \in Nat
  /\ Recalls!AttemptsHaveReasons

LEMMA StepCounted ==
  ASSUME Counted, [Recalls!Next]_(Recalls!vars)
  PROVE  Counted'
<1> USE DEF Counted, Recalls!AttemptsHaveReasons
<1>1. CASE Recalls!Prompted
  BY <1>1 DEF Recalls!Prompted, Due
<1>2. CASE Recalls!Compacted
  BY <1>2 DEF Recalls!Compacted, Due
<1>3. CASE Recalls!PromptFails
  BY <1>3 DEF Recalls!PromptFails, Due
<1>4. CASE Recalls!HookDies \/ Recalls!Forgotten
  BY <1>4 DEF Recalls!HookDies, Recalls!Forgotten, Due
<1>5. CASE UNCHANGED Recalls!vars
  BY <1>5 DEF Recalls!vars, Due
<1> QED
  BY <1>1, <1>2, <1>3, <1>4, <1>5 DEF Recalls!Next

\* No reason is good for two attempts: there are no more of them than the first
\* prompt, the compactions that were noted and the faults.
THEOREM AttemptsAreOwed == HooksSpec => []Recalls!AttemptsHaveReasons
<1>1. HooksInit => Counted
  BY IntegrationsAssumption
     DEF HooksInit, Empty, Due, Counted, Recalls!AttemptsHaveReasons
<1>2. Counted /\ [Recalls!Next]_(Recalls!vars) => Counted'
  BY StepCounted
<1>3. Counted => Recalls!AttemptsHaveReasons
  BY DEF Counted
<1> QED
  BY <1>1, <1>2, <1>3, HooksImplementAutoRecall, PTL
     DEF HooksSpec, ImplementsAutoRecall, Recalls!Spec

-----------------------------------------------------------------------------
LEMMA CredsAsked ==
  ASSUME IInv, GetCreds, UNCHANGED captureRest
  PROVE  IInv'
BY DEF GetCreds, captureRest, hostVars, serverVars, IInv, TypeOK, OneCallPerMessage,
       CallsOK, EndedOK, DueOK, NotDue, IsDue

LEMMA CaptureKeeps ==
  ASSUME IInv, [HooksNext]_allVars
  PROVE  IInv'
<1>1. CASE UNCHANGED vars
  BY <1>1, NextIInv
<1>2. CASE Next
  BY <1>2, NextIInv
<1>3. ASSUME NEW text \in BOOLEAN, ChatMessage(text)
      PROVE  (GetCreds /\ UNCHANGED captureRest) \/ UNCHANGED vars
  BY <1>3 DEF ChatMessage, captureRest, hostVars, clientVars, serverVars, vars
<1>4. Compacting => (GetCreds /\ UNCHANGED captureRest) \/ UNCHANGED vars
  BY DEF Compacting, captureRest, hostVars, clientVars, serverVars, vars
<1>5. ChatResumes \/ RecallEnds \/ DistillResumes \/ DistillEnds \/ SessionCompacted
        => UNCHANGED vars
  BY DEF ChatResumes, RecallEnds, DistillResumes, DistillEnds, SessionCompacted
<1>6. ASSUME OpencodeNext
      PROVE  Next \/ UNCHANGED vars \/ (GetCreds /\ UNCHANGED captureRest)
  <2>1. CASE Next
    BY <2>1
  <2>2. CASE \E text \in BOOLEAN : ChatMessage(text)
    BY <1>3, <2>2
  <2>3. CASE Compacting
    BY <1>4, <2>3
  <2>4. CASE ChatResumes \/ RecallEnds \/ DistillResumes \/ DistillEnds \/ SessionCompacted
    BY <1>5, <2>4
  <2> QED
    BY <1>6, <2>1, <2>2, <2>3, <2>4 DEF OpencodeNext
<1>7. ClaudeNext => UNCHANGED vars
  BY DEF ClaudeNext, PromptSubmit, ReadNotes, WriteNotes, WriteFails, Attempt, HookKilled,
         CallToolEnds, PostCompact, MarkReads, MarkWrites, MarkFails, Prune
<1> QED
  BY <1>1, <1>2, <1>6, <1>7, CredsAsked DEF HooksNext, allVars

\* Beside the hooks of prompts and compactions, too, which resolve the credentials
\* that flushes share, the text of a settled message is stored, in a call or
\* pending, unless the server refused it.
THEOREM TurnIsNotLostInSession == HooksSpec => [](TypeOK /\ TurnNotLost)
<1>1. HooksInit => IInv
  BY InitIInv DEF HooksInit
<1>2. IInv /\ [HooksNext]_allVars => IInv'
  BY CaptureKeeps
<1>3. IInv => TypeOK /\ TurnNotLost
  BY InvKeepsTurns DEF IInv
<1> QED
  BY <1>1, <1>2, <1>3, PTL DEF HooksSpec
=============================================================================
