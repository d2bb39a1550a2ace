--------------------------- MODULE MCConsolidation ---------------------------
(***************************************************************************)
(* A small instance of Consolidation: up to three candidates, two atoms    *)
(* they may be about, and replies of up to two entries.                    *)
(***************************************************************************)
EXTENDS Consolidation

CONSTANTS a, b, c

Lines(items) == [form |-> "lines", items |-> items]
Array(items) == [form |-> "array", items |-> items]

\* No reply, none to extract, prose alone, prose among the lines, an object that is
\* cut off, one candidate, and three of which the last repeats the first and another
\* has a neighbour's id.
MCExtractions ==
  {[form |-> "blank", items |-> <<>>], Array(<<>>), Lines(<<Prose>>),
   Lines(<<Prose, c>>), Lines(<<c, Nothing>>), Array(<<c, Prose>>),
   Array(<<c, a, c>>)}

Entry(n, action, targets) == [candidate |-> n, action |-> action, targets |-> targets]

\* For the first and the second candidate of a prompt, and one out of range; a merge
\* that names one atom twice.  A prompt with one candidate has no numbers, so any of
\* these answers it.
MCEntries ==
  {Entry(1, "update", <<b>>), Entry(2, "update", <<b>>), Entry(1, "merge", <<a, b>>),
   Entry(2, "store", <<>>), Entry(2, "merge", <<b, b>>), Entry(3, "skip", <<>>)}

\* One at a time, the default way in batches of two, and a size that two candidates
\* without neighbours fit in and one with both neighbours does not.
MCSettings == {[batch |-> 1, chars |-> 0], [batch |-> 2, chars |-> 0],
               [batch |-> 3, chars |-> 6]}
=============================================================================
