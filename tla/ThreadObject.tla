------------------------------ MODULE ThreadObject ------------------------------
(***************************************************************************)
(* What OSSAgentStore promises of the two objects of a thread within one   *)
(* process: whatever calls overlap, meta.json changes only by merging what *)
(* one call brings into the value it has at that moment, and messages.jsonl*)
(* only by one call's lines added at its end.                              *)
(***************************************************************************)
EXTENDS Sequences

CONSTANTS
  Updates,       \* calls of updateThreadMetadata
  Runs,          \* runs created on the thread
  Appends,       \* calls of appendMessages
  Fields,        \* keys of the thread's metadata
  FieldOf,       \* the key an update sets
  None

VARIABLES meta, messages

Nothing == [metadata |-> [f \in Fields |-> None], latestRunId |-> None]

Init == meta = Nothing /\ messages = <<>>

\* {...meta.metadata, ...metadata} and meta.latestRunId = runId.
Merged(m, o) ==
  IF o \in Updates THEN [m EXCEPT !.metadata[FieldOf[o]] = o]
  ELSE [m EXCEPT !.latestRunId = o]

Next ==
  \/ \E o \in Updates \cup Runs : meta' = Merged(meta, o) /\ UNCHANGED messages
  \/ \E a \in Appends : messages' = Append(messages, a) /\ UNCHANGED meta

Spec == Init /\ [][Next]_<<meta, messages>>
=============================================================================
