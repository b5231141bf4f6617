----------------------------- MODULE Transcript -----------------------------
(***************************************************************************)
(* What SessionManager (src/server/agent/session.ts) promises the chats of *)
(* a conversation and whoever restarts the server, without the machinery:  *)
(* an entry is put into the context first, then kept for a restart, then   *)
(* acknowledged, and only then comes the next one; entries are taken back  *)
(* from the end only.                                                      *)
(***************************************************************************)
EXTENDS Naturals, Sequences

VARIABLES
  context,  \* the conversation that the chat works with
  kept,     \* the conversation that a restart would load
  told,     \* the entries whose append has returned
  broken    \* the promise is off

transcriptVars == <<context, kept, told, broken>>

TranscriptInit ==
  /\ context = <<>> /\ kept = <<>> /\ told = <<>> /\ broken = FALSE

OneMore(old, new) == new # <<>> /\ SubSeq(new, 1, Len(new) - 1) = old
StartOf(part, whole) == \E k \in 0..Len(whole) : part = SubSeq(whole, 1, k)

\* An entry is put into the context, once all others are kept and acknowledged.
Put ==
  /\ context = kept /\ OneMore(context, context')
  /\ told' = kept /\ UNCHANGED kept

Keep ==
  /\ kept = told /\ OneMore(kept, context)
  /\ kept' = context /\ UNCHANGED <<context, told>>

\* The append returns; or the server restarts, and the entry is part of what it loads.
Acknowledge ==
  /\ context = kept
  /\ told' = kept /\ UNCHANGED <<context, kept>>

\* A retry takes the end of the conversation out of the context, and then out of
\* what is kept.
TakeBack ==
  /\ context = kept /\ kept = told
  /\ StartOf(context', told) /\ UNCHANGED <<kept, told>>

Rewrite ==
  /\ kept = told /\ StartOf(context, told)
  /\ kept' = context /\ told' = context /\ UNCHANGED context

\* An append or a rewrite fails, or the server restarts: what is kept counts.
FallBack ==
  /\ kept = told
  /\ context' = kept /\ UNCHANGED <<kept, told>>

TranscriptNext ==
  \/ broken' = TRUE
  \/ /\ broken = FALSE /\ broken' = FALSE
     /\ Put \/ Keep \/ Acknowledge \/ TakeBack \/ Rewrite \/ FallBack

TranscriptSpec == TranscriptInit /\ [][TranscriptNext]_transcriptVars
=============================================================================
