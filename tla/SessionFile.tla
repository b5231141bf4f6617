---------------------------- MODULE SessionFile ----------------------------
(***************************************************************************)
(* The JSONL file of one session and its parsed form (the last third of    *)
(* src/server/agent/session.ts), as operators.  An entry is its number in  *)
(* `entries`, a sequence of records with a parent; a line is the number of *)
(* the entry it holds, or Damaged.                                         *)
(***************************************************************************)
EXTENDS Integers, Sequences

Damaged == 0
Null == 0  \* leafId and parentId: null

NoFile == [header |-> FALSE, lines |-> <<>>, cut |-> FALSE]

\* content of rewriteSessionFile: the header and all entries.
Whole(ids) == [header |-> TRUE, lines |-> ids, cut |-> FALSE]

\* appendFile.  After a line that was cut short the new one is glued to it, and
\* neither can be parsed.
AddLine(file, id) ==
  [file EXCEPT !.cut = FALSE,
               !.lines = IF file.cut
                         THEN [@ EXCEPT ![Len(@)] = Damaged]
                         ELSE Append(@, id)]

\* What a crash leaves of a line: a piece of it, or all of it but its end.
CutLine(file, id) ==
  {[AddLine(file, id) EXCEPT !.cut = TRUE],
   [AddLine(file, Damaged) EXCEPT !.cut = TRUE]}

\* What a crash leaves of a rewritten file: not even the header, or the
\* first of its lines, the last of which may be cut.
PartOf(ids) ==
  {NoFile} \union {Whole(SubSeq(ids, 1, k)) : k \in 0..Len(ids) - 1}
           \union UNION {CutLine(Whole(SubSeq(ids, 1, k - 1)), ids[k]) : k \in 1..Len(ids)}

Ids(seq) == { seq[i] : i \in DOMAIN seq }

\* seq without the ids in gone.
Without(seq, gone) ==
  LET rest[n \in 0..Len(seq)] ==
        IF n = 0 THEN <<>>
        ELSE IF seq[n] \in gone THEN rest[n - 1] ELSE Append(rest[n - 1], seq[n])
  IN rest[Len(seq)]

\* A SessionState.  Without a header the file counts as a new session.
NewState == [entries |-> <<>>, leaf |-> Null, flushed |-> FALSE]

LastOf(ids) == IF ids = <<>> THEN Null ELSE ids[Len(ids)]

Loaded(file) ==
  LET ids == Without(file.lines, {Damaged})
  IN IF file.header
     THEN [entries |-> ids, leaf |-> LastOf(ids), flushed |-> TRUE]
     ELSE NewState

\* buildSessionContext: from the leaf up the parents, as far as they are there.
Path(entries, state) ==
  LET up[id \in 0..Len(entries)] ==
        IF id \in Ids(state.entries) THEN Append(up[entries[id].parent], id) ELSE <<>>
  IN up[state.leaf]

\* Faulty variant of DropFrom: leafId is left as it is.
DropFromOnly(state, gone, leaf) ==
  [state EXCEPT !.entries = Without(@, gone)]

\* The loops of truncateTrailingAssistant and truncateForStudioRegenerate.
DropFrom(state, gone, leaf) ==
  [state EXCEPT !.entries = Without(@, gone), !.leaf = leaf]
=============================================================================
