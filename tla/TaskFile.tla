------------------------------ MODULE TaskFile ------------------------------
(***************************************************************************)
(* A state file that is rewritten as a whole by fire-and-forget calls of   *)
(* fs.promises.writeFile, the way src/server/rdkclaw/autonomy-scheduler.ts *)
(* saves its tasks: nothing orders two calls, so that their parts - open   *)
(* with truncation, then write from position 0 - interleave in libuv's     *)
(* thread pool.  A process crash happens between two parts.                *)
(***************************************************************************)
EXTENDS Naturals, Sequences

CONSTANTS Empty,     \* a truncated (or missing) file
          Garbled,   \* one whose end is left over from a longer content
          MaxWrites  \* bound: how many calls are in flight at most

ASSUME MaxWritesAssumption == MaxWrites \in Nat \ {0}

VARIABLES
  file,       \* a content, Empty or Garbled
  writes,     \* the calls in flight: what each writes and whether it has opened
  overlapped  \* history: the last call was made while others were in flight

fileVars == <<file, writes, overlapped>>

FileTypeOK(Content) ==
  /\ file \in Content \union {Empty, Garbled}
  /\ writes \in Seq([data: Content, opened: BOOLEAN])
  /\ Len(writes) <= MaxWrites
  /\ overlapped \in BOOLEAN

FileInit ==
  /\ file = Empty
  /\ writes = << >>
  /\ overlapped = FALSE

\* writeFile(data) is called.
Save(data) ==
  /\ Len(writes) < MaxWrites
  /\ writes' = Append(writes, [data |-> data, opened |-> FALSE])
  /\ overlapped' = (writes # << >>)
  /\ UNCHANGED file

\* open(path, "w")
OpenWrite(i) ==
  /\ ~writes[i].opened
  /\ file' = Empty
  /\ writes' = [writes EXCEPT ![i].opened = TRUE]
  /\ UNCHANGED overlapped

\* The bytes go over those of whoever wrote since, whose end may stick out.
FinishWrite(i) ==
  /\ writes[i].opened
  /\ \/ file' = writes[i].data
     \/ file \notin {Empty, writes[i].data} /\ file' = Garbled
  /\ writes' = SubSeq(writes, 1, i - 1) \o SubSeq(writes, i + 1, Len(writes))
  /\ UNCHANGED overlapped

FileStep == \E i \in 1..Len(writes) : OpenWrite(i) \/ FinishWrite(i)

\* The process goes down; what is in the file stays.
CrashWrites == writes' = << >> /\ overlapped' = FALSE /\ UNCHANGED file
=============================================================================
