------------------------------ MODULE Journal ------------------------------
(***************************************************************************)
(* The decision journal (src/paperfill/journal.py): a file of entries      *)
(* linked by their hashes, the processes that append to it, and what       *)
(* verify says of the file.  Nothing keeps two processes from having it    *)
(* open at once: a run may be resumed while it is still running.           *)
(***************************************************************************)
EXTENDS Integers, Sequences, FiniteSets

CONSTANTS
  Processes,      \* the processes that may open the journal
  Kinds,          \* what entries may say: their kinds with their data
  MaxEntries,     \* bound on the lines written
  MaxDamages      \* bound on the lines edited or deleted

ASSUME JournalAssumption == MaxEntries \in Nat /\ MaxDamages \in Nat

VARIABLES
  file,           \* the lines on disk
  torn,           \* whether the last of them is cut off
  open,           \* the processes that have the journal open
  entries,        \* Journal.entries of each process
  head,           \* Journal._prev of each process
  \* History.
  lines,          \* how many lines were written
  shared,         \* whether two processes had the journal open at once
  damages,        \* how many lines were edited or deleted
  spot            \* the first damaged line, 0 if there is none

jvars == <<file, torn, open, entries, head, lines, shared, damages, spot>>
-----------------------------------------------------------------------------
(* Entries and the chain. *)

Genesis == << >>

\* No two contents have the same hash: as good as the content itself.
EntryHash(seq, kind, prev) == Append(prev, <<seq, kind>>)

Entry(seq, kind, prev) ==
  [seq |-> seq, kind |-> kind, prev |-> prev, hash |-> EntryHash(seq, kind, prev)]

\* The hash that entry number i (from 1) of a file has to start from.
HashBefore(f, i) == IF i = 1 THEN Genesis ELSE f[i - 1].hash

\* Bug: the hash is compared with the one before, and not computed again.
BugLinked(f, i) == f[i].seq = i - 1 /\ f[i].prev = HashBefore(f, i)

Linked(f, i) ==
  /\ f[i].seq = i - 1
  /\ f[i].prev = HashBefore(f, i)
  /\ f[i].hash = EntryHash(f[i].seq, f[i].kind, f[i].prev)

\* Bug: only the hash of each entry is computed again.
BugVerified(f) == \A i \in DOMAIN f : f[i].hash = EntryHash(f[i].seq, f[i].kind, f[i].prev)

\* verify: whether the chain holds, and the number of the first entry that
\* breaks it (first_bad_seq).
Verified(f) == \A i \in DOMAIN f : Linked(f, i)

FirstBad(f) ==
  (CHOOSE i \in DOMAIN f : ~Linked(f, i) /\ \A j \in 1 .. i - 1 : Linked(f, j)) - 1
-----------------------------------------------------------------------------
(* The processes. *)

\* Bug: a process that continues a journal starts a chain of its own.
BugHeadOf(f) == Genesis

\* The hash that the next entry after those of f has to start from.
HeadOf(f) == IF f = << >> THEN Genesis ELSE f[Len(f)].hash

\* Journal.open, from reading the file to opening it for appending, which changes
\* nothing: one that cannot be read, or whose chain is broken, is refused.
Open(p) ==
  /\ p \notin open /\ ~torn /\ Verified(file)
  /\ open' = open \cup {p}
  /\ entries' = [entries EXCEPT ![p] = file]
  /\ head' = [head EXCEPT ![p] = HeadOf(file)]
  /\ shared' = (shared \/ open # {})
  /\ UNCHANGED <<file, torn, lines, damages, spot>>

NextSeq(p) == Len(entries[p])

\* Journal.record: the entry that follows those in memory is added to them and
\* to the end of the file, whatever the file holds by now.
Record(p, kind) ==
  /\ p \in open /\ lines < MaxEntries
  /\ LET e == Entry(NextSeq(p), kind, head[p])
     IN  /\ entries' = [entries EXCEPT ![p] = Append(@, e)]
         /\ head' = [head EXCEPT ![p] = e.hash]
         /\ file' = Append(file, e)
  /\ lines' = lines + 1
  /\ UNCHANGED <<torn, open, shared, damages, spot>>

Close(p) ==
  /\ p \in open
  /\ open' = open \ {p}
  /\ entries' = [entries EXCEPT ![p] = << >>] /\ head' = [head EXCEPT ![p] = Genesis]
  /\ UNCHANGED <<file, torn, lines, shared, damages, spot>>

\* A process dies while it writes a line: what there is of it cannot be read,
\* nor can anything that is appended to it.
Tear(p) ==
  /\ p \in open /\ ~torn /\ lines < MaxEntries
  /\ torn' = TRUE
  /\ open' = open \ {p}
  /\ entries' = [entries EXCEPT ![p] = << >>] /\ head' = [head EXCEPT ![p] = Genesis]
  /\ lines' = lines + 1
  /\ UNCHANGED <<file, shared, damages, spot>>
-----------------------------------------------------------------------------
(* What happens to a file in the meantime. *)

Damaged(i) ==
  /\ damages < MaxDamages /\ damages' = damages + 1
  /\ spot' = IF spot = 0 \/ i < spot THEN i ELSE spot
  /\ UNCHANGED <<torn, open, entries, head, lines, shared>>

\* A line says something else now.
Edit(i) ==
  /\ \E kind \in Kinds \ {file[i].kind} : file' = [file EXCEPT ![i].kind = kind]
  /\ Damaged(i)

\* A line is gone, and it is not the last one, of which nothing tells.
Delete(i) ==
  /\ i < Len(file)
  /\ file' = [j \in 1 .. Len(file) - 1 |-> IF j < i THEN file[j] ELSE file[j + 1]]
  /\ Damaged(i)
-----------------------------------------------------------------------------
JInit ==
  /\ file = << >> /\ torn = FALSE /\ open = {}
  /\ entries = [p \in Processes |-> << >>] /\ head = [p \in Processes |-> Genesis]
  /\ lines = 0 /\ shared = FALSE /\ damages = 0 /\ spot = 0

Process(p) == Open(p) \/ (\E kind \in Kinds : Record(p, kind)) \/ Close(p) \/ Tear(p)

JNext ==
  \/ \E p \in Processes : Process(p)
  \/ \E i \in DOMAIN file : Edit(i) \/ Delete(i)

JSpec == JInit /\ [][JNext]_jvars
-----------------------------------------------------------------------------
(* Properties. *)

(***************************************************************************)
(* The lines that one process at a time wrote verify, however often the    *)
(* journal was closed and opened again, and what its writer has in memory  *)
(* are those lines.  Of a journal whose last line was cut off this is said *)
(* of the lines before: nobody opens it again, and verify cannot read it.  *)
(***************************************************************************)
OneWriterVerifies ==
  ~shared /\ damages = 0 =>
    /\ Verified(file)
    /\ \A p \in open : entries[p] = file /\ head[p] = HeadOf(file)

(***************************************************************************)
(* "Editing or deleting any line breaks every hash after it, which verify  *)
(* reports with the first bad sequence number" (journal.py:7-8): that of   *)
(* the first damaged line, whatever is recorded after the damage.  (A line *)
(* that was edited twice may be what it was; a last line that was cut off  *)
(* is not a line.)                                                         *)
(***************************************************************************)
DamageIsFound ==
  ~shared /\ damages = 1 => ~Verified(file) /\ FirstBad(file) = spot - 1

(***************************************************************************)
(* Two processes that have the journal open at once (journal.py:86 keeps   *)
(* none out) never leave a file that verifies if either of them believes   *)
(* in entries that are not its first ones: two histories are never taken   *)
(* for one.                                                                *)
(***************************************************************************)
VerifiedIsOneHistory ==
  damages = 0 /\ ~torn /\ Verified(file) =>
    \A p \in open :
      /\ Len(entries[p]) <= Len(file)
      /\ \A i \in DOMAIN entries[p] : entries[p][i] = file[i]
=============================================================================
