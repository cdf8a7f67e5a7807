------------------------------ MODULE Journal ------------------------------
(***************************************************************************)
(* The journal of examples/kvstore/journal.rs as operators.  A journal is  *)
(* a sequence of records, one for each write of the replica, in numbered   *)
(* files.  An entry is the number of the write it came with; the counters  *)
(* of a write, its view state, are its number.                             *)
(***************************************************************************)
EXTENDS Naturals, Sequences, FiniteSetsExt, Functions

Later(a, b) == IF a > b THEN a ELSE b

Lower(a, b) == IF a < b THEN a ELSE b

Nothing == [i \in {} |-> 0]

\* PersistentState::empty
Blank == [log_start |-> 0, op_number |-> 0, log |-> Nothing, counters |-> 0]

\* The writes a replica with the state s may take: it compacts, or restores a
\* checkpoint past its log, and replaces what follows some entry.
WritesOf(s, ops) ==
  {[log_start |-> start, entries_from |-> from, op_number |-> op, counters |-> s.counters + 1] :
     start \in s.log_start .. ops, from \in 1 .. ops + 1, op \in 0 .. ops}

Fits(s, w) ==
  /\ w.entries_from \in w.log_start + 1 .. Later(s.op_number, w.log_start) + 1
  /\ w.op_number + 1 >= w.entries_from

\* PersistentState::apply
After(s, w) ==
  [log_start |-> w.log_start, op_number |-> w.op_number, counters |-> w.counters,
   log |-> [i \in w.log_start + 1 .. w.op_number |->
              IF i < w.entries_from THEN s.log[i] ELSE w.counters]]

\* The first write of a replica that starts from s: it may have compacted up to
\* what its state machine applied, and changes no entry.
FirstWritesOf(s, ops) ==
  {[log_start |-> start, entries_from |-> Later(s.op_number, start) + 1,
    op_number |-> Later(s.op_number, start), counters |-> s.counters + 1] :
     start \in s.log_start .. ops}

-----------------------------------------------------------------------------
(* Journal::open *)

NothingRead == [entries |-> Nothing, files |-> Nothing, header |-> Blank, file |-> 0]

\* What one record makes of what was read before it.
ReadRecord(read, record) ==
  LET w == record.write
      kept == {i \in DOMAIN read.entries : i > w.log_start /\ i < w.entries_from}
      written == w.entries_from .. w.op_number
  IN  [entries |-> [i \in kept \union written |->
                      IF i \in written THEN w.counters ELSE read.entries[i]],
       files |-> [i \in kept \union written |->
                    IF i \in written THEN record.file ELSE read.files[i]],
       header |-> w, file |-> record.file]

Read(records) ==
  LET read[i \in 0 .. Len(records)] ==
        IF i = 0 THEN NothingRead ELSE ReadRecord(read[i - 1], records[i])
  IN  read[Len(records)]

Retained(read) == read.header.log_start + 1 .. read.header.op_number

\* Whether a replay ends in "journal lacks op".
Lacks(read) == ~ (Retained(read) \subseteq DOMAIN read.entries)

\* The state a replay returns.
StateOf(read) ==
  [log_start |-> read.header.log_start, op_number |-> read.header.op_number,
   counters |-> read.header.counters, log |-> Restrict(read.entries, Retained(read))]

NoTrim == 0

\* The journal a replay returns.
Opened(read) ==
  LET firsts == {i \in Retained(read) : i - 1 \in Retained(read) =>
                                          read.files[i - 1] # read.files[i]}
  IN  [runs |-> Restrict(read.files, firsts), last_file |-> read.file,
       trimmed_before |-> 0, trimming |-> NoTrim]

-----------------------------------------------------------------------------
(* Journal::finish, once the write w landed in a file *)

\* Mutant: the run that the log now starts in the middle of goes with its
\* first entries.
RunsAfterForgetsCovering(runs, w, file) ==
  LET written == IF w.op_number >= w.entries_from THEN {w.entries_from} ELSE {}
      all == [i \in {k \in DOMAIN runs : k < w.entries_from} \union written |->
                IF i \in written THEN file ELSE runs[i]]
  IN  Restrict(all, {i \in DOMAIN all : i > w.log_start})

RunsAfter(runs, w, file) ==
  LET written == IF w.op_number >= w.entries_from THEN {w.entries_from} ELSE {}
      all == [i \in {k \in DOMAIN runs : k < w.entries_from} \union written |->
                IF i \in written THEN file ELSE runs[i]]
      first == w.log_start + 1
      upto == {i \in DOMAIN all : i <= first}
      kept == {i \in DOMAIN all : i >= first}
  IN  IF upto = {} \/ w.op_number < first THEN Restrict(all, kept)
      ELSE [i \in kept \union {first} |-> IF i \in kept THEN all[i] ELSE all[Max(upto)]]

\* The oldest file a replay needs.
Oldest(runs, file) ==
  IF DOMAIN runs = {} THEN file
  ELSE LET first == runs[Min(DOMAIN runs)] IN IF first < file THEN first ELSE file

\* Whether finish sends a trim: none is out that writeahead has not answered.
Trims(j, w, file, answered) ==
  /\ Oldest(RunsAfter(j.runs, w, file), file) > j.trimmed_before
  /\ j.trimming = NoTrim \/ answered

Finished(j, w, file, answered) ==
  LET runs == RunsAfter(j.runs, w, file)
      oldest == Oldest(runs, file)
      trims == Trims(j, w, file, answered)
  IN  [runs |-> runs, last_file |-> file,
       trimmed_before |-> IF trims THEN oldest ELSE j.trimmed_before,
       trimming |-> IF trims THEN oldest ELSE IF answered THEN NoTrim ELSE j.trimming]

=============================================================================
