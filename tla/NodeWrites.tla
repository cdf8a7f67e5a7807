----------------------------- MODULE NodeWrites -----------------------------
(***************************************************************************)
(* How a node of examples/kvstore writes: its event loop takes the         *)
(* replica's writes, the journal's writer thread makes records of them and *)
(* deletes old files, and a process crash or a power loss ends it at any   *)
(* point.  The replica is the environment: each write may be any that its  *)
(* persistent state allows.  Writes that need no sync never reach the      *)
(* journal and are left out.                                               *)
(***************************************************************************)
EXTENDS Journal

CONSTANTS StalledWriteTicks,  \* STALLED_WRITE_TICKS
          MaxOp,              \* bound: the longest log
          MaxWrites,          \* bound: the writes of a behaviour
          MaxFile,            \* bound: the journal files
          MaxCrashes          \* bound: the process crashes and power losses

ASSUME NodeWritesAssumption == MaxOp \in Nat /\ MaxFile \in Nat

VARIABLES
  phase,        \* "down", "opening", "up", or "stopped": the loop is done
  state,        \* the PersistentState the replica's last write left
  journal,      \* Journal in memory: runs, last_file, trimmed_before, trimming
  writing,      \* the write that is out, or no write
  landing,      \* its Landing: "pending" or "ready", in a file
  events,       \* the Event::Written in the event loop's channel
  write_ticks, stopping,
  unsent,       \* whether the replica holds messages that may leave
  queue,        \* what the writer thread was sent: writes and trims
  written,      \* whether it wrote the record at the head of queue, not synced
  answered,     \* whether it answered the trim that is out
  wal,          \* the records, each with the state it left (history)
  synced,       \* how many of them are synced
  trimmed,      \* the files before this one are, or are about to be, deleted
  handed,       \* history: the last write handed back to a replica
  crashes

process == <<phase, state, journal, writing, landing, events, write_ticks, stopping, unsent>>
writer == <<queue, written, answered>>
files == <<wal, synced, trimmed>>
vars == <<process, writer, files, handed, crashes>>

NoWrite == [out |-> FALSE]
Out(w) == [out |-> TRUE, write |-> w]
NotLanded == [ready |-> FALSE, file |-> 0]
LandedIn(file) == [ready |-> TRUE, file |-> file]

ToWrite(w) == [type |-> "write", write |-> w]
ToTrim(before) == [type |-> "trim", before |-> before]

Fresh(j) ==
  /\ journal' = j
  /\ landing' = NotLanded /\ events' = 0 /\ write_ticks' = 0
  /\ stopping' = FALSE /\ unsent' = FALSE
  /\ written' = FALSE /\ answered' = FALSE

Init ==
  /\ phase = "down" /\ state = Blank /\ journal = Opened(NothingRead)
  /\ writing = NoWrite /\ landing = NotLanded /\ events = 0 /\ write_ticks = 0
  /\ stopping = FALSE /\ unsent = FALSE
  /\ queue = <<>> /\ written = FALSE /\ answered = FALSE
  /\ wal = <<>> /\ synced = 0 /\ trimmed = 0
  /\ handed = 0 /\ crashes = 0

-----------------------------------------------------------------------------
(* Node::open_with *)

\* The replay, and the replica's first write, which goes to the journal
\* whether it needs a sync or not.
Open ==
  /\ phase = "down"
  /\ LET read == Read(wal) IN
     /\ ~Lacks(read)
     /\ Fresh(Opened(read))
     /\ state' = StateOf(read)
     /\ \E w \in FirstWritesOf(StateOf(read), MaxOp) :
          /\ w.counters <= MaxWrites
          /\ writing' = Out(w)
          /\ queue' = <<ToWrite(w)>>
  /\ phase' = "opening"
  /\ UNCHANGED <<files, handed, crashes>>

\* The write that is out comes back: finish, then persisted.
ComesBack ==
  LET w == writing.write IN
  /\ journal' = Finished(journal, w, landing.file, answered)
  /\ answered' = FALSE
  /\ state' = After(state, w) /\ handed' = w.counters
  /\ write_ticks' = 0

TrimsSent ==
  IF Trims(journal, writing.write, landing.file, answered)
  THEN <<ToTrim(Oldest(RunsAfter(journal.runs, writing.write, landing.file), landing.file))>>
  ELSE <<>>

\* The node waits for its first write, and starts its loop.
Opens ==
  /\ phase = "opening" /\ landing.ready
  /\ ComesBack
  /\ queue' = queue \o TrimsSent
  /\ phase' = "up" /\ writing' = NoWrite /\ landing' = NotLanded /\ events' = 0
  /\ UNCHANGED <<stopping, unsent, written, files, crashes>>

-----------------------------------------------------------------------------
(* The writer thread of the writeahead crate (external).  It takes writes  *)
(* and trims in order; a record lands in the last file or a new one, and   *)
(* wakes the event loop once it is synced.                                 *)

NextFiles ==
  LET last == IF wal = <<>> THEN 1 ELSE wal[Len(wal)].file
  IN  last .. Lower(last + 1, MaxFile)

RecordOf(s, w, file) == [file |-> file, write |-> w, left |-> After(s, w)]

WriterWrites ==
  /\ queue # <<>> /\ queue[1].type = "write" /\ ~written
  /\ \E file \in NextFiles : wal' = Append(wal, RecordOf(state, queue[1].write, file))
  /\ written' = TRUE
  /\ UNCHANGED <<process, queue, answered, synced, trimmed, handed, crashes>>

WriterSyncs ==
  /\ written
  /\ synced' = Len(wal)
  /\ written' = FALSE /\ queue' = Tail(queue)
  /\ landing' = LandedIn(wal[Len(wal)].file)
  /\ events' = events + 1
  /\ UNCHANGED <<phase, state, journal, writing, write_ticks, stopping, unsent,
                 answered, wal, trimmed, handed, crashes>>

\* Deletes files, oldest first or not.
WriterTrims ==
  /\ queue # <<>> /\ queue[1].type = "trim"
  /\ trimmed' = Later(trimmed, queue[1].before)
  /\ queue' = Tail(queue) /\ answered' = TRUE
  /\ UNCHANGED <<process, written, wal, synced, handed, crashes>>

-----------------------------------------------------------------------------
(* Node::write_out.  The writer may be done, or not, by the first poll.    *)

Submitted(sends, w, q) ==
  /\ landing' = NotLanded
  /\ queue' = q \o <<ToWrite(w)>>
  /\ events' = sends
  /\ UNCHANGED <<written, files>>

ReadyAtOnce(w, q) ==
  \E file \in NextFiles :
    /\ landing' = LandedIn(file)
    /\ wal' = Append(wal, RecordOf(state', w, file)) /\ synced' = Len(wal) + 1
    /\ trimmed' = Max({trimmed} \union {q[i].before : i \in DOMAIN q})
    /\ queue' = <<>> /\ UNCHANGED written

\* Mutant: a write that is ready at the first poll posts no event.
WriteOutNoEvent(w, q, left) ==
  \/ Submitted(left, w, q)
  \/ ReadyAtOnce(w, q) /\ events' = left

\* Takes the write w with left events in the channel and q in the writer's
\* queue; posts an event for a write that is ready at once.
WriteOut(w, q, left) ==
  \/ Submitted(left, w, q)
  \/ ReadyAtOnce(w, q) /\ events' = left + 1

NoWriteOut(q, left) ==
  /\ events' = left /\ queue' = q
  /\ UNCHANGED <<written, files>>

-----------------------------------------------------------------------------
(* Node::batch, with k Event::Written, t ticks, and whether there is an    *)
(* Event::Stop and whether a message makes the replica produce some.       *)

\* Mutant: the stall of a write is looked at before whether it landed.
LandsUnlessStalled(k) ==
  k > 0 /\ writing.out /\ landing.ready /\ write_ticks < StalledWriteTicks

Lands(k) == k > 0 /\ writing.out /\ landing.ready

\* Node::landed
Landed(k) ==
  IF Lands(k) THEN ComesBack
  ELSE UNCHANGED <<journal, answered, state, handed>>

\* The part of Node::deliver about the write: unless one is out, it takes the
\* replica's, if there is one to take.
Takes(k, q, left) ==
  \/ /\ \E w \in WritesOf(state', MaxOp) :
          /\ Fits(state', w) /\ w.counters <= MaxWrites
          /\ writing' = Out(w) /\ WriteOut(w, q, left)
  \/ /\ writing' = NoWrite /\ landing' = NotLanded
     /\ NoWriteOut(q, left)

Batch(k, t, stop, message) ==
  LET still == writing.out /\ ~Lands(k)
      ticks == IF writing.out THEN Lower(write_ticks + t, StalledWriteTicks) ELSE write_ticks
      stalled == still /\ ticks >= StalledWriteTicks
      q == IF Lands(k) THEN queue \o TrimsSent ELSE queue
      left == events - k
      produced == unsent \/ message
  IN  /\ phase = "up"
      /\ Landed(k)
      /\ IF Lands(k) THEN TRUE ELSE write_ticks' = ticks
      /\ stopping' = (stopping \/ stop)
      /\ phase' = IF stopping' /\ ~still THEN "stopped" ELSE "up"
      /\ unsent' = IF stopping' \/ stalled THEN produced ELSE FALSE
      /\ IF still \/ stopping'
         THEN /\ writing' = IF still THEN writing ELSE NoWrite
              /\ landing' = IF still THEN landing ELSE NotLanded
              /\ NoWriteOut(q, left)
         ELSE Takes(k, q, left)
      /\ UNCHANGED crashes

\* The loop takes every event in its channel.
Wakes == events > 0 /\ Batch(events, 0, FALSE, FALSE)

Steps == \E k \in 0 .. events, t \in 0 .. 1, stop, message \in BOOLEAN : Batch(k, t, stop, message)

\* The process ends once the writer thread is done.
Exit ==
  /\ phase = "stopped" /\ queue = <<>>
  /\ phase' = "down"
  /\ UNCHANGED <<state, journal, writing, landing, events, write_ticks, stopping, unsent,
                 writer, files, handed, crashes>>

-----------------------------------------------------------------------------
(* Failures.  Records are checksummed: one is there whole or not at all.   *)

\* What is left of a journal when its first n records are, and the files in
\* gone are deleted.
Left(records, n, gone) ==
  LET left[i \in 0 .. n] ==
        IF i = 0 THEN <<>>
        ELSE IF records[i].file \in gone THEN left[i - 1] ELSE Append(left[i - 1], records[i])
  IN  left[n]

\* The files whose deletion may have happened.
MayBeGone == SUBSET {f \in 1 .. MaxFile : f < trimmed}

\* A process crash, which the page cache outlives, or a power loss, which may
\* take what is not synced.
Fail ==
  \E n \in synced .. Len(wal), gone \in MayBeGone :
    /\ phase # "down" /\ crashes < MaxCrashes
    /\ crashes' = crashes + 1
    /\ wal' = Left(wal, n, gone)
    /\ synced' = Len(Left(wal, synced, gone))
    /\ trimmed' = 0
    /\ phase' = "down" /\ Fresh(Opened(NothingRead)) /\ state' = Blank
    /\ writing' = NoWrite /\ queue' = <<>>
    /\ UNCHANGED handed

Next == \/ Open \/ Opens \/ Wakes \/ Steps \/ Exit
        \/ WriterWrites \/ WriterSyncs \/ WriterTrims
        \/ Fail

\* The writer thread goes on, and the event loop takes what is in its channel.
Fairness == /\ WF_vars(WriterWrites) /\ WF_vars(WriterSyncs) /\ WF_vars(WriterTrims)
            /\ WF_vars(Wakes) /\ WF_vars(Opens)

FairSpec == Init /\ [][Next]_vars /\ Fairness

-----------------------------------------------------------------------------

\* Whatever a crash or a power loss leaves, at any point of a write, a start or
\* a trim, replays to exactly the state of one write, the last one handed back
\* or one after it.
CrashKeepsHanded ==
  \A n \in synced .. Len(wal), gone \in MayBeGone :
    LET left == Left(wal, n, gone)
        read == Read(left)
    IN  /\ ~Lacks(read)
        /\ read.header.counters >= handed
        /\ left # <<>> => StateOf(read) = left[Len(left)].left

\* A write that went out comes back, or the node fails.
WritesComeBack == writing.out ~> ~writing.out

\* What the replica produced leaves, though a stalled write holds it back, or
\* the node fails or stops.
MessagesLeave == unsent ~> (~unsent \/ stopping)

=============================================================================
