------------------------------- MODULE Store -------------------------------
(***************************************************************************)
(* The store of examples/kvstore/node.rs: a replica's state machine on a   *)
(* database (fjall, external), with writes kept in memory until a flush on *)
(* a thread of its own makes them durable, checkpoints kept for others, a  *)
(* checkpoint staged and restored, and what the node does with them:       *)
(* compacting the log to a flush that landed, and starting again.          *)
(*                                                                         *)
(* A key stands for a key or for a client's record, and a value is the op  *)
(* that wrote it, or Absent.  An op that removes stands for an eviction.   *)
(***************************************************************************)
EXTENDS Naturals, Sequences, FiniteSets, FiniteSetsExt, Functions

CONSTANTS Key,           \* the keys, numbers, in order
          ChunkSize,     \* CHUNK_BYTES, in keys
          LogRetention,  \* log_retention
          MaxOp,         \* bound: the ops committed
          MaxBatches,    \* bound: the batches a crash may lose
          MaxCrashes     \* bound: the crashes and power losses

ASSUME StoreAssumption ==
  /\ IsFiniteSet(Key) /\ Key \subseteq Nat
  /\ ChunkSize \in Nat \ {0}
  /\ LogRetention \in Nat /\ MaxOp \in Nat

VARIABLES
  hist,        \* the ops the cluster commits, each [key, removes]
  running,
  current, applied, dirty, flushing, kept, staged,   \* Store in memory
  restoring,   \* a restore: "no", "waits", "switched" or "synced"
  log_start,   \* of the replica
  journal_start, \* of the journal on disk
  fjall,       \* the database: what is durable, then each batch since
  ran,         \* history: the incarnation of the node's last run
  crashes

store == <<current, applied, dirty, flushing, kept, staged, restoring>>
vars == <<hist, running, store, log_start, journal_start, fjall, ran, crashes>>

Absent == 0
Higher(a, b) == IF a > b THEN a ELSE b

\* The state after the first n ops of a history.
StateAfter(h, n) ==
  [k \in Key |->
     LET i == Max({0} \union {j \in 1 .. n : h[j].key = k})
     IN  IF i = 0 \/ h[i].removes THEN Absent ELSE i]
StateAsOf(n) == StateAfter(hist, n)

NoWrites == [k \in {} |-> Absent]
Empty == [k \in Key |-> Absent]
NoFlush == [out |-> FALSE, writes |-> NoWrites]
NoneKept == [is |-> FALSE]
NotStaged == [op |-> 0, next |-> 0]

\* What data holds once writes are in it.
Overlaid(data, writes) == [k \in Key |-> IF k \in DOMAIN writes THEN writes[k] ELSE data[k]]

Visible == fjall[Len(fjall)]
Committed(db) == IF db = Visible THEN fjall ELSE Append(fjall, db)
Synced(db) == <<db>>

Init ==
  /\ hist \in [1 .. MaxOp -> [key : Key, removes : BOOLEAN]]
  /\ running = FALSE
  /\ current = 0 /\ applied = 0 /\ dirty = NoWrites /\ flushing = NoFlush
  /\ kept = NoneKept /\ staged = NotStaged /\ restoring = "no"
  /\ log_start = 0 /\ journal_start = 0
  /\ fjall = <<[data |-> [s \in 0 .. 1 |-> Empty], applied |-> 0, current |-> 0,
                incarnation |-> 0]>>
  /\ ran = 0 /\ crashes = 0

\* The event loop is not in the middle of a restore.
Idle == running /\ restoring = "no"

-----------------------------------------------------------------------------
(* Applying and reading *)

\* apply and record_client
Apply ==
  /\ Idle /\ applied < MaxOp
  /\ LET op == hist[applied + 1] IN
     dirty' = [k \in DOMAIN dirty \union {op.key} |->
                 IF k # op.key THEN dirty[k]
                 ELSE IF op.removes THEN Absent ELSE applied + 1]
  /\ applied' = applied + 1
  /\ UNCHANGED <<hist, running, current, flushing, kept, staged, restoring, log_start,
                 journal_start, fjall, ran, crashes>>

\* Mutant: reads go by what a flush is writing to what fjall holds.
GetSkipsFlush == Overlaid(Visible.data[current], dirty)

\* get and client_table, of every key
Get == Overlaid(Overlaid(Visible.data[current], flushing.writes), dirty)

-----------------------------------------------------------------------------
(* The flush *)

StartFlush ==
  /\ Idle /\ ~flushing.out
  /\ flushing' = [out |-> TRUE, writes |-> dirty, op |-> applied, data |-> current,
                  stage |-> "write"]
  /\ dirty' = NoWrites
  /\ UNCHANGED <<hist, running, current, applied, kept, staged, restoring, log_start,
                 journal_start, fjall, ran, crashes>>

\* The flush's thread: one batch, then an fsync, then the result.
FlushWrites ==
  /\ running /\ flushing.out /\ flushing.stage = "write"
  /\ fjall' = Committed([Visible EXCEPT
                !.data[flushing.data] = Overlaid(@, flushing.writes), !.applied = flushing.op])
  /\ flushing' = [flushing EXCEPT !.stage = "sync"]
  /\ UNCHANGED <<hist, running, current, applied, dirty, kept, staged, restoring, log_start,
                 journal_start, ran, crashes>>

FlushSyncs ==
  /\ running /\ flushing.out /\ flushing.stage = "sync"
  /\ fjall' = Synced(Visible)
  /\ flushing' = [flushing EXCEPT !.stage = "done"]
  /\ UNCHANGED <<hist, running, current, applied, dirty, kept, staged, restoring, log_start,
                 journal_start, ran, crashes>>

\* Replica::compact
Compacted(op) ==
  LET to == Min({op, applied} \union (IF kept.is THEN {kept.op} ELSE {}))
  IN  Higher(log_start, to)

\* Mutant: the node compacts up to what the store applied.
CompactsTo(f) == applied

\* How far the node compacts after the flush f.
CompactTo(f) == IF f.op > LogRetention THEN f.op - LogRetention ELSE 0

\* Event::Flushed
StoreFlushed ==
  /\ Idle /\ flushing.out /\ flushing.stage = "done"
  /\ flushing' = NoFlush
  /\ log_start' = Compacted(CompactTo(flushing))
  /\ UNCHANGED <<hist, running, current, applied, dirty, kept, staged, restoring,
                 journal_start, fjall, ran, crashes>>

\* A write of the replica lands.
JournalWrites ==
  /\ Idle /\ journal_start < log_start
  /\ journal_start' = log_start
  /\ UNCHANGED <<hist, running, store, log_start, fjall, ran, crashes>>

-----------------------------------------------------------------------------
(* Checkpoints *)

\* Mutant: the op of a checkpoint is the last one applied.
SnapshotApplied(db) == applied

\* The op a snapshot of the database is of.
SnapshotOp(db) == db.applied

\* checkpoint
Checkpoint ==
  /\ Idle /\ ~kept.is
  /\ kept' = [is |-> TRUE, op |-> SnapshotOp(Visible), data |-> Visible.data[current]]
  /\ UNCHANGED <<hist, running, current, applied, dirty, flushing, staged, restoring, log_start,
                 journal_start, fjall, ran, crashes>>

ReleaseCheckpoint ==
  /\ Idle /\ kept.is
  /\ kept' = NoneKept
  /\ UNCHANGED <<hist, running, current, applied, dirty, flushing, staged, restoring, log_start,
                 journal_start, fjall, ran, crashes>>

\* ChunkReader::scan: the keys of a chunk, those after the chunks before it.
ChunkKeys(data, index) ==
  LET present == {k \in Key : data[k] # Absent}
      before(k) == Cardinality({l \in present : l < k})
  IN  {k \in present : before(k) \div ChunkSize = index}

\* checkpoint_chunk, of the replica that serves the checkpoint at op.
Chunk(op, index) == Restrict(StateAsOf(op), ChunkKeys(StateAsOf(op), index))

LastChunk(op, index) == ChunkKeys(StateAsOf(op), index + 1) = {}

\* stage_chunk.  The first chunk starts a checkpoint over, whatever was staged.
\* After the last one the replica restores the checkpoint, unless it has
\* learned meanwhile that the ops up to there are committed.
StageChunk(op, index) ==
  LET staging == 1 - current
      old == IF index = 0 THEN Empty ELSE Visible.data[staging]
  IN  /\ Idle /\ op > applied /\ Len(fjall) < MaxBatches
      /\ index # 0 => op = staged.op /\ index = staged.next
      /\ staged' = [op |-> op, next |-> index + 1]
      /\ restoring' \in {"no"} \union IF LastChunk(op, index) THEN {"waits"} ELSE {}
      /\ fjall' = Committed([Visible EXCEPT !.data[staging] = Overlaid(old, Chunk(op, index))])
      /\ UNCHANGED <<hist, running, current, applied, dirty, flushing, kept, log_start,
                     journal_start, ran, crashes>>

\* Mutant: a restore does not wait for the flush that is out.
NoWaitForFlush == TRUE

\* finish_flush returns at once, or once the flush's result is there.
FlushFinished == flushing.out => flushing.stage = "done"

\* restore, up to the batch that switches the data keyspaces.
RestoreSwitches ==
  /\ running /\ restoring = "waits"
  /\ FlushFinished
  /\ kept' = NoneKept
  /\ dirty' = NoWrites
  /\ flushing' = IF flushing.out /\ flushing.stage = "done" THEN NoFlush ELSE flushing
  /\ fjall' = Committed([Visible EXCEPT !.current = 1 - current, !.applied = staged.op])
  /\ restoring' = "switched"
  /\ UNCHANGED <<hist, running, current, applied, staged, log_start, journal_start, ran, crashes>>

RestoreSyncs ==
  /\ running /\ restoring = "switched"
  /\ fjall' = Synced(Visible)
  /\ restoring' = "synced"
  /\ UNCHANGED <<hist, running, current, applied, dirty, flushing, kept, staged, log_start,
                 journal_start, ran, crashes>>

\* The old state is cleared, and the replica's log starts after the checkpoint.
RestoreClears ==
  /\ running /\ restoring = "synced"
  /\ fjall' = Committed([Visible EXCEPT !.data[current] = Empty])
  /\ current' = 1 - current
  /\ applied' = staged.op /\ log_start' = staged.op
  /\ staged' = NotStaged
  /\ restoring' = "no"
  /\ UNCHANGED <<hist, running, dirty, flushing, kept, journal_start, ran, crashes>>

-----------------------------------------------------------------------------
(* Failures and starts *)

\* The memory of a store that starts from the data keyspace c with n ops.
Blank(c, n) ==
  /\ current' = c /\ applied' = n
  /\ dirty' = NoWrites /\ flushing' = NoFlush /\ kept' = NoneKept
  /\ staged' = NotStaged /\ restoring' = "no"

\* The process dies or the power is lost: the database keeps what is durable,
\* and of the batches since a prefix.
Crash ==
  /\ running /\ crashes < MaxCrashes
  /\ crashes' = crashes + 1
  /\ running' = FALSE
  /\ \E n \in DOMAIN fjall : fjall' = SubSeq(fjall, 1, n)
  /\ Blank(0, 0) /\ log_start' = 0
  /\ UNCHANGED <<hist, journal_start, ran>>

\* Store::open, which clears the other keyspace, and next_incarnation.
Started(db) ==
  [db EXCEPT !.data[1 - db.current] = Empty, !.incarnation = @ + 1]

\* Mutant: a node starts without making what it found durable.
Persists(db) == Committed(Started(db))

\* Store::persist, as a node starts
PersistedStart(db) == Synced(Started(db))

\* Node::open_with: a store that is behind the journal's start is refused.
\* Replica::restart may drop the log the store is ahead of.
Open ==
  /\ ~running /\ Visible.applied >= journal_start
  /\ running' = TRUE
  /\ Blank(Visible.current, Visible.applied)
  /\ log_start' \in {journal_start, Visible.applied}
  /\ fjall' = PersistedStart(Visible)
  /\ ran' = Visible.incarnation + 1
  /\ UNCHANGED <<hist, journal_start, crashes>>

Next ==
  \/ Apply
  \/ StartFlush \/ FlushWrites \/ FlushSyncs \/ StoreFlushed
  \/ JournalWrites
  \/ Checkpoint \/ ReleaseCheckpoint
  \/ \E op \in 1 .. MaxOp, index \in 0 .. Cardinality(Key) - 1 : StageChunk(op, index)
  \/ RestoreSwitches \/ RestoreSyncs \/ RestoreClears
  \/ Crash \/ Open

Spec == Init /\ [][Next]_vars

-----------------------------------------------------------------------------

\* What a crash now could leave of the database.
Outcomes == {fjall[n] : n \in DOMAIN fjall}

\* A node whose store fell back to what was durable can start: the journal has
\* compacted nothing the store does not hold, after any flush, restore, crash
\* or start.
StoreOpens == \A db \in Outcomes : db.applied >= journal_start

\* What a crash leaves is the state after some number of ops, and the number
\* is the one it is stored with: no batch of a flush lands in, or counts for,
\* a checkpoint restored since.
CrashIsAPrefix == \A db \in Outcomes : db.data[db.current] = StateAsOf(db.applied)

\* Reads see every op applied and nothing else, while a flush moves the writes
\* from memory to the database under them.
ReadsSeeApplied == Idle => Get = StateAsOf(applied)

\* A checkpoint taken now, or kept since, is the state after the op it is
\* named for, and the log reaches back to it.
CheckpointIsTheState ==
  Idle => /\ kept.is => kept.data = StateAsOf(kept.op) /\ kept.op \in log_start .. applied
          /\ ~kept.is => Visible.applied \in log_start .. applied

\* No two runs of a node have the same incarnation, from which client ids and
\* recovery nonces are made.
IncarnationsIncrease == running => \A db \in Outcomes : db.incarnation >= ran

=============================================================================
