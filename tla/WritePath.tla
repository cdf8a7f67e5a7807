----------------------------- MODULE WritePath -----------------------------
(***************************************************************************)
(* What a replica promises about its disk, whatever messages drive it.     *)
(*                                                                         *)
(* One replica of src/lib.rs, its state machine and its disk.  The log is  *)
(* a function from op numbers, so an entry keeps its index when the prefix *)
(* before it is compacted.  Handler stands for any run of on_message or    *)
(* on_idle: every handler changes the log only through append_to_log,      *)
(* merge_log and restore_checkpoint, and commits only through              *)
(* commit_up_to.  The other actions are the owner's: it takes a write,     *)
(* hands it back, flushes the state machine, compacts, and rebuilds the    *)
(* replica after a crash or the loss of its disk.                          *)
(***************************************************************************)
EXTENDS Integers

CONSTANTS Entry,   \* the log entries a client can cause
          MaxOp    \* bound: the longest log

ASSUME WritePathAssumption == Entry # {} /\ MaxOp \in Nat

VARIABLES
  log_start,         \* the last op compacted away
  op_number,         \* the last op in the log
  log,               \* [log_start+1 .. op_number -> Entry]
  log_changed_from,  \* the lowest op changed since the last write, 0 for none
  durable,           \* the op up to which handed-back writes hold the log
  commit_number,
  applied,           \* the number of ops executed
  executed,          \* the ops the state machine executed, [1..applied -> Entry]
  recovering,
  outstanding,       \* the write that is out, or NoWrite
  disk,              \* the PersistentState that survives a crash
  flushed            \* the op the state machine's durable state holds

vars == <<log_start, op_number, log, log_changed_from, durable, commit_number,
          applied, executed, recovering, outstanding, disk, flushed>>

NoEntries == [i \in {} |-> 0]

\* No write is out.
NoWrite == [out |-> FALSE, log_start |-> 0, entries_from |-> 1, op_number |-> 0,
            entries |-> NoEntries, commit_number |-> 0, recovering |-> FALSE,
            sync |-> FALSE]

\* PersistentState::empty, with the flag for_recovery sets.
EmptyDisk(r) == [log_start |-> 0, op_number |-> 0, log |-> NoEntries,
                 commit_number |-> 0, recovering |-> r]

Lower(m, n) == IF m <= n THEN m ELSE n
Higher(m, n) == IF m <= n THEN n ELSE m

\* Mutant: the first change is kept, not the lowest.
MarkedFirst(from, n) == IF from = 0 THEN n ELSE from

\* mark_log_changed: 0 stands for no change.
Marked(from, n) == IF from = 0 THEN n ELSE Lower(from, n)

\* Mutant: changes since the last write are not subtracted.
DurableOpIgnoresChanges(d, from) == d

\* durable_op: the durable watermark less the entries changed since.
DurableOp(d, from) == IF from = 0 THEN d ELSE Lower(d, from - 1)

\* Mutant: the write does not truncate the log.
AppliedKeepsTail(d, w) ==
  LET start == Higher(d.log_start, w.log_start)
      end == Higher(d.op_number, w.op_number)
  IN  [log_start |-> start,
       op_number |-> end,
       log |-> [i \in start + 1 .. end |->
                  IF i \in w.entries_from .. w.op_number THEN w.entries[i] ELSE d.log[i]],
       commit_number |-> w.commit_number,
       recovering |-> w.recovering]

\* PersistentState::apply.
Applied(d, w) ==
  LET start == Higher(d.log_start, w.log_start)
  IN  [log_start |-> start,
       op_number |-> w.op_number,
       log |-> [i \in start + 1 .. w.op_number |->
                  IF i < w.entries_from THEN d.log[i] ELSE w.entries[i]],
       commit_number |-> w.commit_number,
       recovering |-> w.recovering]

\* The range PersistentState::apply asserts for the first entry of a write.
WriteFits(d, w) ==
  /\ Higher(d.log_start, w.log_start) < w.entries_from
  /\ w.entries_from <= Higher(d.op_number, w.log_start) + 1

-----------------------------------------------------------------------------

Init ==
  /\ log_start = 0 /\ op_number = 0 /\ log = NoEntries
  /\ log_changed_from = 0 /\ durable = 0
  /\ commit_number = 0 /\ applied = 0 /\ executed = NoEntries
  /\ recovering = FALSE
  /\ outstanding = NoWrite
  /\ disk = EmptyDisk(FALSE)
  /\ flushed = 0

\* apply_committed after commit_up_to: what is committed and durable executes.
\* base and old are the ops executed when the call starts.
Execute(base, old) ==
  /\ applied' = Higher(base, Lower(commit_number', DurableOp(durable', log_changed_from')))
  /\ executed' = [i \in 1 .. applied' |-> IF i <= base THEN old[i] ELSE log'[i]]

\* A handler that keeps the log up to keep and replaces what follows: an
\* append keeps all of it, merge_log keeps at least the committed prefix.
\* One that changes no entry, and marks none, is the case ~touched.  A
\* recovering replica touches its log only as recover_into ends the recovery.
Handler ==
  \E keep \in commit_number .. op_number, touched \in BOOLEAN :
    /\ op_number' \in keep .. MaxOp
    /\ ~touched => op_number' = op_number /\ keep = op_number
    /\ log' \in [log_start + 1 .. op_number' -> Entry]
    /\ \A i \in log_start + 1 .. keep : log'[i] = log[i]
    /\ log_changed_from' = IF touched THEN Marked(log_changed_from, keep + 1)
                                      ELSE log_changed_from
    /\ commit_number' \in commit_number .. op_number'
    /\ recovering /\ ~touched => commit_number' = commit_number
    /\ recovering' = (recovering /\ ~touched)
    /\ durable' = durable
    /\ Execute(applied, executed)
    /\ UNCHANGED <<log_start, outstanding, disk, flushed>>

\* on_new_chunk with the last chunk: restore_checkpoint beyond the commit
\* number, whose state is durable before it returns, then the entries after
\* the checkpoint.
RestoreCheckpoint ==
  \E op \in commit_number + 1 .. MaxOp :
    /\ log_start' = op
    /\ flushed' = op
    /\ op_number' \in op .. MaxOp
    /\ log' \in [op + 1 .. op_number' -> Entry]
    /\ log_changed_from' = Marked(log_changed_from, op + 1)
    /\ commit_number' \in op .. op_number'
    /\ recovering' = FALSE
    /\ durable' = durable
    /\ \E state \in [1 .. op -> Entry] : Execute(op, state)
    /\ UNCHANGED <<outstanding, disk>>

\* Mutant: the write leaves out the first changed entry.
TakeWriteSkipsOne ==
  /\ ~outstanding.out
  /\ log_changed_from \in 1 .. op_number
  /\ LET from == Higher(log_changed_from, log_start + 1) + 1
     IN  outstanding' = [out |-> TRUE, log_start |-> log_start,
                         entries_from |-> from, op_number |-> op_number,
                         entries |-> [i \in from .. op_number |-> log[i]],
                         commit_number |-> commit_number,
                         recovering |-> recovering, sync |-> TRUE]
  /\ durable' = DurableOp(durable, log_changed_from)
  /\ log_changed_from' = 0
  /\ UNCHANGED <<log_start, op_number, log, commit_number, applied, executed,
                 recovering, disk, flushed>>

\* Mutant: entries replaced since they were written still count as durable.
TakeWriteKeepsDurable ==
  /\ ~outstanding.out
  /\ log_changed_from \in 1 .. op_number
  /\ LET from == Higher(log_changed_from, log_start + 1)
     IN  outstanding' = [out |-> TRUE, log_start |-> log_start,
                         entries_from |-> from, op_number |-> op_number,
                         entries |-> [i \in from .. op_number |-> log[i]],
                         commit_number |-> commit_number,
                         recovering |-> recovering, sync |-> TRUE]
  /\ log_changed_from' = 0
  /\ UNCHANGED <<log_start, op_number, log, durable, commit_number, applied, executed,
                 recovering, disk, flushed>>

\* take_write.  A write needs a sync when an entry, the log start or the view
\* state changed since the last one; the view state is not modelled here, so
\* sync may be set without cause.
TakeWrite ==
  /\ ~outstanding.out
  /\ LET from == IF log_changed_from = 0 THEN op_number + 1
                 ELSE Higher(log_changed_from, log_start + 1)
     IN \E sync \in BOOLEAN :
          /\ (\/ log_changed_from # 0
              \/ disk.log_start # log_start
              \/ disk.recovering # recovering) => sync
          /\ outstanding' = [out |-> TRUE, log_start |-> log_start,
                             entries_from |-> from, op_number |-> op_number,
                             entries |-> [i \in from .. op_number |-> log[i]],
                             commit_number |-> commit_number,
                             recovering |-> recovering, sync |-> sync]
  /\ durable' = DurableOp(durable, log_changed_from)
  /\ log_changed_from' = 0
  /\ UNCHANGED <<log_start, op_number, log, commit_number, applied, executed,
                 recovering, disk, flushed>>

\* The disk after the owner wrote w: a write that needs no sync may be skipped.
Landed(w) == {Applied(disk, w)} \union IF w.sync THEN {} ELSE {disk}

\* The write lands and goes back to the replica with persisted.  The primary
\* may commit by counting it, and what it made durable executes.
Persisted ==
  /\ outstanding.out
  /\ disk' \in Landed(outstanding)
  /\ durable' = outstanding.op_number
  /\ outstanding' = NoWrite
  /\ commit_number' \in commit_number .. op_number
  /\ UNCHANGED <<log_start, op_number, log, log_changed_from, recovering, flushed>>
  /\ Execute(applied, executed)

\* The state machine writes its state to disk.
Flush ==
  /\ flushed' \in flushed + 1 .. applied
  /\ UNCHANGED <<log_start, op_number, log, log_changed_from, durable,
                 commit_number, applied, executed, recovering, outstanding, disk>>

\* Mutant: compaction reaches past what is flushed.
CompactApplied ==
  /\ log_start' \in log_start + 1 .. applied
  /\ log' = [i \in log_start' + 1 .. op_number |-> log[i]]
  /\ UNCHANGED <<op_number, log_changed_from, durable, commit_number, applied,
                 executed, recovering, outstanding, disk, flushed>>

\* compact, which the owner calls with an op the state machine has flushed.
Compact ==
  /\ log_start' \in log_start + 1 .. Lower(flushed, applied)
  /\ log' = [i \in log_start' + 1 .. op_number |-> log[i]]
  /\ UNCHANGED <<op_number, log_changed_from, durable, commit_number, applied,
                 executed, recovering, outstanding, disk, flushed>>

\* Mutant: the log is cut at the commit number on disk.
RestartCommitted(d, k) ==
  LET ahead == d.recovering \/ k > d.commit_number
      start == IF ahead THEN k ELSE d.log_start
      end == IF d.recovering THEN k ELSE Higher(k, d.commit_number)
  IN  /\ log_start' = start
      /\ op_number' = end
      /\ log' = [i \in start + 1 .. end |-> d.log[i]]
      /\ commit_number' = IF ahead THEN k ELSE d.commit_number
      /\ durable' = end
      /\ log_changed_from' = 0
      /\ recovering' = d.recovering

\* Replica::restart from the persistent state d with a state machine that
\* applied the first k ops.
Restart(d, k) ==
  LET start == IF d.recovering \/ k > d.commit_number THEN k ELSE d.log_start
      end == IF d.recovering THEN k ELSE Higher(k, d.op_number)
  IN  /\ log_start' = start
      /\ op_number' = end
      /\ log' = [i \in start + 1 .. end |-> d.log[i]]
      /\ commit_number' = IF d.recovering \/ k > d.commit_number
                          THEN k ELSE d.commit_number
      /\ durable' = end
      /\ log_changed_from' = 0
      /\ recovering' = d.recovering

\* A crash leaves a write that is out on disk whole or not at all, and the
\* state machine with what it flushed or something later it had applied, which
\* its owner makes durable before it rebuilds the replica.
Crash ==
  \E d \in {disk} \union (IF outstanding.out THEN Landed(outstanding) ELSE {}),
     k \in flushed .. applied :
    /\ disk' = d
    /\ flushed' = k
    /\ outstanding' = NoWrite
    /\ Restart(d, k)
    /\ Execute(k, executed)

\* The disk is lost: Replica::recover, on a disk that says it is recovering.
LoseDisk ==
  /\ log_start' = 0 /\ op_number' = 0 /\ log' = NoEntries
  /\ log_changed_from' = 0 /\ durable' = 0
  /\ commit_number' = 0 /\ applied' = 0 /\ executed' = NoEntries
  /\ recovering' = TRUE
  /\ outstanding' = NoWrite
  /\ disk' = EmptyDisk(TRUE)
  /\ flushed' = 0

Next == Handler \/ RestoreCheckpoint \/ TakeWrite \/ Persisted
        \/ Flush \/ Compact \/ Crash \/ LoseDisk

Spec == Init /\ [][Next]_vars

-----------------------------------------------------------------------------

LogOver(lo, hi) == [lo + 1 .. hi -> Entry]

\* The state machine and the disk are within the bounds their types give.
TypeOK ==
  /\ log_start \in Nat /\ op_number \in Nat /\ commit_number \in Nat
  /\ applied \in Nat /\ durable \in Nat /\ flushed \in Nat
  /\ log_changed_from \in Nat
  /\ log \in LogOver(log_start, op_number)
  /\ executed \in [1 .. applied -> Entry]
  /\ recovering \in BOOLEAN
  /\ disk.log_start \in Nat /\ disk.op_number \in Nat /\ disk.commit_number \in Nat
  /\ disk.recovering \in BOOLEAN
  /\ disk.log \in LogOver(disk.log_start, disk.op_number)
  /\ outstanding.out \in BOOLEAN /\ outstanding.sync \in BOOLEAN
  /\ outstanding.recovering \in BOOLEAN
  /\ outstanding.log_start \in Nat /\ outstanding.op_number \in Nat
  /\ outstanding.commit_number \in Nat
  /\ outstanding.entries_from \in Nat \ {0}
  /\ outstanding.entries \in [outstanding.entries_from .. outstanding.op_number -> Entry]

\* Every op a replica has executed is on its disk: in the state machine's
\* flush, or in the log with the entry it executed.  Otherwise a crash could
\* leave a state machine with an effect no log explains.
ExecutedOnDisk ==
  \A i \in flushed + 1 .. applied :
    /\ i \in disk.log_start + 1 .. disk.op_number
    /\ disk.log[i] = executed[i]

\* The watermark the primary acknowledges to itself, and execution waits for,
\* never covers an entry the disk does not hold as memory has it, even while
\* a later write is out or the log was replaced under one.
DurableIsOnDisk ==
  \A i \in log_start + 1 .. DurableOp(durable, log_changed_from) :
    /\ i \in disk.log_start + 1 .. disk.op_number
    /\ disk.log[i] = log[i]

\* Neither assertion of restart fires, whatever point the crash comes at: the
\* log on disk reaches back to what the state machine holds, and forward to
\* the commit number.
RestartAssertsHold ==
  \A d \in {disk} \union (IF outstanding.out THEN Landed(outstanding) ELSE {}),
     k \in flushed .. applied :
    ~d.recovering /\ k <= d.commit_number =>
       d.log_start <= k /\ d.commit_number <= d.op_number

\* The assertion of PersistentState::apply holds of the write that is out.
WriteAppliesToDisk == outstanding.out => WriteFits(disk, outstanding)

\* What execute indexes is in the log, and merge_log leaves the commit number
\* inside the log.
CountersOrdered ==
  /\ log_start <= flushed /\ flushed <= applied
  /\ applied <= commit_number /\ commit_number <= op_number

\* With no write out and nothing changed since, the disk holds the log memory
\* holds and no entry besides: a truncated entry cannot come back.
QuietDiskMatches ==
  ~outstanding.out /\ log_changed_from = 0 /\ disk.log_start = log_start =>
     disk.op_number = op_number /\ disk.log = log

\* A crash takes back no executed op: after the restart each is still executed
\* or waits in the log with the same entry.
CrashKeepsExecuted ==
  [][Crash => \A i \in 1 .. applied :
       \/ i <= applied' /\ executed'[i] = executed[i]
       \/ i \in log_start' + 1 .. op_number' /\ log'[i] = executed[i]]_vars

-----------------------------------------------------------------------------

\* The disk as it will be once the write that is out has landed.
Target == IF outstanding.out THEN Applied(disk, outstanding) ELSE disk

Unchanged(i) == log_changed_from = 0 \/ i < log_changed_from

\* The entries unchanged since the last write was taken are those that write,
\* and the ones before it, bring to the disk.
TargetMatches ==
  /\ \A i \in log_start + 1 .. op_number :
       Unchanged(i) => /\ i \in Target.log_start + 1 .. Target.op_number
                       /\ Target.log[i] = log[i]
  /\ log_changed_from = 0 => Target.op_number <= op_number
  /\ log_changed_from <= op_number + 1
  /\ DurableOp(durable, log_changed_from) <= op_number

\* The log explains what the state machine executed, and no handler has
\* replaced any of it since the last write was taken.
ExecutedIsLogged ==
  \A i \in log_start + 1 .. applied : executed[i] = log[i] /\ Unchanged(i)

\* Where the disk d knows more committed ops than the state machine flushed, a
\* restart executes the ones missing from d, on top of what d has before them.
Explains(d) ==
  /\ d.commit_number <= commit_number
  /\ flushed <= d.commit_number =>
       \A i \in d.log_start + 1 .. flushed : d.log[i] = executed[i]

DiskOrdered ==
  /\ disk.log_start <= log_start
  /\ disk.log_start <= disk.op_number
  /\ disk.commit_number <= disk.op_number
  /\ disk.recovering => disk.op_number = disk.log_start
  /\ recovering => op_number = log_start /\ log_changed_from = 0

OutstandingOrdered ==
  outstanding.out =>
    /\ disk.log_start <= outstanding.log_start
    /\ outstanding.log_start <= log_start
    /\ outstanding.log_start <= outstanding.op_number
    /\ outstanding.commit_number <= outstanding.op_number
    /\ outstanding.recovering => outstanding.op_number = outstanding.log_start
    /\ recovering => outstanding.recovering
    /\ log_changed_from = 0 => outstanding.op_number = op_number
    /\ outstanding.entries_from <= outstanding.op_number + 1
    /\ WriteFits(disk, outstanding)
    /\ durable < outstanding.entries_from
    /\ ~outstanding.sync => /\ outstanding.log_start = disk.log_start
                            /\ outstanding.entries_from = outstanding.op_number + 1
                            /\ outstanding.op_number = disk.op_number
                            /\ outstanding.recovering = disk.recovering

\* The inductive invariant the proofs rest on.
IInv ==
  /\ TypeOK
  /\ CountersOrdered
  /\ DiskOrdered
  /\ OutstandingOrdered
  /\ TargetMatches
  /\ DurableIsOnDisk
  /\ ExecutedIsLogged
  /\ ExecutedOnDisk
  /\ Explains(disk) /\ Explains(Target)

=============================================================================
