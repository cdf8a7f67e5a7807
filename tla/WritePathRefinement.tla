------------------------ MODULE WritePathRefinement ------------------------
(***************************************************************************)
(* A replica of the cluster, driven by the others' messages, with an owner *)
(* that takes and hands back writes while it steps on, implements module   *)
(* WritePath.  What WritePathProofs proves of the write path holds of each *)
(* such replica.                                                           *)
(***************************************************************************)
EXTENDS MCCluster

\* The entries a run bounded by MaxOp can log.
BoundedEntries ==
  [client : Client, session : 0 .. MaxOp, number : 0 .. MaxOp, answered : 0 .. MaxOp]

\* What WritePath keeps of the write that is out.
WriteOf(w) ==
  IF w.out
  THEN [out |-> TRUE, log_start |-> w.log_start, entries_from |-> w.entries_from,
        op_number |-> w.op_number, entries |-> w.entries,
        commit_number |-> w.commit_number, recovering |-> w.recovering, sync |-> w.sync]
  ELSE [out |-> FALSE, log_start |-> 0, entries_from |-> 1, op_number |-> 0,
        entries |-> NoEntries, commit_number |-> 0, recovering |-> FALSE, sync |-> FALSE]

\* What WritePath keeps of the disk.
DiskOf(d) ==
  [log_start |-> d.log_start, op_number |-> d.op_number, log |-> d.log,
   commit_number |-> d.commit_number, recovering |-> d.recovering]

Path(id) == INSTANCE WritePath WITH
  Entry <- BoundedEntries,
  log_start <- rep[id].log_start,
  op_number <- rep[id].op_number,
  log <- rep[id].log,
  log_changed_from <- rep[id].log_changed_from,
  durable <- rep[id].durable,
  commit_number <- rep[id].commit_number,
  applied <- rep[id].applied,
  executed <- rep[id].sm,
  recovering <- rep[id].status = "Recovering",
  outstanding <- WriteOf(rep[id].outstanding),
  disk <- DiskOf(disk[id]),
  flushed <- flushed[id]

\* Each replica that steps on, with its disk, is a write path: a handler touches
\* its log only beyond what is committed and marks what it touches, executes
\* only what is durable, and the owner's calls do what WritePath says of them.
\* (The step of a replica that persists at once is several of WritePath's.)
ImplementsWritePath ==
  /\ \A id \in SteppingOn : Path(id)!Init
  /\ [][\A id \in SteppingOn : Path(id)!Next \/ UNCHANGED Path(id)!vars]_vars

=============================================================================
