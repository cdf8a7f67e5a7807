--------------------------- MODULE ClusterProofs ---------------------------
(* What a replica promises in a message is on its disk, and no message,    *)
(* crash or lost disk takes it back to an earlier view: proved of clusters *)
(* of every size, with every owner, however many views, crashes and        *)
(* messages there are.                                                     *)
(*                                                                         *)
(* A handler is a composition of the operators of module Replica.  Follows *)
(* says what any of them may do to a replica; it is transitive, so each    *)
(* operator is looked at once.  IInv relates the replica, the write that   *)
(* is out, the disk and the messages.                                      *)
(*                                                                         *)
(* The second half has the histories that module AgreementProofs argues    *)
(* over, and what the handlers of normal operation make of them.           *)
EXTENDS Cluster, ReplicaFacts

-----------------------------------------------------------------------------
(* What a replica, a message and a disk hold *)

SegmentOK(s) == s.start \in Nat /\ s.end \in Nat

\* A log with the commit number it comes with.
StateOK(s) == SegmentOK(s.segment) /\ s.commit_number \in Nat

DvcOK(d) == StateOK(d) /\ d.replica_id \in ReplicaID /\ d.last_normal_view \in Nat

Votes == {"StartViewChange", "DoViewChange", "StartView"}

MessageOK(m) ==
  /\ m.type \in EarlyTypes \union Votes \union {"PrepareOk", "Recovery", "RecoveryResponse"}
  /\ m.type \notin {"GetChunk", "NewChunk"} => m.view_number \in Nat
  /\ m.type \in {"PrepareOk", "GetState", "NewState", "GetChunk", "NewChunk",
                 "StartViewChange", "Recovery", "RecoveryResponse"} =>
       m.replica_id \in ReplicaID
  /\ m.type \in {"Prepare", "PrepareOk", "GetState", "GetChunk", "NewChunk"} =>
       m.op_number \in Nat
  /\ m.type \in {"Prepare", "Commit"} => m.commit_number \in Nat
  /\ m.type \in {"NewState", "StartView"} => StateOK(m)
  /\ m.type = "DoViewChange" => DvcOK(m.dvc)
  /\ m.type \in {"Recovery", "RecoveryResponse"} => m.nonce \in Nat
  /\ m.type = "RecoveryResponse" /\ m.state.is => StateOK(m.state)

\* A message on its way.
Addressed(e) == e[1] \in ReplicaID /\ MessageOK(e[2])

FetchFields == {"on", "from", "index", "stalled", "then"}

FetchOK(f) ==
  f.on => /\ DOMAIN f = FetchFields /\ f.from \in ReplicaID
          /\ StateOK(f.then) /\ f.then.view_number \in Nat

WriteOK(w) ==
  w.out =>
    /\ w.view_number \in Nat /\ w.last_normal_view \in Nat /\ w.commit_number \in Nat
    /\ w.log_start \in Nat /\ w.op_number \in Nat /\ w.entries_from \in Nat
    /\ w.last_normal_view <= w.view_number
    /\ w.entries_from <= w.op_number + 1

\* The numbers of a replica, and their order.
NumbersOK(r) ==
  /\ r.view_number \in Nat /\ r.last_normal_view \in Nat
  /\ r.last_normal_view <= r.view_number
  /\ r.commit_number \in Nat /\ r.applied \in Nat /\ r.log_start \in Nat
  /\ r.op_number \in Nat /\ r.log_changed_from \in Nat /\ r.durable \in Nat
  /\ r.log_start <= r.applied /\ r.applied <= r.commit_number /\ r.applied <= r.op_number
  /\ r.log_changed_from <= r.op_number + 1
  /\ r.recovery_nonce \in Nat
  /\ r.acked \in [ReplicaID -> Nat]
  /\ r.serving \in Nat \union {Nobody}

\* What a replica has received and not yet used.
ReceivedOK(r) ==
  /\ r.catching_up \in ReplicaID \union {Nobody}
  /\ IsFiniteSet(r.do_view_change_from)
  /\ \A d \in r.do_view_change_from : DvcOK(d)
  /\ IsFiniteSet(r.recovery_responses)
  /\ \A q \in r.recovery_responses : q.view_number \in Nat /\ (q.state.is => StateOK(q.state))
  /\ FetchOK(r.fetch)

\* What it has to send.
OutboxesOK(r) ==
  /\ \A e \in r.early : Addressed(e) /\ e[2].type \in EarlyTypes
  /\ \A e \in r.outbox \union r.outbox_waiting \union r.outbox_ready : Addressed(e)

ReplicaOK(r) ==
  /\ DOMAIN r = Fields
  /\ r.id \in ReplicaID /\ r.status \in Status
  /\ NumbersOK(r) /\ ReceivedOK(r) /\ OutboxesOK(r)

\* How the status goes with the views and with a fetch.
Placed(r) ==
  /\ r.status = "ViewChange" => r.last_normal_view < r.view_number
  /\ r.status \in {"Normal", "StateTransfer"} => r.last_normal_view = r.view_number
  /\ r.status = "StateTransfer" => ~IsPrimary(r)
  /\ r.status = "Recovering" => MaxLosses # 0
  /\ r.fetch.on =>
       /\ r.status # "Normal"
       /\ r.status = "Recovering" => /\ r.fetch.then.type = "RecoveryResponse"
                                     /\ r.fetch.then.view_number >= r.view_number
       /\ r.status # "Recovering" => /\ r.fetch.then.type = "NewState"
                                     /\ r.fetch.then.view_number = r.view_number
       /\ r.status = "StateTransfer" => r.fetch.then.segment.end >= r.op_number

DiskOK(d) ==
  /\ d.view_number \in Nat /\ d.last_normal_view \in Nat /\ d.commit_number \in Nat
  /\ d.log_start \in Nat /\ d.op_number \in Nat
  /\ d.last_normal_view <= d.view_number
  /\ d.log_start <= d.op_number
  /\ d.recovering => MaxLosses # 0

-----------------------------------------------------------------------------
(* Promises *)

IsPromise(m) == m.type = "PrepareOk" \/ m.type \in Votes

\* Who is bound by a promise.
Signer(m) ==
  CASE m.type = "DoViewChange" -> m.dvc.replica_id
    [] m.type = "StartView" -> PrimaryOf(m.view_number)
    [] OTHER -> m.replica_id

\* Whether a state of view v, last normal in l, or recovering, with a log up to
\* op o keeps the promise m.  The log a replica acknowledged is one that a
\* replica which lost its disk, or is to start a later view, may have to do
\* without.
Keeps(v, l, recovering, o, m) ==
  /\ v >= m.view_number
  /\ m.type = "PrepareOk" =>
       /\ ~recovering => l >= m.view_number
       /\ MaxLosses = 0 /\ l = m.view_number /\ ~Elected(m.replica_id, l, v) =>
            o >= m.op_number

KeepsNow(r, m) ==
  Keeps(r.view_number, r.last_normal_view, r.status = "Recovering", r.op_number, m)

KeepsOnDisk(d, m) ==
  Keeps(d.view_number, d.last_normal_view, d.recovering, d.op_number, m)

\* m is a promise of r's that r keeps, or no promise.
Signed(r, m) == IsPromise(m) => Signer(m) = r.id /\ KeepsNow(r, m)

-----------------------------------------------------------------------------
(* The inductive invariant *)

\* What memory knows of the disk: written is what the last write taken holds,
\* and nothing has changed in the log since while log_changed_from is 0.
WrittenInv(r, d) ==
  LET w == r.outstanding
      last == IF w.out THEN w ELSE d
  IN  /\ w.out => r.written.is
      /\ w.out /\ ~w.sync => /\ d.view_number = w.view_number
                             /\ d.last_normal_view = w.last_normal_view
                             /\ d.recovering = w.recovering
                             /\ MaxLosses = 0 => d.op_number = w.op_number
      /\ r.written.is =>
           /\ r.written.view_number = last.view_number
           /\ r.written.last_normal_view = last.last_normal_view
           /\ r.written.recovering = last.recovering
           /\ r.written.log_start \in Nat
           /\ MaxLosses = 0 /\ r.log_changed_from = 0 =>
                r.op_number = last.op_number \/ r.log_start > r.written.log_start

\* No later state is in an earlier view: the disk, the write that is out, memory.
ViewsInv(r, d) ==
  /\ d.view_number <= r.view_number
  /\ r.outstanding.out => /\ d.view_number <= r.outstanding.view_number
                          /\ r.outstanding.view_number <= r.view_number

\* What waits for a write is kept by it, and what waits to be taken by memory.
WaitingInv(r) ==
  r.ok =>
    /\ \A e \in r.outbox : Signed(r, e[2])
    /\ \A e \in r.outbox_waiting : /\ r.outstanding.out
                                   /\ Signed(r, e[2])
                                   /\ IsPromise(e[2]) => KeepsOnDisk(r.outstanding, e[2])

\* A promise that left is kept by all three.
SentInv(r, d, m) ==
  IsPromise(m) /\ Signer(m) = r.id =>
    /\ KeepsOnDisk(d, m)
    /\ r.outstanding.out => KeepsOnDisk(r.outstanding, m)
    /\ r.ok => KeepsNow(r, m)

ReplicaInv(r, d) ==
  /\ ReplicaOK(r) /\ WriteOK(r.outstanding) /\ DiskOK(d)
  /\ r.outstanding.out /\ r.outstanding.recovering => MaxLosses # 0
  /\ r.ok => Placed(r)
  /\ WrittenInv(r, d) /\ ViewsInv(r, d) /\ WaitingInv(r)

IInv ==
  /\ DOMAIN rep = ReplicaID /\ DOMAIN disk = ReplicaID /\ DOMAIN flushed = ReplicaID
  /\ losses \in Nat
  /\ \A e \in msgs : Addressed(e)
  /\ \A id \in ReplicaID :
       /\ rep[id].id = id /\ flushed[id] \in Nat
       /\ rep[id].outbox_ready = {}
       /\ ReplicaInv(rep[id], disk[id])
       /\ rep[id].ok /\ id \notin SteppingOn => ~rep[id].outstanding.out
       /\ \A e \in msgs : SentInv(rep[id], disk[id], e[2])

-----------------------------------------------------------------------------
(* The fields an operator leaves alone *)

ApplyFields == {"applied", "sm", "replies", "reply_ops", "queries", "ok"}
CommitFields == ApplyFields \union {"commit_number"}

\* execute_queries touches the queries and the replies.
LEMMA ExecuteQueriesFrame ==
  ASSUME NEW r, DOMAIN r = Fields
  PROVE  SameBut(r, ExecuteQueries(r), {"queries", "replies"})
  BY DEF SameBut, ExecuteQueries, Fields

\* apply_committed counts what it executes, which is in the log and committed.
LEMMA ApplyCommittedFrame ==
  ASSUME NEW r, DOMAIN r = Fields, NumbersOK(r), NEW op \in Nat
  PROVE  LET s == ApplyCommitted(r, op) IN
         /\ SameBut(r, s, ApplyFields)
         /\ s.applied \in Nat /\ r.applied <= s.applied
         /\ s.applied <= s.commit_number /\ s.applied <= s.op_number
<1> DEFINE upto == Higher(r.applied, Lower(r.commit_number, op))
           ran == r.applied + 1 .. upto
           sm == [i \in 1 .. upto |-> IF i <= r.applied THEN r.sm[i] ELSE r.log[i]]
           mid == [r EXCEPT
                     !.applied = upto,
                     !.sm = sm,
                     !.replies = @ \union {ReplyTo(ClientTable(sm, i - 1), i, sm[i]) :
                                             i \in ran \intersect r.reply_ops},
                     !.reply_ops = @ \ (1 .. upto),
                     !.ok = @ /\ \A i \in ran : InOrder(ClientTable(sm, i - 1), sm[i])]
           s == ApplyCommitted(r, op)
<1>1. upto \in Nat /\ r.applied <= upto /\ upto <= r.commit_number
  BY DEF NumbersOK, Higher, Lower
<1>2. CASE ~ (ran \subseteq r.log_start + 1 .. r.op_number)
  <2>1. s = Fail(r)
    BY <1>2 DEF ApplyCommitted
  <2>2. SameBut(r, s, {"ok"})
    BY <2>1 DEF Fail, SameBut, Fields
  <2> QED
    BY <2>2 DEF SameBut, ApplyFields, CommitFields, Fields, NumbersOK
<1>3. CASE ran \subseteq r.log_start + 1 .. r.op_number
  <2>1. s = ExecuteQueries(mid)
    BY <1>3 DEF ApplyCommitted
  <2>2. upto <= r.op_number
    <3>1. CASE upto = r.applied
      BY <3>1 DEF NumbersOK
    <3>2. CASE upto # r.applied
      <4>1. upto \in ran
        BY <1>1, <3>2 DEF NumbersOK
      <4> QED
        BY <1>3, <4>1
    <3> QED
      BY <3>1, <3>2
  <2> HIDE DEF upto, sm, ran
  <2>3. SameBut(r, mid, {"applied", "sm", "replies", "reply_ops", "ok"}) /\ mid.applied = upto
    BY DEF SameBut, Fields
  <2> HIDE DEF mid
  <2>4. SameBut(mid, s, {"queries", "replies"})
    BY <2>1, <2>3, ExecuteQueriesFrame DEF SameBut
  <2> HIDE DEF s
  <2>5. SameBut(r, s, ApplyFields) /\ s.applied = upto
    BY <2>3, <2>4 DEF SameBut, ApplyFields, CommitFields, Fields
  <2>6. s.commit_number = r.commit_number /\ s.op_number = r.op_number
    BY <2>5 DEF SameBut, ApplyFields, Fields
  <2> QED
    BY <1>1, <2>2, <2>5, <2>6 DEF s, NumbersOK
<1> QED
  BY <1>2, <1>3

\* durable_op is a number.
LEMMA DurableOpType ==
  ASSUME NEW r, NumbersOK(r)
  PROVE  DurableOp(r) \in Nat
  BY DEF NumbersOK, DurableOp, Lower

\* commit_up_to touches what executing does and the commit number.
LEMMA CommitUpToFrame ==
  ASSUME NEW r, DOMAIN r = Fields, NumbersOK(r), NEW commit \in Nat, NEW reply
  PROVE  LET s == CommitUpTo(r, commit, reply) IN
         /\ SameBut(r, s, CommitFields)
         /\ NumbersOK(s) /\ r.applied <= s.applied
<1> DEFINE mid == [r EXCEPT !.commit_number = commit,
                           !.reply_ops = @ \union IF reply THEN r.commit_number + 1 .. commit
                                                            ELSE {}]
           s == CommitUpTo(r, commit, reply)
<1>1. CASE commit <= r.commit_number
  BY <1>1 DEF CommitUpTo, SameBut, NumbersOK
<1>2. CASE ~ (commit <= r.commit_number)
  <2>1. s = ApplyCommitted(mid, DurableOp(r))
    BY <1>2 DEF CommitUpTo
  <2>2. SameBut(r, mid, {"commit_number", "reply_ops"}) /\ mid.commit_number = commit
    BY DEF SameBut, Fields
  <2> HIDE DEF mid
  <2>3. NumbersOK(mid) /\ DOMAIN mid = Fields
    BY <1>2, <2>2 DEF NumbersOK, SameBut, Fields
  <2>4. /\ SameBut(mid, s, ApplyFields)
        /\ s.applied \in Nat /\ mid.applied <= s.applied
        /\ s.applied <= s.commit_number /\ s.applied <= s.op_number
    BY <2>1, <2>3, DurableOpType, ApplyCommittedFrame
  <2> HIDE DEF s
  <2>5. SameBut(r, s, CommitFields)
    BY <2>2, <2>4 DEF SameBut, ApplyFields, CommitFields, Fields
  <2>6. SameBut(mid, s, ApplyFields) => 
          s.commit_number = commit /\ s.log_start = r.log_start /\ mid.applied = r.applied
    BY <2>2 DEF SameBut, ApplyFields, CommitFields, Fields
  <2>7. NumbersOK(s)
    BY <2>3, <2>4, <2>5, <2>6 DEF SameBut, ApplyFields, CommitFields, Fields, NumbersOK
  <2> QED
    BY <2>4, <2>5, <2>6, <2>7 DEF s
<1> QED
  BY <1>1, <1>2

LogFields == {"op_number", "log", "log_changed_from"}

\* append_to_log: one more entry, marked as changed.
LEMMA AppendToLogFrame ==
  ASSUME NEW r, DOMAIN r = Fields, NumbersOK(r), NEW entry
  PROVE  LET s == AppendToLog(r, entry) IN
         /\ SameBut(r, s, LogFields)
         /\ NumbersOK(s) /\ s.op_number = r.op_number + 1 /\ s.log_changed_from # 0
<1> DEFINE s == AppendToLog(r, entry)
<1>1. SameBut(r, s, LogFields)
  BY DEF AppendToLog, MarkLogChanged, SameBut, Fields, LogFields
<1>2. s.op_number = r.op_number + 1
  BY DEF AppendToLog, MarkLogChanged, Fields
<1>3. s.log_changed_from = IF r.log_changed_from = 0 THEN r.op_number + 1
                           ELSE Lower(r.log_changed_from, r.op_number + 1)
  BY DEF AppendToLog, MarkLogChanged, Fields
<1> HIDE DEF s
<1>4. /\ s.log_changed_from \in Nat /\ s.log_changed_from # 0
      /\ s.log_changed_from <= s.op_number + 1
  BY <1>2, <1>3 DEF NumbersOK, Lower
<1>5. NumbersOK(s)
  BY <1>1, <1>2, <1>4 DEF SameBut, Fields, LogFields, NumbersOK
<1> QED
  BY <1>1, <1>2, <1>4, <1>5 DEF s

\* merge_log: the log reaches as far as the segment, and no less far than what
\* is committed.
LEMMA MergeLogFrame ==
  ASSUME NEW r, DOMAIN r = Fields, NumbersOK(r), NEW segment, SegmentOK(segment)
  PROVE  LET s == MergeLog(r, segment) IN
         \/ s = Fail(r) /\ Higher(segment.start, r.commit_number) > r.op_number
         \/ /\ SameBut(r, s, LogFields)
            /\ NumbersOK(s) /\ s.op_number >= segment.end /\ s.log_changed_from # 0
<1> DEFINE s == MergeLog(r, segment)
           keep == Higher(segment.start, r.commit_number)
           end == Higher(keep, segment.end)
<1>1. CASE keep > r.op_number
  BY <1>1 DEF MergeLog
<1>2. CASE ~ (keep > r.op_number)
  <2> DEFINE mid == [r EXCEPT !.op_number = end,
                       !.log = [i \in r.log_start + 1 .. end |->
                                  IF i <= keep THEN r.log[i] ELSE segment.entries[i]]]
  <2>1. s = MarkLogChanged(mid, keep + 1)
    BY <1>2 DEF MergeLog
  <2>2. /\ keep \in Nat /\ end \in Nat /\ end >= segment.end /\ keep <= end
        /\ r.commit_number <= keep
    BY DEF Higher, NumbersOK, SegmentOK
  <2> HIDE DEF keep, end
  <2>3. SameBut(r, mid, {"op_number", "log"}) /\ mid.op_number = end
    BY DEF SameBut, Fields
  <2> HIDE DEF mid
  <2>4. /\ SameBut(mid, s, {"log_changed_from"})
        /\ s.log_changed_from = IF mid.log_changed_from = 0 THEN keep + 1
                                ELSE Lower(mid.log_changed_from, keep + 1)
    BY <2>1, <2>3 DEF MarkLogChanged, SameBut, Fields
  <2> HIDE DEF s
  <2>5. SameBut(r, s, LogFields) /\ s.op_number = end
    BY <2>3, <2>4 DEF SameBut, Fields, LogFields
  <2>6. mid.log_changed_from = r.log_changed_from
    BY <2>3 DEF SameBut, Fields
  <2>7. /\ s.log_changed_from \in Nat /\ s.log_changed_from # 0
        /\ s.log_changed_from <= s.op_number + 1
    BY <2>2, <2>4, <2>5, <2>6 DEF NumbersOK, Lower
  <2>8. s.applied = r.applied /\ s.commit_number = r.commit_number
    BY <2>5 DEF SameBut, Fields, LogFields
  <2>9. s.applied <= s.op_number /\ s.op_number \in Nat
    BY <2>2, <2>5, <2>8 DEF NumbersOK
  <2>10. NumbersOK(s)
    BY <2>5, <2>7, <2>8, <2>9 DEF SameBut, Fields, LogFields, NumbersOK
  <2> QED
    BY <2>2, <2>5, <2>7, <2>10 DEF s
<1> QED
  BY <1>1, <1>2

RestoreFields == LogFields \union {"serving", "commit_number", "applied", "sm", "reply_ops",
                                   "log_start"}

\* restore_checkpoint at an op that is not committed: everything up to it is
\* executed, and nothing follows it.
LEMMA RestoreCheckpointFrame ==
  ASSUME NEW r, DOMAIN r = Fields, NumbersOK(r), NEW op \in Nat, op > r.commit_number, NEW chunk
  PROVE  LET s == RestoreCheckpoint(r, op, chunk) IN
         /\ SameBut(r, s, RestoreFields)
         /\ NumbersOK(s) /\ s.op_number = op /\ s.commit_number = op /\ s.log_start = op
         /\ s.log_changed_from # 0
<1> DEFINE s == RestoreCheckpoint(r, op, chunk)
           mid == [r EXCEPT !.serving = Nobody, !.commit_number = op, !.applied = op,
                     !.sm = chunk, !.reply_ops = {}, !.log_start = op,
                     !.op_number = op, !.log = NoEntries]
<1>1. s = MarkLogChanged(mid, op + 1)
  BY DEF RestoreCheckpoint, NumbersOK
<1>2. /\ SameBut(r, mid, RestoreFields \ {"log_changed_from"})
      /\ mid.op_number = op /\ mid.commit_number = op /\ mid.log_start = op /\ mid.applied = op
      /\ mid.serving = Nobody
  BY DEF SameBut, Fields, RestoreFields, LogFields
<1> HIDE DEF mid
<1>3. /\ SameBut(mid, s, {"log_changed_from"})
      /\ s.log_changed_from = IF mid.log_changed_from = 0 THEN op + 1
                              ELSE Lower(mid.log_changed_from, op + 1)
  BY <1>1, <1>2 DEF MarkLogChanged, SameBut, Fields
<1> HIDE DEF s
<1>4. /\ SameBut(r, s, RestoreFields) /\ mid.log_changed_from = r.log_changed_from
      /\ s.op_number = op /\ s.commit_number = op /\ s.log_start = op /\ s.applied = op
      /\ s.serving = Nobody
  BY <1>2, <1>3 DEF SameBut, Fields, RestoreFields, LogFields
<1>5. /\ s.log_changed_from \in Nat /\ s.log_changed_from # 0
      /\ s.log_changed_from <= s.op_number + 1
  BY <1>3, <1>4 DEF NumbersOK, Lower
<1>6. NumbersOK(s)
  BY <1>4, <1>5 DEF SameBut, Fields, RestoreFields, LogFields, NumbersOK
<1> QED
  BY <1>4, <1>5, <1>6 DEF s

-----------------------------------------------------------------------------
(* Quorums and choices among messages *)

\* A replica's number is one of the cluster's.
LEMMA PrimaryIsReplica ==
  ASSUME NEW v \in Nat
  PROVE  PrimaryOf(v) \in ReplicaID
  BY ConfigAssumption DEF PrimaryOf, ReplicaID

\* No quorum is empty.
LEMMA QuorumNotEmpty ==
  ASSUME NEW S, IsFiniteSet(S), Cardinality(S) >= Quorum
  PROVE  S # {}
<1>1. Quorum \in Nat /\ Quorum > 0
  BY ConfigAssumption DEF Quorum
<1> QED
  BY <1>1, FS_EmptySet

\* Both kinds of message a replica collects have numbers of which one is the
\* greatest.
LEMMA GreatestCommit ==
  ASSUME NEW S, IsFiniteSet(S), S # {}, \A d \in S : d.commit_number \in Nat
  PROVE  Max({d.commit_number : d \in S}) \in Nat
<1> DEFINE T == {d.commit_number : d \in S}
           f == [d \in S |-> d.commit_number]
<1>1. f \in Surjection(S, T)
  BY DEF Surjection
<1>2. T \in SUBSET Nat /\ T # {}
  OBVIOUS
<1> HIDE DEF f, T
<1>3. IsFiniteSet(T)
  BY <1>1, FS_Surjection
<1>4. Max(T) \in T
  BY <1>2, <1>3, FiniteMax
<1> QED
  BY <1>2, <1>4 DEF T

LEMMA GreatestView ==
  ASSUME NEW S, IsFiniteSet(S), S # {}, \A q \in S : q.view_number \in Nat
  PROVE  Max({q.view_number : q \in S}) \in Nat
<1> DEFINE T == {q.view_number : q \in S}
           f == [q \in S |-> q.view_number]
<1>1. f \in Surjection(S, T)
  BY DEF Surjection
<1>2. T \in SUBSET Nat /\ T # {}
  OBVIOUS
<1> HIDE DEF f, T
<1>3. IsFiniteSet(T)
  BY <1>1, FS_Surjection
<1>4. Max(T) \in T
  BY <1>2, <1>3, FiniteMax
<1> QED
  BY <1>2, <1>4 DEF T

\* Among finitely many messages one has the greatest value of f.
LEMMA GreatestExists ==
  ASSUME NEW S, IsFiniteSet(S), S # {}, NEW f \in [S -> Nat]
  PROVE  \E d \in S : \A e \in S : f[d] >= f[e]
<1> DEFINE T == {f[d] : d \in S}
<1>1. f \in Surjection(S, T)
  BY DEF Surjection
<1>2. T \in SUBSET Nat /\ T # {}
  OBVIOUS
<1>3. \A d \in S : f[d] \in T
  OBVIOUS
<1>4. \A t \in T : \E d \in S : f[d] = t
  OBVIOUS
<1> HIDE DEF T
<1>5. IsFiniteSet(T)
  BY <1>1, FS_Surjection
<1>6. Max(T) \in T /\ \A n \in T : n <= Max(T)
  BY <1>2, <1>5, FiniteMax
<1>7. PICK d \in S : f[d] = Max(T)
  BY <1>4, <1>6
<1>8. \A e \in S : f[d] >= f[e]
  BY <1>2, <1>3, <1>6, <1>7
<1> QED
  BY <1>8

\* The DoViewChange a view starts with is one of those received.
LEMMA BestIsOne ==
  ASSUME NEW S, IsFiniteSet(S), S # {}, \A d \in S : DvcOK(d)
  PROVE  Best(S) \in S
<1>1. \A d \in S : /\ d.last_normal_view \in Nat /\ d.segment.end \in Nat
                   /\ d.replica_id \in Nat
  BY ConfigAssumption DEF DvcOK, StateOK, SegmentOK, ReplicaID
<1> DEFINE v == [d \in S |-> d.last_normal_view]
<1>2. PICK a \in S : \A e \in S : v[a] >= v[e]
  <2>1. v \in [S -> Nat]
    BY <1>1
  <2> HIDE DEF v
  <2> QED
    BY <2>1, GreatestExists
<1> DEFINE S2 == {d \in S : d.last_normal_view = a.last_normal_view}
           n == [d \in S2 |-> d.segment.end]
<1>3. PICK b \in S2 : \A e \in S2 : n[b] >= n[e]
  <2>1. n \in [S2 -> Nat]
    BY <1>1
  <2>2. IsFiniteSet(S2) /\ S2 # {}
    BY FS_Subset
  <2> HIDE DEF n, S2
  <2> QED
    BY <2>1, <2>2, GreatestExists
<1> DEFINE S3 == {d \in S2 : d.segment.end = b.segment.end}
           i == [d \in S3 |-> d.replica_id]
<1>4. PICK c \in S3 : \A e \in S3 : i[c] >= i[e]
  <2>1. i \in [S3 -> Nat]
    BY <1>1
  <2>2. IsFiniteSet(S3) /\ S3 # {}
    BY FS_Subset
  <2> HIDE DEF i, S3
  <2> QED
    BY <2>1, <2>2, GreatestExists
<1>5. \A e \in S :
        \/ c.last_normal_view > e.last_normal_view
        \/ /\ c.last_normal_view = e.last_normal_view
           /\ \/ c.segment.end > e.segment.end
              \/ c.segment.end = e.segment.end /\ c.replica_id >= e.replica_id
  <2> SUFFICES ASSUME NEW e \in S
               PROVE  \/ c.last_normal_view > e.last_normal_view
                      \/ /\ c.last_normal_view = e.last_normal_view
                         /\ \/ c.segment.end > e.segment.end
                            \/ c.segment.end = e.segment.end /\ c.replica_id >= e.replica_id
    OBVIOUS
  <2>1. a.last_normal_view >= e.last_normal_view /\ c.last_normal_view = a.last_normal_view
    BY <1>2
  <2>2. e \in S2 => c.segment.end >= e.segment.end
    BY <1>3
  <2>3. e \in S3 => c.replica_id >= e.replica_id
    BY <1>4
  <2> QED
    BY <1>1, <2>1, <2>2, <2>3
<1>6. c \in S
  OBVIOUS
<1> QED
  BY <1>5, <1>6, Zenon DEF Best

-----------------------------------------------------------------------------
(* What an operator may do to a replica *)

\* s is not before r: in no earlier view, last normal in no earlier one, and
\* while that is the same, with no shorter log unless it is to start a view.  A
\* recovery ends in a view no earlier than the one it started with.
Grows(r, s) ==
  /\ r.view_number <= s.view_number
  /\ s.status = "Recovering" => r.status = "Recovering"
  /\ r.status # "Recovering" =>
       /\ r.last_normal_view <= s.last_normal_view
       /\ r.last_normal_view = s.last_normal_view =>
            r.op_number <= s.op_number \/ Elected(r.id, r.last_normal_view, s.view_number)
  /\ r.status = "Recovering" /\ s.status # "Recovering" => r.view_number <= s.last_normal_view

Ready(r) == ReplicaOK(r) /\ Placed(r)

\* A handler leaves the owner's side alone, marks what it changes in the log,
\* and sends only promises that it keeps.
Follows(r, s) ==
  /\ Ready(s) /\ s.id = r.id
  /\ Grows(r, s)
  /\ s.outstanding = r.outstanding /\ s.written = r.written
  /\ s.outbox_waiting = r.outbox_waiting /\ s.outbox_ready = r.outbox_ready
  /\ s.log_changed_from = 0 => r.log_changed_from = 0 /\ s.op_number = r.op_number
  /\ r.log_start <= s.log_start
  /\ \A e \in s.outbox : e \in r.outbox \/ Signed(s, e[2])

\* A replica that was to start a view was so in later views too.
LEMMA ElectedStays ==
  ASSUME NEW id, NEW l \in Nat, NEW v \in Nat, NEW w \in Nat, v <= w, Elected(id, l, v)
  PROVE  Elected(id, l, w)
<1>1. l + 1 .. v \subseteq l + 1 .. w
  OBVIOUS
<1> QED
  BY <1>1 DEF Elected

\* A later state keeps the promises of an earlier one.
LEMMA GrowsKeeps ==
  ASSUME NEW r, NEW s, Ready(r), Ready(s), Grows(r, s), s.id = r.id,
         NEW m, MessageOK(m), Signed(r, m)
  PROVE  Signed(s, m)
<1> SUFFICES ASSUME IsPromise(m) PROVE Signer(m) = s.id /\ KeepsNow(s, m)
  BY DEF Signed
<1>1. Signer(m) = s.id
  BY DEF Signed
<1>2. m.view_number \in Nat /\ (m.type = "PrepareOk" => m.op_number \in Nat)
  BY DEF MessageOK, IsPromise, Votes
<1>3. KeepsNow(r, m)
  BY DEF Signed
<1>4. s.view_number >= m.view_number
  BY <1>2, <1>3 DEF KeepsNow, Keeps, Grows, Ready, ReplicaOK, NumbersOK
<1>5. ASSUME m.type = "PrepareOk"
      PROVE  /\ s.status # "Recovering" => s.last_normal_view >= m.view_number
             /\ MaxLosses = 0 /\ s.last_normal_view = m.view_number
                  /\ ~Elected(m.replica_id, s.last_normal_view, s.view_number) =>
                  s.op_number >= m.op_number
  <2>1. r.view_number >= m.view_number
    BY <1>3 DEF KeepsNow, Keeps
  <2>2. r.status # "Recovering" => r.last_normal_view >= m.view_number
    BY <1>3, <1>5 DEF KeepsNow, Keeps
  <2>3. /\ MaxLosses = 0 /\ r.last_normal_view = m.view_number
             /\ ~Elected(m.replica_id, r.last_normal_view, r.view_number) =>
             r.op_number >= m.op_number
    BY <1>3, <1>5 DEF KeepsNow, Keeps
  <2>4. MaxLosses = 0 => r.status # "Recovering"
    BY DEF Ready, Placed
  <2>5. m.replica_id = r.id
    BY <1>1, <1>5 DEF Signer
  <2>6. Elected(r.id, r.last_normal_view, r.view_number) =>
          Elected(r.id, r.last_normal_view, s.view_number)
    BY ElectedStays DEF Grows, Ready, ReplicaOK, NumbersOK
  <2>7. s.status # "Recovering" => s.last_normal_view >= m.view_number
    BY <1>2, <2>1, <2>2 DEF Grows, Ready, ReplicaOK, NumbersOK
  <2>8. ASSUME MaxLosses = 0, s.last_normal_view = m.view_number,
               ~Elected(m.replica_id, s.last_normal_view, s.view_number)
        PROVE  s.op_number >= m.op_number
    <3>1. r.last_normal_view = s.last_normal_view
      BY <1>2, <2>2, <2>4, <2>8 DEF Grows, Ready, ReplicaOK, NumbersOK
    <3>2. ~Elected(r.id, r.last_normal_view, s.view_number)
      BY <2>5, <2>8, <3>1
    <3>3. r.op_number <= s.op_number
      BY <2>4, <2>8, <3>1, <3>2 DEF Grows
    <3>4. r.op_number >= m.op_number
      BY <2>3, <2>5, <2>6, <2>8, <3>1, <3>2
    <3> QED
      BY <1>2, <1>5, <3>3, <3>4 DEF Ready, ReplicaOK, NumbersOK
  <2> QED
    BY <2>7, <2>8
<1> QED
  BY <1>1, <1>4, <1>5 DEF KeepsNow, Keeps

LEMMA FollowsSelf ==
  ASSUME NEW r, Ready(r)
  PROVE  Follows(r, r)
  BY DEF Follows, Grows, Ready, ReplicaOK, NumbersOK

LEMMA FollowsThrough ==
  ASSUME NEW r, NEW s, NEW t, Ready(r), Follows(r, s), Follows(s, t)
  PROVE  Follows(r, t)
<1>1. Grows(r, t)
  <2>1. Elected(r.id, s.last_normal_view, s.view_number) =>
          Elected(r.id, s.last_normal_view, t.view_number)
    BY ElectedStays DEF Follows, Grows, Ready, ReplicaOK, NumbersOK
  <2> QED
    BY <2>1 DEF Follows, Grows, Ready, ReplicaOK, NumbersOK
<1>2. ASSUME NEW e \in t.outbox, e \notin r.outbox PROVE Signed(t, e[2])
  <2>1. CASE e \notin s.outbox
    BY <2>1 DEF Follows
  <2>2. CASE e \in s.outbox
    <3>1. Signed(s, e[2]) /\ MessageOK(e[2])
      BY <1>2, <2>2 DEF Follows, Ready, ReplicaOK, OutboxesOK, Addressed
    <3> QED
      BY <3>1, GrowsKeeps DEF Follows
  <2> QED
    BY <2>1, <2>2
<1> QED
  BY <1>1, <1>2 DEF Follows, Ready, ReplicaOK, NumbersOK

\* The fields that Follows says nothing of but that their numbers are in order.
QuietFields ==
  CommitFields \union {"acked", "view_start_op", "round", "round_confirmed", "confirmed",
                       "round_unsent", "start_view_change_from", "do_view_change_sent",
                       "serving", "log"}

LEMMA QuietFollows ==
  ASSUME NEW r, NEW s, Ready(r), SameBut(r, s, QuietFields), NumbersOK(s)
  PROVE  Follows(r, s)
<1>1. /\ DOMAIN s = Fields /\ s.id = r.id /\ s.status = r.status
      /\ s.view_number = r.view_number /\ s.last_normal_view = r.last_normal_view
      /\ s.log_start = r.log_start /\ s.op_number = r.op_number
      /\ s.log_changed_from = r.log_changed_from
      /\ s.written = r.written /\ s.outstanding = r.outstanding
      /\ s.catching_up = r.catching_up /\ s.do_view_change_from = r.do_view_change_from
      /\ s.recovery_responses = r.recovery_responses /\ s.fetch = r.fetch
      /\ s.early = r.early /\ s.outbox = r.outbox /\ s.outbox_waiting = r.outbox_waiting
      /\ s.outbox_ready = r.outbox_ready
  BY DEF SameBut, QuietFields, CommitFields, ApplyFields, Fields
<1>2. Ready(s)
  BY <1>1 DEF Ready, ReplicaOK, ReceivedOK, OutboxesOK, Placed, IsPrimary
<1> QED
  BY <1>1, <1>2 DEF Follows, Grows, Ready, ReplicaOK, NumbersOK

\* send_to_others and the like: what must wait for a write is a promise kept.
LEMMA SendToFollows ==
  ASSUME NEW r, Ready(r), NEW S, \A q \in S : q \in ReplicaID,
         NEW m, MessageOK(m), m.type \in EarlyTypes \/ Signed(r, m)
  PROVE  Follows(r, SendTo(r, S, m))
<1> DEFINE s == SendTo(r, S, m)
<1>1. \A e \in S \X {m} : Addressed(e) /\ e[2] = m
  BY DEF Addressed
<1>2. CASE m.type \in EarlyTypes
  <2>1. SameBut(r, s, {"early"}) /\ s.early = r.early \union (S \X {m})
    BY <1>2 DEF SendTo, SameBut, Fields, Ready, ReplicaOK
  <2> HIDE DEF s
  <2>2. OutboxesOK(s)
    BY <1>1, <1>2, <2>1 DEF OutboxesOK, SameBut, Fields, Ready, ReplicaOK
  <2>3. NumbersOK(s) /\ ReceivedOK(s) /\ Placed(s)
    BY <2>1 DEF NumbersOK, ReceivedOK, Placed, IsPrimary, SameBut, Fields, Ready, ReplicaOK
  <2>4. Ready(s)
    BY <2>1, <2>2, <2>3 DEF SameBut, Fields, Ready, ReplicaOK
  <2> QED
    BY <2>1, <2>4 DEF s, Follows, Grows, SameBut, Fields, Ready, ReplicaOK, NumbersOK
<1>3. CASE m.type \notin EarlyTypes
  <2>1. SameBut(r, s, {"outbox"}) /\ s.outbox = r.outbox \union (S \X {m})
    BY <1>3 DEF SendTo, SameBut, Fields, Ready, ReplicaOK
  <2> HIDE DEF s
  <2>2. OutboxesOK(s)
    BY <1>1, <2>1 DEF OutboxesOK, SameBut, Fields, Ready, ReplicaOK
  <2>3. NumbersOK(s) /\ ReceivedOK(s) /\ Placed(s)
    BY <2>1 DEF NumbersOK, ReceivedOK, Placed, IsPrimary, SameBut, Fields, Ready, ReplicaOK
  <2>4. Ready(s)
    BY <2>1, <2>2, <2>3 DEF SameBut, Fields, Ready, ReplicaOK
  <2>5. Signed(s, m)
    BY <1>3, <2>1 DEF Signed, KeepsNow, SameBut, Fields
  <2>6. \A e \in s.outbox : e \in r.outbox \/ Signed(s, e[2])
    BY <1>1, <2>1, <2>5
  <2> QED
    BY <2>1, <2>4, <2>6 DEF s, Follows, Grows, SameBut, Fields, Ready, ReplicaOK, NumbersOK
<1> QED
  BY <1>2, <1>3

LEMMA SendFollows ==
  ASSUME NEW r, Ready(r), NEW to \in ReplicaID,
         NEW m, MessageOK(m), m.type \in EarlyTypes \/ Signed(r, m)
  PROVE  Follows(r, Send(r, to, m))
<1>1. {<<to, m>>} = {to} \X {m}
  OBVIOUS
<1>2. Send(r, to, m) = SendTo(r, {to}, m)
  BY <1>1, Zenon DEF Send, SendTo
<1>3. \A q \in {to} : q \in ReplicaID
  OBVIOUS
<1> QED
  BY <1>2, <1>3, SendToFollows

LEMMA SendToOthersFollows ==
  ASSUME NEW r, Ready(r), NEW m, MessageOK(m), m.type \in EarlyTypes \/ Signed(r, m)
  PROVE  Follows(r, SendToOthers(r, m))
<1>1. \A q \in Others(r.id) : q \in ReplicaID
  BY DEF Others
<1> QED
  BY <1>1, SendToFollows DEF SendToOthers

\* A replica acknowledges its log in the view it is normal in.
LEMMA SendPrepareOkFollows ==
  ASSUME NEW r, Ready(r), r.last_normal_view = r.view_number
  PROVE  Follows(r, SendPrepareOk(r))
<1> DEFINE primary == PrimaryOf(r.view_number)
           m == [type |-> "PrepareOk", view_number |-> r.view_number,
                 op_number |-> r.op_number, replica_id |-> r.id]
           superseded == {e \in r.outbox : /\ e[1] = primary /\ e[2].type = "PrepareOk"
                                           /\ e[2].view_number = r.view_number}
           s == [r EXCEPT !.outbox = @ \ superseded]
<1>1. SendPrepareOk(r) = Send(s, primary, m)
  BY DEF SendPrepareOk
<1>2. SameBut(r, s, {"outbox"}) /\ \A e \in s.outbox : e \in r.outbox
  BY DEF SameBut, Fields, Ready, ReplicaOK
<1> HIDE DEF s
<1>3. NumbersOK(s) /\ ReceivedOK(s) /\ Placed(s)
  BY <1>2 DEF NumbersOK, ReceivedOK, Placed, IsPrimary, SameBut, Fields, Ready, ReplicaOK
<1>4. OutboxesOK(s)
  BY <1>2 DEF OutboxesOK, SameBut, Fields, Ready, ReplicaOK
<1>5. Follows(r, s)
  BY <1>2, <1>3, <1>4 DEF Follows, Grows, SameBut, Fields, Ready, ReplicaOK, NumbersOK
<1>6. primary \in ReplicaID
  BY PrimaryIsReplica DEF Ready, ReplicaOK, NumbersOK
<1>7. MessageOK(m)
  BY DEF MessageOK, Votes, EarlyTypes, Ready, ReplicaOK, NumbersOK
<1>8. Signed(s, m)
  <2>1. /\ s.id = r.id /\ s.view_number = r.view_number /\ s.op_number = r.op_number
        /\ s.last_normal_view = r.view_number
    BY <1>2 DEF SameBut, Fields
  <2> QED
    BY <2>1 DEF Signed, Signer, KeepsNow, Keeps, Ready, ReplicaOK, NumbersOK
<1> HIDE DEF m, primary
<1>9. Follows(s, Send(s, primary, m))
  BY <1>5, <1>6, <1>7, <1>8, SendFollows DEF Follows
<1> QED
  BY <1>1, <1>5, <1>9, FollowsThrough

LEMMA SendGetStateToFollows ==
  ASSUME NEW r, Ready(r), NEW to \in ReplicaID, NEW op \in Nat
  PROVE  Follows(r, SendGetStateTo(r, to, op))
<1> DEFINE m == [type |-> "GetState", replica_id |-> r.id,
                 view_number |-> r.view_number, op_number |-> op]
<1>1. MessageOK(m) /\ m.type \in EarlyTypes
  BY DEF MessageOK, Votes, EarlyTypes, Ready, ReplicaOK, NumbersOK
<1> HIDE DEF m
<1>2. Follows(r, Send(r, to, m))
  BY <1>1, SendFollows
<1> QED
  BY <1>2 DEF SendGetStateTo, m

-----------------------------------------------------------------------------
(* Normal operation *)

LEMMA CommitUpToFollows ==
  ASSUME NEW r, Ready(r), NEW commit \in Nat, NEW reply
  PROVE  LET s == CommitUpTo(r, commit, reply) IN
         Follows(r, s) /\ SameBut(r, s, CommitFields)
<1> DEFINE s == CommitUpTo(r, commit, reply)
<1>1. SameBut(r, s, CommitFields) /\ NumbersOK(s)
  BY CommitUpToFrame DEF Ready, ReplicaOK
<1> HIDE DEF s
<1>2. SameBut(r, s, QuietFields)
  BY <1>1 DEF SameBut, QuietFields
<1> QED
  BY <1>1, <1>2, QuietFollows DEF s

LEMMA ExecuteQueriesFollows ==
  ASSUME NEW r, Ready(r)
  PROVE  Follows(r, ExecuteQueries(r))
<1> DEFINE s == ExecuteQueries(r)
<1>1. SameBut(r, s, {"queries", "replies"})
  BY ExecuteQueriesFrame DEF Ready, ReplicaOK
<1> HIDE DEF s
<1>2. SameBut(r, s, QuietFields) /\ NumbersOK(s)
  BY <1>1 DEF SameBut, QuietFields, CommitFields, ApplyFields, Fields, NumbersOK, Ready, ReplicaOK
<1> QED
  BY <1>2, QuietFollows DEF s

\* A log grows by an entry in normal status.
LEMMA AppendToLogFollows ==
  ASSUME NEW r, Ready(r), r.status = "Normal", NEW entry
  PROVE  LET s == AppendToLog(r, entry) IN
         Follows(r, s) /\ SameBut(r, s, LogFields) /\ s.op_number = r.op_number + 1
<1> DEFINE s == AppendToLog(r, entry)
<1>1. /\ SameBut(r, s, LogFields)
      /\ NumbersOK(s) /\ s.op_number = r.op_number + 1 /\ s.log_changed_from # 0
  BY AppendToLogFrame DEF Ready, ReplicaOK
<1> HIDE DEF s
<1>2. ReceivedOK(s) /\ OutboxesOK(s) /\ Placed(s)
  BY <1>1 DEF SameBut, LogFields, Fields, Ready, ReplicaOK, ReceivedOK, OutboxesOK, Placed, IsPrimary
<1>3. Ready(s)
  BY <1>1, <1>2 DEF SameBut, LogFields, Fields, Ready, ReplicaOK
<1> QED
  BY <1>1, <1>3 DEF s, Follows, Grows, SameBut, LogFields, Fields, Ready, ReplicaOK, NumbersOK

LEMMA PrepareFollows ==
  ASSUME NEW r, Ready(r), r.status = "Normal", NEW entry
  PROVE  Follows(r, Prepare(r, entry))
<1> DEFINE s == AppendToLog(r, entry)
           m == [type |-> "Prepare", view_number |-> s.view_number,
                 op_number |-> s.op_number, entry |-> entry,
                 commit_number |-> s.commit_number]
<1>1. Follows(r, s)
  BY AppendToLogFollows
<1> HIDE DEF s
<1>2. MessageOK(m) /\ m.type \in EarlyTypes
  BY <1>1 DEF MessageOK, Votes, EarlyTypes, Follows, Ready, ReplicaOK, NumbersOK
<1> HIDE DEF m
<1>3. Follows(s, SendToOthers(s, m))
  BY <1>1, <1>2, SendToOthersFollows DEF Follows
<1>4. Follows(r, SendToOthers(s, m))
  BY <1>1, <1>3, FollowsThrough
<1> QED
  BY <1>4 DEF Prepare, s, m

\* Replies alone.
LEMMA RepliesFollow ==
  ASSUME NEW r, Ready(r), NEW new
  PROVE  Follows(r, [r EXCEPT !.replies = @ \union new])
<1> DEFINE s == [r EXCEPT !.replies = @ \union new]
<1>1. SameBut(r, s, {"replies"})
  BY DEF SameBut, Fields, Ready, ReplicaOK
<1> HIDE DEF s
<1>2. SameBut(r, s, QuietFields) /\ NumbersOK(s)
  BY <1>1 DEF SameBut, QuietFields, CommitFields, ApplyFields, Fields, NumbersOK, Ready, ReplicaOK
<1> QED
  BY <1>2, QuietFollows DEF s

LEMMA OnRegisterFollows ==
  ASSUME NEW r, Ready(r), NEW c
  PROVE  Follows(r, OnRegister(r, c))
<1> DEFINE s == OnRegister(r, c)
           record == ClientTable(r.sm, r.applied)[c]
           reply == {[type |-> "Registered", client |-> c, session |-> record.session,
                      number |-> 0, result |-> 0]}
<1>1. \/ s = r
      \/ s = [r EXCEPT !.replies = @ \union reply]
      \/ Serves(r) /\ s = Prepare(r, Registration(c))
  BY Zenon DEF OnRegister
<1> HIDE DEF s, reply
<1>2. CASE s = r
  BY <1>2, FollowsSelf DEF s
<1>3. CASE s = [r EXCEPT !.replies = @ \union reply]
  BY <1>3, RepliesFollow DEF s
<1>4. CASE Serves(r) /\ s = Prepare(r, Registration(c))
  BY <1>4, PrepareFollows DEF s, Serves
<1> QED
  BY <1>1, <1>2, <1>3, <1>4

LEMMA OnRequestFollows ==
  ASSUME NEW r, Ready(r), NEW c, NEW session, NEW number, NEW answered
  PROVE  Follows(r, OnRequest(r, c, session, number, answered))
<1> DEFINE s == OnRequest(r, c, session, number, answered)
           record == ClientTable(r.sm, r.applied)[c]
           place == Len(record.replies) - (record.number - number)
           evicted == {[type |-> "Evicted", client |-> c, session |-> session,
                        number |-> 0, result |-> 0]}
           again == {[type |-> "Executed", client |-> c, session |-> session,
                      number |-> number, result |-> record.replies[place]]}
<1>1. \/ s = r
      \/ s = [r EXCEPT !.replies = @ \union evicted]
      \/ s = [r EXCEPT !.replies = @ \union again]
      \/ Serves(r) /\ s = Prepare(r, Request(c, session, number, answered))
  BY Zenon DEF OnRequest
<1> HIDE DEF s, evicted, again
<1>2. CASE s = r
  BY <1>2, FollowsSelf DEF s
<1>3. CASE s = [r EXCEPT !.replies = @ \union evicted]
  BY <1>3, RepliesFollow DEF s
<1>4. CASE s = [r EXCEPT !.replies = @ \union again]
  BY <1>4, RepliesFollow DEF s
<1>5. CASE Serves(r) /\ s = Prepare(r, Request(c, session, number, answered))
  BY <1>5, PrepareFollows DEF s, Serves
<1> QED
  BY <1>1, <1>2, <1>3, <1>4, <1>5

\* What changes only fields that say nothing of the log, the views and the disk.
LEMMA QuietStep ==
  ASSUME NEW r, Ready(r), NEW s, NEW changed, SameBut(r, s, changed),
         changed \subseteq QuietFields \ {"commit_number", "applied", "acked", "serving"}
  PROVE  Follows(r, s)
<1>1. SameBut(r, s, QuietFields)
  BY DEF SameBut
<1>2. /\ s.view_number = r.view_number /\ s.last_normal_view = r.last_normal_view
      /\ s.commit_number = r.commit_number /\ s.applied = r.applied
      /\ s.log_start = r.log_start /\ s.op_number = r.op_number
      /\ s.log_changed_from = r.log_changed_from /\ s.durable = r.durable
      /\ s.recovery_nonce = r.recovery_nonce /\ s.acked = r.acked /\ s.serving = r.serving
  BY DEF SameBut, QuietFields, CommitFields, ApplyFields, Fields
<1>3. NumbersOK(s)
  BY <1>2 DEF NumbersOK, Ready, ReplicaOK
<1> QED
  BY <1>1, <1>3, QuietFollows

RoundFields == {"round", "round_unsent", "confirmed"}

LEMMA StartRoundFollows ==
  ASSUME NEW r, Ready(r)
  PROVE  Follows(r, StartRound(r))
<1> DEFINE s == [r EXCEPT !.round = @ + 1, !.round_unsent = TRUE,
                         !.confirmed = [@ EXCEPT ![r.id] = r.round + 1]]
           m == [type |-> "ConfirmView", view_number |-> r.view_number, round |-> r.round + 1]
<1>1. SameBut(r, s, RoundFields)
  BY DEF SameBut, Fields, RoundFields, Ready, ReplicaOK
<1> HIDE DEF s
<1>2. Follows(r, s)
  BY <1>1, QuietStep DEF RoundFields, QuietFields, CommitFields, ApplyFields
<1>3. MessageOK(m) /\ m.type \in EarlyTypes
  BY DEF MessageOK, EarlyTypes, Votes, Ready, ReplicaOK, NumbersOK
<1> HIDE DEF m
<1>4. Follows(s, SendToOthers(s, m))
  BY <1>2, <1>3, SendToOthersFollows DEF Follows
<1>5. Follows(r, SendToOthers(s, m))
  BY <1>2, <1>4, FollowsThrough
<1> QED
  BY <1>5 DEF StartRound, s, m

LEMMA OnQueryFollows ==
  ASSUME NEW r, Ready(r), NEW c, NEW number
  PROVE  Follows(r, OnQuery(r, c, number))
<1> DEFINE s == OnQuery(r, c, number)
           query == [client |-> c, number |-> number, round |-> RoundFor(r),
                     op_number |-> Higher(r.commit_number, r.view_start_op)]
<1>1. PICK t \in {r, StartRound(r)} : s = r \/ s = [t EXCEPT !.queries = Append(@, query)]
  BY Zenon DEF OnQuery
<1>2. Follows(r, t)
  BY <1>1, FollowsSelf, StartRoundFollows
<1> HIDE DEF s
<1>3. CASE s = r
  BY <1>3, FollowsSelf DEF s
<1>4. CASE s = [t EXCEPT !.queries = Append(@, query)]
  <2> HIDE DEF query
  <2>1. SameBut(t, s, {"queries"})
    BY <1>2, <1>4 DEF SameBut, Fields, Follows, Ready, ReplicaOK
  <2>2. Follows(t, s)
    BY <1>2, <2>1, QuietStep DEF QuietFields, CommitFields, ApplyFields, Follows
  <2> QED
    BY <1>2, <2>2, FollowsThrough DEF s
<1> QED
  BY <1>1, <1>3, <1>4

LEMMA OnConfirmViewFollows ==
  ASSUME NEW r, Ready(r), NEW m
  PROVE  Follows(r, OnConfirmView(r, m))
<1> DEFINE s == OnConfirmView(r, m)
           ok == [type |-> "ConfirmViewOk", view_number |-> m.view_number, round |-> m.round,
                  replica_id |-> r.id]
<1>1. \/ s = r
      \/ m.view_number = r.view_number /\ s = Send(r, PrimaryOf(r.view_number), ok)
  BY Zenon DEF OnConfirmView
<1>2. PrimaryOf(r.view_number) \in ReplicaID
  BY PrimaryIsReplica DEF Ready, ReplicaOK, NumbersOK
<1>3. m.view_number = r.view_number => MessageOK(ok) /\ ok.type \in EarlyTypes
  BY DEF MessageOK, EarlyTypes, Votes, Ready, ReplicaOK, NumbersOK
<1> HIDE DEF s, ok
<1> QED
  BY <1>1, <1>2, <1>3, FollowsSelf, SendFollows DEF s

LEMMA OnConfirmViewOkFollows ==
  ASSUME NEW r, Ready(r), NEW m
  PROVE  Follows(r, OnConfirmViewOk(r, m))
<1> DEFINE z == OnConfirmViewOk(r, m)
           confirmed == [r.confirmed EXCEPT ![m.replica_id] = m.round]
           reached == Max({0} \union
                          {n \in {confirmed[q] : q \in ReplicaID} :
                             Cardinality({q \in ReplicaID : confirmed[q] >= n}) >= Quorum})
           s == [r EXCEPT !.confirmed = confirmed]
           t == [s EXCEPT !.round_confirmed = reached]
<1>1. z = r \/ z = s \/ z = ExecuteQueries(StartRound(t)) \/ z = ExecuteQueries(t)
  BY Zenon DEF OnConfirmViewOk
<1> HIDE DEF z, reached, confirmed
<1>2. SameBut(r, s, {"confirmed"})
  BY DEF SameBut, Fields, Ready, ReplicaOK
<1>3. Follows(r, s)
  BY <1>2, QuietStep DEF QuietFields, CommitFields, ApplyFields
<1> HIDE DEF s
<1>4. SameBut(s, t, {"round_confirmed"})
  BY <1>2 DEF SameBut, Fields
<1>5. Follows(s, t)
  BY <1>3, <1>4, QuietStep DEF QuietFields, CommitFields, ApplyFields, Follows
<1>6. Follows(r, t)
  BY <1>3, <1>5, FollowsThrough
<1> HIDE DEF t
<1>7. Follows(r, StartRound(t))
  BY <1>6, StartRoundFollows, FollowsThrough DEF Follows
<1>8. Follows(r, ExecuteQueries(t))
  BY <1>6, ExecuteQueriesFollows, FollowsThrough DEF Follows
<1>9. Follows(r, ExecuteQueries(StartRound(t)))
  BY <1>7, ExecuteQueriesFollows, FollowsThrough DEF Follows
<1> QED
  BY <1>1, <1>3, <1>8, <1>9, FollowsSelf DEF z

\* The op a quorum of marks reach is a number.
LEMMA ReachedIsNumber ==
  ASSUME NEW f \in [ReplicaID -> Nat], NEW S, S \subseteq {f[q] : q \in ReplicaID}
  PROVE  Max(S \union {0}) \in Nat
<1> DEFINE T == {f[q] : q \in ReplicaID}
<1>1. IsFiniteSet(ReplicaID)
  BY ConfigAssumption, FS_Interval DEF ReplicaID
<1>2. f \in Surjection(ReplicaID, T)
  BY DEF Surjection
<1>3. T \in SUBSET Nat
  OBVIOUS
<1>4. IsFiniteSet(T)
  BY <1>1, <1>2, FS_Surjection
<1> HIDE DEF T
<1>5. IsFiniteSet(S)
  BY <1>4, FS_Subset DEF T
<1>6. IsFiniteSet(S \union {0})
  BY <1>5, FS_AddElement
<1>7. S \union {0} \in SUBSET Nat /\ S \union {0} # {}
  BY <1>3 DEF T
<1> QED
  BY <1>6, <1>7, FiniteMax

LEMMA RegisterAckFollows ==
  ASSUME NEW r, Ready(r), NEW id \in ReplicaID, NEW op \in Nat
  PROVE  Follows(r, RegisterAck(r, id, op)) /\ SameBut(r, RegisterAck(r, id, op), CommitFields \union {"acked"})
<1> DEFINE z == RegisterAck(r, id, op)
           mark == Lower(op, r.op_number)
           acked == [r.acked EXCEPT ![id] = mark]
           reached == {a \in {acked[q] : q \in ReplicaID} :
                         Cardinality({q \in ReplicaID : acked[q] >= a}) >= Quorum}
           s == [r EXCEPT !.acked = acked]
           commit == Max(reached \union {0})
<1>1. z = r \/ z = CommitUpTo(s, commit, TRUE)
  BY Zenon DEF RegisterAck
<1>2. mark \in Nat
  BY DEF Lower, Ready, ReplicaOK, NumbersOK
<1>3. acked \in [ReplicaID -> Nat]
  BY <1>2 DEF Ready, ReplicaOK, NumbersOK
<1> HIDE DEF mark, acked
<1>4. commit \in Nat
  BY <1>3, ReachedIsNumber
<1> HIDE DEF z, commit
<1>5. SameBut(r, s, {"acked"}) /\ s.acked = acked
  BY DEF SameBut, Fields, Ready, ReplicaOK
<1> HIDE DEF s
<1>6. NumbersOK(s)
  BY <1>3, <1>5 DEF SameBut, Fields, NumbersOK, Ready, ReplicaOK
<1>7. Follows(r, s)
  BY <1>5, <1>6, QuietFollows DEF SameBut, QuietFields
<1>8. Follows(s, CommitUpTo(s, commit, TRUE)) /\ SameBut(s, CommitUpTo(s, commit, TRUE), CommitFields)
  BY <1>4, <1>7, CommitUpToFollows DEF Follows
<1>9. Follows(r, CommitUpTo(s, commit, TRUE))
  BY <1>7, <1>8, FollowsThrough
<1>10. SameBut(r, CommitUpTo(s, commit, TRUE), CommitFields \union {"acked"})
  BY <1>5, <1>8 DEF SameBut
<1>11. SameBut(r, r, CommitFields \union {"acked"})
  BY DEF SameBut, Ready, ReplicaOK
<1> QED
  BY <1>1, <1>9, <1>10, <1>11, FollowsSelf DEF z

LEMMA OnPrepareOkFollows ==
  ASSUME NEW r, Ready(r), NEW m, MessageOK(m), m.type = "PrepareOk"
  PROVE  Follows(r, OnPrepareOk(r, m))
<1>1. m.replica_id \in ReplicaID /\ m.op_number \in Nat
  BY DEF MessageOK
<1>2. OnPrepareOk(r, m) = r \/ OnPrepareOk(r, m) = RegisterAck(r, m.replica_id, m.op_number)
  BY Zenon DEF OnPrepareOk
<1> QED
  BY <1>1, <1>2, FollowsSelf, RegisterAckFollows

-----------------------------------------------------------------------------
(* Changes of status *)

ClearFields ==
  {"start_view_change_from", "do_view_change_sent", "do_view_change_from", "catching_up",
   "fetch", "queries", "round", "round_confirmed", "confirmed", "round_unsent"}

\* Nothing is left of a view change.
Cleared(s) ==
  /\ s.start_view_change_from = {} /\ s.do_view_change_from = {}
  /\ s.do_view_change_sent = FALSE /\ s.fetch = NoFetch

LEMMA ClearViewChangeStateFrame ==
  ASSUME NEW r, DOMAIN r = Fields
  PROVE  LET s == ClearViewChangeState(r) IN
         SameBut(r, s, ClearFields) /\ Cleared(s) /\ s.catching_up = Nobody
  BY DEF ClearViewChangeState, SameBut, Fields, ClearFields, Cleared

NormalFields == ClearFields \union {"status", "last_normal_view", "acked", "view_start_op"}

LEMMA EnterNormalFrame ==
  ASSUME NEW r, DOMAIN r = Fields
  PROVE  LET s == EnterNormal(r) IN
         /\ SameBut(r, s, NormalFields) /\ Cleared(s) /\ s.catching_up = Nobody
         /\ s.status = "Normal" /\ s.last_normal_view = r.view_number
         /\ s.acked \in [ReplicaID -> Nat]
<1> DEFINE mid == [r EXCEPT !.status = "Normal", !.last_normal_view = r.view_number,
                     !.acked = [q \in ReplicaID |-> 0], !.view_start_op = r.op_number]
           s == EnterNormal(r)
<1>1. s = ClearViewChangeState(mid)
  BY DEF EnterNormal
<1>2. /\ SameBut(r, mid, {"status", "last_normal_view", "acked", "view_start_op"})
      /\ mid.status = "Normal" /\ mid.last_normal_view = r.view_number
      /\ mid.acked = [q \in ReplicaID |-> 0]
  BY DEF SameBut, Fields
<1> HIDE DEF mid
<1>3. SameBut(mid, s, ClearFields) /\ Cleared(s) /\ s.catching_up = Nobody
  BY <1>1, <1>2, ClearViewChangeStateFrame DEF SameBut
<1> HIDE DEF s
<1>4. SameBut(r, s, NormalFields)
  BY <1>2, <1>3 DEF SameBut, NormalFields
<1>5. /\ s.status = mid.status /\ s.last_normal_view = mid.last_normal_view
      /\ s.acked = mid.acked
  BY <1>3 DEF SameBut, ClearFields, Fields
<1>6. mid.acked \in [ReplicaID -> Nat]
  BY <1>2
<1> QED
  BY <1>2, <1>3, <1>4, <1>5, <1>6 DEF s

\* A replica goes to the view change of a view after the last it was normal in.
LEMMA ViewChangeFollows ==
  ASSUME NEW r, Ready(r), r.status # "Recovering", NEW s,
         SameBut(r, s, ClearFields \union {"view_number", "status"}),
         s.status = "ViewChange", s.view_number \in Nat,
         r.view_number <= s.view_number, r.last_normal_view < s.view_number,
         Cleared(s), s.catching_up \in ReplicaID \union {Nobody}
  PROVE  Follows(r, s)
<1>1. /\ DOMAIN s = Fields /\ s.id = r.id /\ s.last_normal_view = r.last_normal_view
      /\ s.commit_number = r.commit_number /\ s.applied = r.applied
      /\ s.log_start = r.log_start /\ s.op_number = r.op_number
      /\ s.log_changed_from = r.log_changed_from /\ s.durable = r.durable
      /\ s.recovery_nonce = r.recovery_nonce /\ s.acked = r.acked /\ s.serving = r.serving
      /\ s.written = r.written /\ s.outstanding = r.outstanding
      /\ s.recovery_responses = r.recovery_responses
      /\ s.early = r.early /\ s.outbox = r.outbox /\ s.outbox_waiting = r.outbox_waiting
      /\ s.outbox_ready = r.outbox_ready
  BY DEF SameBut, ClearFields, Fields
<1>2. NumbersOK(s)
  BY <1>1 DEF Ready, ReplicaOK, NumbersOK
<1>3. ReceivedOK(s)
  BY <1>1, FS_EmptySet DEF Ready, ReplicaOK, ReceivedOK, Cleared, FetchOK, NoFetch
<1>4. OutboxesOK(s)
  BY <1>1 DEF Ready, ReplicaOK, OutboxesOK
<1>5. Placed(s)
  BY <1>1 DEF Placed, Cleared, NoFetch
<1>6. Ready(s)
  BY <1>1, <1>2, <1>3, <1>4, <1>5 DEF Ready, ReplicaOK, Status
<1> QED
  BY <1>1, <1>6 DEF Follows, Grows, Ready, ReplicaOK, NumbersOK

\* catch_up_with_view
LEMMA CatchUpWithViewFollows ==
  ASSUME NEW r, Ready(r), NEW view \in Nat, r.status # "Recovering",
         r.view_number < view \/ (r.view_number = view /\ r.status = "ViewChange")
  PROVE  Follows(r, CatchUpWithView(r, view))
<1> DEFINE c == ClearViewChangeState(r)
           s == [c EXCEPT !.view_number = view, !.status = "ViewChange",
                          !.catching_up = PrimaryOf(view)]
<1>1. \/ CatchUpWithView(r, view) = r
      \/ CatchUpWithView(r, view) = SendGetStateTo(s, PrimaryOf(view), s.commit_number)
  BY Zenon DEF CatchUpWithView
<1>2. SameBut(r, c, ClearFields) /\ Cleared(c)
  BY ClearViewChangeStateFrame DEF Ready, ReplicaOK
<1> HIDE DEF c
<1>3. /\ SameBut(c, s, {"view_number", "status", "catching_up"})
      /\ s.view_number = view /\ s.status = "ViewChange" /\ s.catching_up = PrimaryOf(view)
  BY <1>2 DEF SameBut, Fields
<1> HIDE DEF s
<1>4. PrimaryOf(view) \in ReplicaID
  BY PrimaryIsReplica
<1>5. SameBut(r, s, ClearFields \union {"view_number", "status"})
  BY <1>2, <1>3 DEF SameBut, ClearFields
<1>6. Cleared(s)
  BY <1>2, <1>3 DEF SameBut, Cleared, Fields
<1>7. r.view_number <= s.view_number /\ r.last_normal_view < s.view_number
  BY <1>3 DEF Ready, ReplicaOK, NumbersOK, Placed
<1>8. Follows(r, s)
  BY <1>3, <1>4, <1>5, <1>6, <1>7, ViewChangeFollows
<1>9. s.commit_number \in Nat
  BY <1>8 DEF Follows, Ready, ReplicaOK, NumbersOK
<1>10. Follows(s, SendGetStateTo(s, PrimaryOf(view), s.commit_number))
  BY <1>4, <1>8, <1>9, SendGetStateToFollows DEF Follows
<1>11. Follows(r, SendGetStateTo(s, PrimaryOf(view), s.commit_number))
  BY <1>8, <1>10, FollowsThrough
<1> QED
  BY <1>1, <1>11, FollowsSelf

\* A view is started, or joined, with a log that the view brings: s is what the
\* replica is before it enters the view.
Joins(r, s) ==
  /\ DOMAIN s = Fields /\ NumbersOK(s)
  /\ s.id = r.id /\ s.outstanding = r.outstanding /\ s.written = r.written
  /\ s.early = r.early /\ s.outbox = r.outbox /\ s.outbox_waiting = r.outbox_waiting
  /\ s.outbox_ready = r.outbox_ready
  /\ IsFiniteSet(s.recovery_responses)
  /\ \A q \in s.recovery_responses : q.view_number \in Nat /\ (q.state.is => StateOK(q.state))
  /\ r.view_number <= s.view_number
  /\ r.status # "Recovering" => r.last_normal_view < s.view_number
  /\ s.log_changed_from # 0 /\ r.log_start <= s.log_start

LEMMA EnterNormalFollows ==
  ASSUME NEW r, Ready(r), NEW s, Joins(r, s), NEW commit \in Nat, NEW reply
  PROVE  LET t == EnterNormal(CommitUpTo(s, commit, reply)) IN
         /\ Follows(r, t) /\ t.status = "Normal" /\ t.view_number = s.view_number
         /\ t.last_normal_view = t.view_number
<1> DEFINE c == CommitUpTo(s, commit, reply)
           t == EnterNormal(c)
<1>1. SameBut(s, c, CommitFields) /\ NumbersOK(c)
  BY CommitUpToFrame DEF Joins
<1> HIDE DEF c
<1>2. /\ SameBut(c, t, NormalFields) /\ Cleared(t) /\ t.catching_up = Nobody
      /\ t.status = "Normal" /\ t.last_normal_view = c.view_number
      /\ t.acked \in [ReplicaID -> Nat]
  BY <1>1, EnterNormalFrame DEF SameBut
<1> HIDE DEF t
<1>3. SameBut(s, t, CommitFields \union NormalFields)
  BY <1>1, <1>2 DEF SameBut
<1>4. /\ DOMAIN t = Fields /\ t.id = s.id /\ t.view_number = s.view_number
      /\ t.log_start = s.log_start /\ t.op_number = s.op_number
      /\ t.log_changed_from = s.log_changed_from /\ t.durable = s.durable
      /\ t.recovery_nonce = s.recovery_nonce /\ t.serving = s.serving
      /\ t.written = s.written /\ t.outstanding = s.outstanding
      /\ t.recovery_responses = s.recovery_responses
      /\ t.early = s.early /\ t.outbox = s.outbox /\ t.outbox_waiting = s.outbox_waiting
      /\ t.outbox_ready = s.outbox_ready
  BY <1>3 DEF SameBut, CommitFields, ApplyFields, NormalFields, ClearFields, Fields
<1>5. /\ c.view_number = s.view_number /\ t.commit_number = c.commit_number
      /\ t.applied = c.applied /\ t.log_start = c.log_start /\ t.op_number = c.op_number
  BY <1>1, <1>2, <1>4 DEF SameBut, CommitFields, ApplyFields, NormalFields, ClearFields, Fields
<1>6. NumbersOK(t)
  <2>1. t.view_number \in Nat /\ t.last_normal_view = t.view_number
    BY <1>2, <1>4, <1>5 DEF Joins, NumbersOK
  <2>2. /\ t.commit_number \in Nat /\ t.applied \in Nat /\ t.log_start \in Nat
        /\ t.op_number \in Nat /\ t.log_start <= t.applied
        /\ t.applied <= t.commit_number /\ t.applied <= t.op_number
    BY <1>1, <1>5 DEF NumbersOK
  <2>3. /\ t.log_changed_from \in Nat /\ t.durable \in Nat /\ t.recovery_nonce \in Nat
        /\ t.log_changed_from <= t.op_number + 1 /\ t.serving \in Nat \union {Nobody}
    BY <1>4 DEF Joins, NumbersOK
  <2> QED
    BY <1>2, <2>1, <2>2, <2>3 DEF NumbersOK
<1>7. ReceivedOK(t)
  BY <1>2, <1>4, FS_EmptySet DEF ReceivedOK, Joins, Cleared, FetchOK, NoFetch
<1>8. OutboxesOK(t)
  BY <1>4 DEF OutboxesOK, Joins, Ready, ReplicaOK
<1>9. t.last_normal_view = t.view_number
  BY <1>2, <1>4, <1>5
<1>10. Placed(t)
  BY <1>2, <1>9 DEF Placed, Cleared, NoFetch
<1>11. Ready(t)
  BY <1>2, <1>4, <1>6, <1>7, <1>8, <1>10 DEF Ready, ReplicaOK, Joins, Status
<1>12. Grows(r, t)
  BY <1>2, <1>4, <1>9 DEF Grows, Joins, Ready, ReplicaOK, NumbersOK
<1>13. Follows(r, t)
  BY <1>4, <1>11, <1>12 DEF Follows, Joins
<1> QED
  BY <1>2, <1>4, <1>9, <1>13 DEF t, c

\* state_transfer
LEMMA StateTransferFollows ==
  ASSUME NEW r, Ready(r), r.status \in {"Normal", "StateTransfer"}, ~IsPrimary(r)
  PROVE  Follows(r, StateTransfer(r))
<1> DEFINE s == [r EXCEPT !.status = "StateTransfer"]
<1>1. SameBut(r, s, {"status"}) /\ s.status = "StateTransfer"
  BY DEF SameBut, Fields, Ready, ReplicaOK
<1> HIDE DEF s
<1>2. NumbersOK(s) /\ ReceivedOK(s) /\ OutboxesOK(s)
  BY <1>1 DEF SameBut, Fields, Ready, ReplicaOK, NumbersOK, ReceivedOK, OutboxesOK
<1>3. Placed(s)
  BY <1>1 DEF SameBut, Fields, Ready, Placed, IsPrimary
<1>4. Ready(s)
  BY <1>1, <1>2, <1>3 DEF SameBut, Fields, Ready, ReplicaOK, Status
<1>5. Follows(r, s)
  BY <1>1, <1>4 DEF SameBut, Fields, Follows, Grows, Ready, ReplicaOK, NumbersOK
<1>6. PrimaryOf(r.view_number) \in ReplicaID
  BY PrimaryIsReplica DEF Ready, ReplicaOK, NumbersOK
<1>7. r.op_number \in Nat
  BY DEF Ready, ReplicaOK, NumbersOK
<1>8. Follows(s, SendGetStateTo(s, PrimaryOf(r.view_number), r.op_number))
  BY <1>4, <1>6, <1>7, SendGetStateToFollows
<1>9. Follows(r, SendGetStateTo(s, PrimaryOf(r.view_number), r.op_number))
  BY <1>5, <1>8, FollowsThrough
<1> QED
  BY <1>9 DEF StateTransfer, s

LEMMA NotAcceptedFollows ==
  ASSUME NEW r, Ready(r), NEW view \in Nat, r.status # "Recovering"
  PROVE  Follows(r, NotAccepted(r, view))
<1>1. CASE view > r.view_number \/ (view = r.view_number /\ r.status = "ViewChange")
  <2>1. NotAccepted(r, view) = CatchUpWithView(r, view)
    BY <1>1, Zenon DEF NotAccepted
  <2>2. r.view_number < view \/ (r.view_number = view /\ r.status = "ViewChange")
    BY <1>1 DEF Ready, ReplicaOK, NumbersOK
  <2> QED
    BY <2>1, <2>2, CatchUpWithViewFollows
<1>2. CASE ~ (view > r.view_number \/ (view = r.view_number /\ r.status = "ViewChange"))
  <2>1. NotAccepted(r, view) = r
    BY <1>2, Zenon DEF NotAccepted
  <2> QED
    BY <2>1, FollowsSelf
<1> QED
  BY <1>1, <1>2

LEMMA OnPrepareFollows ==
  ASSUME NEW r, Ready(r), r.status # "Recovering", NEW m, MessageOK(m), m.type = "Prepare"
  PROVE  Follows(r, OnPrepare(r, m))
<1> DEFINE s == IF m.op_number = r.op_number + 1 THEN AppendToLog(r, m.entry) ELSE r
           c == CommitUpTo(s, Lower(m.commit_number, s.op_number), FALSE)
           z == OnPrepare(r, m)
<1>1. m.view_number \in Nat /\ m.op_number \in Nat /\ m.commit_number \in Nat
  BY DEF MessageOK
<1>2. \/ z = NotAccepted(r, m.view_number)
      \/ Accepts(r, m.view_number) /\ z = StateTransfer(r)
      \/ Accepts(r, m.view_number) /\ z = SendPrepareOk(c)
  BY Zenon DEF OnPrepare
<1> HIDE DEF z
<1>3. CASE z = NotAccepted(r, m.view_number)
  BY <1>1, <1>3, NotAcceptedFollows DEF z
<1>4. CASE Accepts(r, m.view_number) /\ z = StateTransfer(r)
  BY <1>4, StateTransferFollows DEF Accepts, z
<1>5. CASE Accepts(r, m.view_number) /\ z = SendPrepareOk(c)
  <2>1. r.status = "Normal"
    BY <1>5 DEF Accepts
  <2>2. Follows(r, s) /\ s.status = "Normal"
    <3>1. CASE s = r
      BY <2>1, <3>1, FollowsSelf
    <3>2. CASE s = AppendToLog(r, m.entry)
      BY <2>1, <3>2, AppendToLogFollows DEF SameBut, LogFields, Fields
    <3> QED
      BY <3>1, <3>2
  <2> HIDE DEF s
  <2>3. Lower(m.commit_number, s.op_number) \in Nat
    BY <1>1, <2>2 DEF Lower, Follows, Ready, ReplicaOK, NumbersOK
  <2>4. Follows(s, c) /\ SameBut(s, c, CommitFields)
    BY <2>2, <2>3, CommitUpToFollows DEF Follows
  <2> HIDE DEF c
  <2>5. c.status = "Normal"
    BY <2>2, <2>4 DEF SameBut, CommitFields, ApplyFields, Fields
  <2>6. Ready(c) /\ c.last_normal_view = c.view_number
    BY <2>4, <2>5 DEF Follows, Ready, Placed
  <2>7. Follows(c, SendPrepareOk(c))
    BY <2>6, SendPrepareOkFollows
  <2>8. Follows(r, c)
    BY <2>2, <2>4, FollowsThrough
  <2> QED
    BY <1>5, <2>7, <2>8, FollowsThrough DEF z
<1> QED
  BY <1>2, <1>3, <1>4, <1>5

LEMMA OnCommitFollows ==
  ASSUME NEW r, Ready(r), r.status # "Recovering", NEW m, MessageOK(m), m.type = "Commit"
  PROVE  Follows(r, OnCommit(r, m))
<1>1. m.view_number \in Nat /\ m.commit_number \in Nat
  BY DEF MessageOK
<1>2. \/ OnCommit(r, m) = NotAccepted(r, m.view_number)
      \/ Accepts(r, m.view_number) /\ OnCommit(r, m) = StateTransfer(r)
      \/ OnCommit(r, m) = CommitUpTo(r, m.commit_number, FALSE)
  BY Zenon DEF OnCommit
<1> QED
  BY <1>1, <1>2, NotAcceptedFollows, StateTransferFollows, CommitUpToFollows DEF Accepts

-----------------------------------------------------------------------------
(* View changes *)

\* What a replica keeps of the messages it received may change as well.
LEMMA MildFollows ==
  ASSUME NEW r, NEW s, Ready(r), NumbersOK(s), ReceivedOK(s), Placed(s),
         SameBut(r, s, QuietFields \union {"do_view_change_from", "catching_up",
                                           "recovery_responses", "fetch"})
  PROVE  Follows(r, s)
<1>1. /\ DOMAIN s = Fields /\ s.id = r.id /\ s.status = r.status
      /\ s.view_number = r.view_number /\ s.last_normal_view = r.last_normal_view
      /\ s.log_start = r.log_start /\ s.op_number = r.op_number
      /\ s.log_changed_from = r.log_changed_from
      /\ s.written = r.written /\ s.outstanding = r.outstanding
      /\ s.early = r.early /\ s.outbox = r.outbox /\ s.outbox_waiting = r.outbox_waiting
      /\ s.outbox_ready = r.outbox_ready
  BY DEF SameBut, QuietFields, CommitFields, ApplyFields, Fields
<1>2. Ready(s)
  BY <1>1 DEF Ready, ReplicaOK, OutboxesOK
<1> QED
  BY <1>1, <1>2 DEF Follows, Grows, Ready, ReplicaOK, NumbersOK

\* A failed assertion.
LEMMA FailFollows ==
  ASSUME NEW r, Ready(r)
  PROVE  Follows(r, Fail(r)) /\ Fail(r).ok = FALSE
<1>1. SameBut(r, Fail(r), {"ok"}) /\ Fail(r).ok = FALSE
  BY DEF Fail, SameBut, Fields, Ready, ReplicaOK
<1>2. {"ok"} \subseteq QuietFields \ {"commit_number", "applied", "acked", "serving"}
  BY DEF QuietFields, CommitFields, ApplyFields
<1> QED
  BY <1>1, <1>2, QuietStep

\* A replica that is to start its view may take any log meanwhile.
LEMMA ElectedFollows ==
  ASSUME NEW r, NEW s, Ready(r), r.status = "ViewChange", IsPrimary(r),
         SameBut(r, s, RestoreFields \union {"fetch", "catching_up"}),
         NumbersOK(s), ReceivedOK(s), s.fetch.on => s.fetch = r.fetch,
         s.log_changed_from # 0, r.log_start <= s.log_start
  PROVE  Follows(r, s)
<1>1. /\ DOMAIN s = Fields /\ s.id = r.id /\ s.status = r.status
      /\ s.view_number = r.view_number /\ s.last_normal_view = r.last_normal_view
      /\ s.written = r.written /\ s.outstanding = r.outstanding
      /\ s.early = r.early /\ s.outbox = r.outbox /\ s.outbox_waiting = r.outbox_waiting
      /\ s.outbox_ready = r.outbox_ready
  BY DEF SameBut, RestoreFields, LogFields, Fields
<1>2. Placed(s)
  BY <1>1 DEF Ready, Placed
<1>3. Ready(s)
  BY <1>1, <1>2 DEF Ready, ReplicaOK, OutboxesOK
<1>4. Elected(r.id, r.last_normal_view, s.view_number)
  <2>1. /\ r.last_normal_view \in Nat /\ r.view_number \in Nat
        /\ r.last_normal_view < r.view_number
    BY DEF Ready, Placed, ReplicaOK, NumbersOK
  <2>2. r.view_number \in r.last_normal_view + 1 .. s.view_number
    BY <1>1, <2>1
  <2> QED
    BY <2>2 DEF Elected, IsPrimary
<1> QED
  BY <1>1, <1>3, <1>4 DEF Follows, Grows, Ready, ReplicaOK, NumbersOK

LEMMA SendStartViewFollows ==
  ASSUME NEW r, Ready(r), IsPrimary(r), NEW S, \A q \in S : q \in ReplicaID
  PROVE  Follows(r, SendStartView(r, S))
<1> DEFINE m == [type |-> "StartView", view_number |-> r.view_number,
                 segment |-> WholeLog(r), commit_number |-> r.commit_number]
<1>1. MessageOK(m)
  BY DEF MessageOK, Votes, EarlyTypes, StateOK, SegmentOK, WholeLog, Segment,
         Ready, ReplicaOK, NumbersOK
<1>2. Signed(r, m)
  BY DEF Signed, Signer, KeepsNow, Keeps, IsPrimary, Ready, ReplicaOK, NumbersOK
<1> HIDE DEF m
<1>3. Follows(r, SendTo(r, S, m))
  BY <1>1, <1>2, SendToFollows
<1> QED
  BY <1>3 DEF SendStartView, m

\* try_start_view
LEMMA TryStartViewFollows ==
  ASSUME NEW r, Ready(r), r.status = "ViewChange", IsPrimary(r), r.do_view_change_from # {}
  PROVE  Follows(r, TryStartView(r))
<1> DEFINE z == TryStartView(r)
           best == Best(r.do_view_change_from)
           merged == MergeLog(r, best.segment)
           commit == Max({d.commit_number : d \in r.do_view_change_from})
           started == EnterNormal(CommitUpTo(merged, commit, TRUE))
           caught == [r EXCEPT !.catching_up = best.replica_id]
<1>1. \/ z = SendGetStateTo(caught, best.replica_id, r.commit_number)
      \/ z = merged
      \/ merged.ok /\ z = SendStartView(started, Others(r.id))
  BY Zenon DEF TryStartView
<1>2. best \in r.do_view_change_from /\ DvcOK(best)
  BY BestIsOne DEF Ready, ReplicaOK, ReceivedOK
<1>3. commit \in Nat
  BY GreatestCommit DEF Ready, ReplicaOK, ReceivedOK, DvcOK, StateOK
<1>4. \/ merged = Fail(r)
      \/ /\ SameBut(r, merged, LogFields)
         /\ NumbersOK(merged) /\ merged.log_changed_from # 0
  BY <1>2, MergeLogFrame DEF DvcOK, StateOK, Ready, ReplicaOK
<1>5. r.commit_number \in Nat /\ r.log_start \in Nat
  BY DEF Ready, ReplicaOK, NumbersOK
<1> HIDE DEF z, best, commit, merged
<1>6. CASE z = SendGetStateTo(caught, best.replica_id, r.commit_number)
  <2>1. SameBut(r, caught, {"catching_up"}) /\ caught.catching_up = best.replica_id
    BY DEF SameBut, Fields, Ready, ReplicaOK
  <2> HIDE DEF caught
  <2>2. NumbersOK(caught) /\ ReceivedOK(caught) /\ Placed(caught)
    BY <1>2, <2>1 DEF SameBut, Fields, NumbersOK, ReceivedOK, Placed, IsPrimary, DvcOK,
                      Ready, ReplicaOK
  <2>3. Follows(r, caught)
    BY <2>1, <2>2, MildFollows DEF SameBut
  <2>4. Follows(caught, SendGetStateTo(caught, best.replica_id, r.commit_number))
    BY <1>2, <1>5, <2>3, SendGetStateToFollows DEF DvcOK, Follows
  <2> QED
    BY <1>6, <2>3, <2>4, FollowsThrough DEF z
<1>7. SameBut(r, merged, LogFields) => ReceivedOK(merged) /\ merged.fetch = r.fetch
                                       /\ merged.log_start = r.log_start
  BY DEF SameBut, LogFields, Fields, ReceivedOK, Ready, ReplicaOK
<1>8. CASE z = merged
  <2>1. CASE merged = Fail(r)
    BY <1>8, <2>1, FailFollows DEF z
  <2>2. CASE SameBut(r, merged, LogFields) /\ NumbersOK(merged) /\ merged.log_changed_from # 0
    <3>1. SameBut(r, merged, RestoreFields \union {"fetch", "catching_up"})
      BY <2>2 DEF SameBut, RestoreFields
    <3>2. r.log_start <= merged.log_start
      BY <1>5, <1>7, <2>2
    <3> QED
      BY <1>7, <1>8, <2>2, <3>1, <3>2, ElectedFollows DEF z
  <2> QED
    BY <1>4, <2>1, <2>2
<1>9. CASE merged.ok /\ z = SendStartView(started, Others(r.id))
  <2>1. merged # Fail(r)
    BY <1>9, FailFollows
  <2>2. SameBut(r, merged, LogFields) /\ NumbersOK(merged) /\ merged.log_changed_from # 0
    BY <1>4, <2>1
  <2>3. Joins(r, merged)
    BY <2>2 DEF Joins, SameBut, LogFields, Fields, Ready, ReplicaOK, NumbersOK, ReceivedOK, Placed
  <2>4. Follows(r, started) /\ started.view_number = merged.view_number
    <3>1. \A reply : LET t == EnterNormal(CommitUpTo(merged, commit, reply)) IN
                    Follows(r, t) /\ t.view_number = merged.view_number
      BY <1>3, <2>3, EnterNormalFollows
    <3> QED
      BY <3>1
  <2> HIDE DEF started
  <2>5. IsPrimary(started)
    BY <2>2, <2>4 DEF IsPrimary, Follows, SameBut, LogFields, Fields
  <2>6. \A q \in Others(r.id) : q \in ReplicaID
    BY DEF Others
  <2>7. Follows(started, SendStartView(started, Others(r.id)))
    BY <2>4, <2>5, <2>6, SendStartViewFollows DEF Follows
  <2> QED
    BY <1>9, <2>4, <2>7, FollowsThrough DEF z
<1> QED
  BY <1>1, <1>6, <1>8, <1>9

LEMMA RecordDoViewChangeFollows ==
  ASSUME NEW r, Ready(r), r.status = "ViewChange", IsPrimary(r), NEW dvc, DvcOK(dvc)
  PROVE  Follows(r, RecordDoViewChange(r, dvc))
<1> DEFINE others == {d \in r.do_view_change_from : d.replica_id # dvc.replica_id}
           got == others \union {dvc}
           s == [r EXCEPT !.do_view_change_from = got]
<1>1. RecordDoViewChange(r, dvc) \in {s, TryStartView(s)}
  BY Zenon DEF RecordDoViewChange
<1>2. IsFiniteSet(got) /\ got # {} /\ \A d \in got : DvcOK(d)
  <2>1. IsFiniteSet(others)
    BY FS_Subset DEF Ready, ReplicaOK, ReceivedOK
  <2>2. IsFiniteSet(got)
    BY <2>1, FS_AddElement
  <2> QED
    BY <2>2 DEF Ready, ReplicaOK, ReceivedOK
<1> HIDE DEF got
<1>3. SameBut(r, s, {"do_view_change_from"}) /\ s.do_view_change_from = got
  BY DEF SameBut, Fields, Ready, ReplicaOK
<1> HIDE DEF s
<1>4. NumbersOK(s) /\ ReceivedOK(s) /\ Placed(s)
  BY <1>2, <1>3 DEF SameBut, Fields, NumbersOK, ReceivedOK, Placed, IsPrimary, Ready, ReplicaOK
<1>5. Follows(r, s)
  BY <1>3, <1>4, MildFollows DEF SameBut
<1>6. s.status = "ViewChange" /\ IsPrimary(s) /\ s.do_view_change_from # {}
  BY <1>2, <1>3 DEF SameBut, Fields, IsPrimary
<1>7. Follows(s, TryStartView(s))
  BY <1>5, <1>6, TryStartViewFollows DEF Follows
<1>8. Follows(r, TryStartView(s))
  BY <1>5, <1>7, FollowsThrough
<1> QED
  BY <1>1, <1>5, <1>8

LEMMA SendDoViewChangeFollows ==
  ASSUME NEW r, Ready(r), r.status = "ViewChange"
  PROVE  Follows(r, SendDoViewChange(r))
<1> DEFINE dvc == [replica_id |-> r.id, last_normal_view |-> r.last_normal_view,
                   segment |-> WholeLog(r), commit_number |-> r.commit_number]
           m == [type |-> "DoViewChange", view_number |-> r.view_number, dvc |-> dvc]
<1>1. \/ IsPrimary(r) /\ SendDoViewChange(r) = RecordDoViewChange(r, dvc)
      \/ SendDoViewChange(r) = Send(r, PrimaryOf(r.view_number), m)
  BY Zenon DEF SendDoViewChange
<1>2. DvcOK(dvc) /\ dvc.replica_id = r.id
  BY DEF DvcOK, StateOK, SegmentOK, WholeLog, Segment, Ready, ReplicaOK, NumbersOK
<1> HIDE DEF dvc
<1>3. MessageOK(m)
  BY <1>2 DEF MessageOK, Votes, EarlyTypes, Ready, ReplicaOK, NumbersOK
<1>4. Signed(r, m)
  BY <1>2 DEF Signed, Signer, KeepsNow, Keeps, Ready, ReplicaOK, NumbersOK
<1>5. PrimaryOf(r.view_number) \in ReplicaID
  BY PrimaryIsReplica DEF Ready, ReplicaOK, NumbersOK
<1> HIDE DEF m
<1> QED
  BY <1>1, <1>2, <1>3, <1>4, <1>5, RecordDoViewChangeFollows, SendFollows

LEMMA MaybeSendDoViewChangeFollows ==
  ASSUME NEW r, Ready(r)
  PROVE  Follows(r, MaybeSendDoViewChange(r))
<1> DEFINE s == [r EXCEPT !.do_view_change_sent = TRUE]
<1>1. \/ MaybeSendDoViewChange(r) = r
      \/ r.status = "ViewChange" /\ MaybeSendDoViewChange(r) = SendDoViewChange(s)
  BY Zenon DEF MaybeSendDoViewChange
<1>2. SameBut(r, s, {"do_view_change_sent"})
  BY DEF SameBut, Fields, Ready, ReplicaOK
<1> HIDE DEF s
<1>3. Follows(r, s) /\ s.status = r.status
  BY <1>2, QuietStep DEF SameBut, QuietFields, CommitFields, ApplyFields, Fields
<1>4. s.status = "ViewChange" => Follows(r, SendDoViewChange(s))
  BY <1>3, SendDoViewChangeFollows, FollowsThrough DEF Follows
<1> QED
  BY <1>1, <1>3, <1>4, FollowsSelf

LEMMA SendStartViewChangeFollows ==
  ASSUME NEW r, Ready(r)
  PROVE  Follows(r, SendStartViewChange(r))
<1> DEFINE m == [type |-> "StartViewChange", view_number |-> r.view_number,
                 replica_id |-> r.id]
<1>1. MessageOK(m)
  BY DEF MessageOK, Votes, EarlyTypes, Ready, ReplicaOK, NumbersOK
<1>2. Signed(r, m)
  BY DEF Signed, Signer, KeepsNow, Keeps, Ready, ReplicaOK, NumbersOK
<1> HIDE DEF m
<1>3. Follows(r, SendToOthers(r, m))
  BY <1>1, <1>2, SendToOthersFollows
<1> QED
  BY <1>3 DEF SendStartViewChange, m

LEMMA SendStartViewChangeFrame ==
  ASSUME NEW r, DOMAIN r = Fields
  PROVE  SameBut(r, SendStartViewChange(r), {"outbox"})
  BY DEF SendStartViewChange, SendToOthers, SendTo, EarlyTypes, SameBut, Fields

\* A replica that starts a view change has no votes yet, and so no DoViewChange
\* to send.
LEMMA StartViewChangeIs ==
  ASSUME NEW r, DOMAIN r = Fields, NEW view
  PROVE  LET s == [ClearViewChangeState(r) EXCEPT !.view_number = view,
                                                  !.status = "ViewChange"]
         IN  /\ StartViewChange(r, view) = SendStartViewChange(s)
             /\ SameBut(r, s, ClearFields \union {"view_number", "status"})
             /\ s.view_number = view /\ s.status = "ViewChange"
             /\ Cleared(s) /\ s.catching_up = Nobody
<1> DEFINE c == ClearViewChangeState(r)
           s == [c EXCEPT !.view_number = view, !.status = "ViewChange"]
           t == SendStartViewChange(s)
<1>1. SameBut(r, c, ClearFields) /\ Cleared(c) /\ c.catching_up = Nobody
  BY ClearViewChangeStateFrame
<1> HIDE DEF c
<1>2. /\ SameBut(c, s, {"view_number", "status"})
      /\ s.view_number = view /\ s.status = "ViewChange"
  BY <1>1 DEF SameBut, Fields
<1> HIDE DEF s
<1>3. SameBut(r, s, ClearFields \union {"view_number", "status"})
  BY <1>1, <1>2 DEF SameBut
<1>4. Cleared(s) /\ s.catching_up = Nobody
  BY <1>1, <1>2 DEF SameBut, Cleared, Fields
<1>5. SameBut(s, t, {"outbox"})
  BY <1>2, SendStartViewChangeFrame DEF SameBut
<1>6. StartViewChange(r, view) = MaybeSendDoViewChange(t)
  BY Zenon DEF StartViewChange, s, c, t
<1> HIDE DEF t
<1>7. t.start_view_change_from = {}
  BY <1>4, <1>5 DEF SameBut, Cleared, Fields
<1>8. Cardinality(t.start_view_change_from) < N \div 2
  <2>1. Cardinality({}) = 0
    BY FS_EmptySet
  <2>2. N \div 2 > 0
    BY ConfigAssumption
  <2> QED
    BY <1>7, <2>1, <2>2
<1>9. MaybeSendDoViewChange(t) = t
  BY <1>8, Zenon DEF MaybeSendDoViewChange
<1> QED
  BY <1>2, <1>3, <1>4, <1>6, <1>9 DEF s, c, t

LEMMA StartViewChangeFollows ==
  ASSUME NEW r, Ready(r), r.status # "Recovering", NEW view \in Nat,
         r.view_number <= view, r.last_normal_view < view
  PROVE  LET z == StartViewChange(r, view) IN
         Follows(r, z) /\ z.status = "ViewChange" /\ z.view_number = view
<1> DEFINE s == [ClearViewChangeState(r) EXCEPT !.view_number = view, !.status = "ViewChange"]
           z == StartViewChange(r, view)
<1>1. /\ z = SendStartViewChange(s)
      /\ SameBut(r, s, ClearFields \union {"view_number", "status"})
      /\ s.view_number = view /\ s.status = "ViewChange"
      /\ Cleared(s) /\ s.catching_up = Nobody
  BY StartViewChangeIs DEF Ready, ReplicaOK
<1> HIDE DEF s, z
<1>2. Follows(r, s)
  BY <1>1, ViewChangeFollows
<1>3. Follows(s, z)
  BY <1>1, <1>2, SendStartViewChangeFollows DEF Follows
<1>4. SameBut(s, z, {"outbox"})
  BY <1>1, <1>2, SendStartViewChangeFrame DEF Follows, Ready, ReplicaOK
<1>5. z.status = "ViewChange" /\ z.view_number = view
  BY <1>1, <1>4 DEF SameBut, Fields
<1>6. Follows(r, z)
  BY <1>2, <1>3, FollowsThrough
<1> QED
  BY <1>5, <1>6 DEF z

LEMMA OnStartViewChangeFollows ==
  ASSUME NEW r, Ready(r), r.status # "Recovering",
         NEW m, MessageOK(m), m.type = "StartViewChange"
  PROVE  Follows(r, OnStartViewChange(r, m))
<1> DEFINE s == IF m.view_number > r.view_number THEN StartViewChange(r, m.view_number) ELSE r
           voted == [s EXCEPT !.start_view_change_from = @ \union {m.replica_id}]
           z == OnStartViewChange(r, m)
<1>1. \/ z = r
      \/ Serves(r) /\ z = SendStartView(r, {m.replica_id})
      \/ z = MaybeSendDoViewChange(voted)
  BY DEF OnStartViewChange
<1>2. m.view_number \in Nat /\ m.replica_id \in ReplicaID
  BY DEF MessageOK
<1>3. Follows(r, s)
  <2>1. CASE m.view_number > r.view_number
    <3>1. r.view_number <= m.view_number /\ r.last_normal_view < m.view_number
      BY <1>2, <2>1 DEF Ready, ReplicaOK, NumbersOK
    <3> QED
      BY <1>2, <2>1, <3>1, StartViewChangeFollows
  <2>2. CASE ~ (m.view_number > r.view_number)
    BY <2>2, FollowsSelf
  <2> QED
    BY <2>1, <2>2
<1> HIDE DEF s, z
<1>4. SameBut(s, voted, {"start_view_change_from"})
  BY <1>3 DEF SameBut, Fields, Follows, Ready, ReplicaOK
<1> HIDE DEF voted
<1>5. Follows(s, voted)
  BY <1>3, <1>4, QuietStep DEF QuietFields, CommitFields, ApplyFields, Follows
<1>6. Follows(r, voted)
  BY <1>3, <1>5, FollowsThrough
<1>7. Follows(r, MaybeSendDoViewChange(voted))
  BY <1>6, MaybeSendDoViewChangeFollows, FollowsThrough DEF Follows
<1>8. \A q \in {m.replica_id} : q \in ReplicaID
  BY <1>2
<1>9. Serves(r) => Follows(r, SendStartView(r, {m.replica_id}))
  BY <1>8, SendStartViewFollows DEF Serves
<1> QED
  BY <1>1, <1>7, <1>9, FollowsSelf DEF z

LEMMA OnDoViewChangeFollows ==
  ASSUME NEW r, Ready(r), r.status # "Recovering",
         NEW m, MessageOK(m), m.type = "DoViewChange"
  PROVE  Follows(r, OnDoViewChange(r, m))
<1> DEFINE s == IF m.view_number > r.view_number THEN StartViewChange(r, m.view_number) ELSE r
           z == OnDoViewChange(r, m)
<1>1. m.view_number \in Nat /\ DvcOK(m.dvc)
  BY DEF MessageOK
<1>2. r.view_number \in Nat
  BY DEF Ready, ReplicaOK, NumbersOK
<1>3. CASE m.view_number < r.view_number \/ PrimaryOf(m.view_number) # r.id
  <2>1. z = r
    BY <1>1, <1>2, <1>3 DEF OnDoViewChange, IsPrimary
  <2> QED
    BY <2>1, FollowsSelf
<1>4. CASE /\ ~ (m.view_number < r.view_number \/ PrimaryOf(m.view_number) # r.id)
           /\ m.view_number = r.view_number /\ r.status = "Normal"
  <2>1. z = SendStartView(r, {m.dvc.replica_id})
    BY <1>4, Zenon DEF OnDoViewChange, IsPrimary
  <2>2. \A q \in {m.dvc.replica_id} : q \in ReplicaID
    BY <1>1 DEF DvcOK
  <2>3. IsPrimary(r)
    BY <1>4 DEF IsPrimary
  <2> QED
    BY <2>1, <2>2, <2>3, SendStartViewFollows
<1>5. CASE /\ ~ (m.view_number < r.view_number \/ PrimaryOf(m.view_number) # r.id)
           /\ ~ (m.view_number = r.view_number /\ r.status = "Normal")
  <2>1. z = RecordDoViewChange(s, m.dvc)
    BY <1>5, Zenon DEF OnDoViewChange, IsPrimary
  <2>2. Follows(r, s) /\ s.status = "ViewChange" /\ s.view_number = m.view_number
    <3>1. CASE m.view_number > r.view_number
      <4>1. r.view_number <= m.view_number /\ r.last_normal_view < m.view_number
        BY <1>1, <3>1 DEF Ready, ReplicaOK, NumbersOK
      <4> QED
        BY <1>1, <3>1, <4>1, StartViewChangeFollows
    <3>2. CASE ~ (m.view_number > r.view_number)
      <4>1. m.view_number = r.view_number /\ r.status # "Normal" /\ IsPrimary(r)
        BY <1>1, <1>2, <1>5, <3>2 DEF IsPrimary
      <4>2. r.status = "ViewChange"
        BY <4>1 DEF Ready, ReplicaOK, Status, Placed
      <4> QED
        BY <3>2, <4>1, <4>2, FollowsSelf
    <3> QED
      BY <3>1, <3>2
  <2> HIDE DEF s
  <2>3. IsPrimary(s)
    BY <1>5, <2>2 DEF IsPrimary, Follows
  <2>4. Follows(s, RecordDoViewChange(s, m.dvc))
    BY <1>1, <2>2, <2>3, RecordDoViewChangeFollows DEF Follows
  <2> QED
    BY <2>1, <2>2, <2>4, FollowsThrough
<1> QED
  BY <1>3, <1>4, <1>5

LEMMA OnStartViewFollows ==
  ASSUME NEW r, Ready(r), r.ok, r.status # "Recovering",
         NEW m, MessageOK(m), m.type = "StartView"
  PROVE  Follows(r, OnStartView(r, m))
<1> DEFINE z == OnStartView(r, m)
           merged == MergeLog(r, m.segment)
           s == [merged EXCEPT !.view_number = m.view_number]
           t == EnterNormal(CommitUpTo(s, m.commit_number, FALSE))
           old == \/ m.view_number < r.view_number
                  \/ m.view_number = r.view_number /\ r.status # "ViewChange"
<1>1. \/ old /\ z = r
      \/ ~old /\ z = CatchUpWithView(r, m.view_number)
      \/ ~old /\ ~merged.ok /\ z = merged
      \/ ~old /\ merged.ok /\ z = SendPrepareOk(t)
  BY Zenon DEF OnStartView
<1>2. m.view_number \in Nat /\ SegmentOK(m.segment) /\ m.commit_number \in Nat
  BY DEF MessageOK, StateOK
<1>3. r.view_number \in Nat /\ r.last_normal_view \in Nat /\ r.last_normal_view <= r.view_number
  BY DEF Ready, ReplicaOK, NumbersOK
<1>4. ~old => r.view_number < m.view_number
              \/ (r.view_number = m.view_number /\ r.status = "ViewChange")
  BY <1>2, <1>3
<1>5. \/ merged = Fail(r)
      \/ /\ SameBut(r, merged, LogFields)
         /\ NumbersOK(merged) /\ merged.log_changed_from # 0
  BY <1>2, MergeLogFrame DEF Ready, ReplicaOK
<1> HIDE DEF z, merged, old
<1>6. CASE old /\ z = r
  BY <1>6, FollowsSelf DEF z
<1>7. CASE ~old /\ z = CatchUpWithView(r, m.view_number)
  BY <1>2, <1>4, <1>7, CatchUpWithViewFollows DEF z
<1>8. CASE ~old /\ ~merged.ok /\ z = merged
  <2>1. merged = Fail(r)
    BY <1>5, <1>8 DEF SameBut, LogFields, Fields
  <2> QED
    BY <1>8, <2>1, FailFollows DEF z
<1>9. CASE ~old /\ merged.ok /\ z = SendPrepareOk(t)
  <2>1. SameBut(r, merged, LogFields) /\ NumbersOK(merged) /\ merged.log_changed_from # 0
    BY <1>5, <1>9, FailFollows
  <2>2. SameBut(merged, s, {"view_number"}) /\ s.view_number = m.view_number
    BY <2>1 DEF SameBut, Fields
  <2> HIDE DEF s
  <2>3. r.last_normal_view < m.view_number /\ r.view_number <= m.view_number
    BY <1>2, <1>3, <1>4, <1>9 DEF Ready, Placed
  <2>4. SameBut(r, s, LogFields \union {"view_number"})
    BY <2>1, <2>2 DEF SameBut
  <2>5. /\ s.log_changed_from = merged.log_changed_from /\ s.op_number = merged.op_number
        /\ s.last_normal_view = r.last_normal_view
    BY <2>1, <2>2 DEF SameBut, LogFields, Fields
  <2>6. NumbersOK(s)
    BY <1>2, <2>1, <2>2, <2>3, <2>5 DEF SameBut, Fields, NumbersOK
  <2>7. Joins(r, s)
    BY <2>1, <2>2, <2>3, <2>4, <2>5, <2>6 DEF
         Joins, SameBut, LogFields, Fields, Ready, ReplicaOK, NumbersOK, ReceivedOK
  <2>8. Follows(r, t) /\ t.last_normal_view = t.view_number
    <3>1. \A reply : LET c == EnterNormal(CommitUpTo(s, m.commit_number, reply)) IN
                    Follows(r, c) /\ c.last_normal_view = c.view_number
      BY <1>2, <2>7, EnterNormalFollows
    <3> QED
      BY <3>1
  <2> HIDE DEF t
  <2>9. Follows(t, SendPrepareOk(t))
    BY <2>8, SendPrepareOkFollows DEF Follows
  <2> QED
    BY <1>9, <2>8, <2>9, FollowsThrough DEF z
<1> QED
  BY <1>1, <1>6, <1>7, <1>8, <1>9

-----------------------------------------------------------------------------
(* State transfer and checkpoints *)

LEMMA KeepCheckpointFollows ==
  ASSUME NEW r, Ready(r), NEW op \in r.log_start .. r.applied
  PROVE  LET s == KeepCheckpoint(r, op) IN
         Follows(r, s) /\ (s.ok => s.serving \in Nat) /\ SameBut(r, s, {"serving", "ok"})
<1> DEFINE s == KeepCheckpoint(r, op)
           kept == [r EXCEPT !.serving = op]
<1>1. \/ r.serving # Nobody /\ s = r
      \/ s = kept
      \/ s = Fail(r)
  BY Zenon DEF KeepCheckpoint
<1>2. op \in Nat
  BY DEF Ready, ReplicaOK, NumbersOK
<1> HIDE DEF s
<1>3. CASE r.serving # Nobody /\ s = r
  <2>1. s.serving \in Nat
    BY <1>3 DEF Ready, ReplicaOK, NumbersOK
  <2>2. SameBut(r, r, {"serving", "ok"})
    BY DEF SameBut, Ready, ReplicaOK
  <2> QED
    BY <1>3, <2>1, <2>2, FollowsSelf DEF s
<1>4. CASE s = kept
  <2>1. SameBut(r, kept, {"serving"}) /\ kept.serving = op
    BY DEF SameBut, Fields, Ready, ReplicaOK
  <2> HIDE DEF kept
  <2>2. NumbersOK(kept)
    BY <1>2, <2>1 DEF SameBut, Fields, NumbersOK, Ready, ReplicaOK
  <2>3. SameBut(r, kept, QuietFields) /\ SameBut(r, kept, {"serving", "ok"})
    BY <2>1 DEF SameBut, QuietFields
  <2> QED
    BY <1>2, <1>4, <2>1, <2>2, <2>3, QuietFollows DEF s
<1>5. CASE s = Fail(r)
  <2>1. SameBut(r, Fail(r), {"serving", "ok"})
    BY DEF Fail, SameBut, Fields, Ready, ReplicaOK
  <2> QED
    BY <1>5, <2>1, FailFollows DEF s
<1> QED
  BY <1>1, <1>3, <1>4, <1>5

\* on_get_state
LEMMA OnGetStateFollows ==
  ASSUME NEW r, Ready(r), NEW m, MessageOK(m), m.type = "GetState",
         NEW ck \in r.log_start .. r.applied
  PROVE  Follows(r, OnGetState(r, m, ck))
<1> DEFINE z == OnGetState(r, m, ck)
           s == IF NeedsCheckpoint(r, m.op_number) THEN KeepCheckpoint(r, ck) ELSE r
           segment == IF NeedsCheckpoint(r, m.op_number) THEN Segment(s, s.serving, TRUE)
                      ELSE Segment(r, m.op_number, FALSE)
           new == [type |-> "NewState", replica_id |-> r.id,
                   view_number |-> r.view_number, segment |-> segment,
                   commit_number |-> r.commit_number]
<1>1. z = r \/ z = s \/ (s.ok /\ z = Send(s, m.replica_id, new))
  BY Zenon DEF OnGetState
<1>2. m.op_number \in Nat /\ m.replica_id \in ReplicaID
  BY DEF MessageOK
<1>3. Follows(r, s) /\ (s.ok /\ NeedsCheckpoint(r, m.op_number) => s.serving \in Nat)
  BY FollowsSelf, KeepCheckpointFollows
<1> HIDE DEF s, z
<1>4. s.ok => SegmentOK(segment)
  BY <1>2, <1>3 DEF SegmentOK, Segment, Follows, Ready, ReplicaOK, NumbersOK
<1> HIDE DEF segment
<1>5. s.ok => MessageOK(new) /\ new.type \in EarlyTypes
  BY <1>4 DEF MessageOK, EarlyTypes, Votes, StateOK, Ready, ReplicaOK, NumbersOK
<1> HIDE DEF new
<1>6. s.ok => Follows(s, Send(s, m.replica_id, new))
  BY <1>2, <1>3, <1>5, SendFollows DEF Follows
<1>7. s.ok => Follows(r, Send(s, m.replica_id, new))
  BY <1>3, <1>6, FollowsThrough
<1> QED
  BY <1>1, <1>3, <1>7, FollowsSelf DEF z

LEMMA SendGetChunkFollows ==
  ASSUME NEW r, Ready(r), r.fetch.on
  PROVE  Follows(r, SendGetChunk(r))
<1> DEFINE m == [type |-> "GetChunk", replica_id |-> r.id,
                 op_number |-> r.fetch.then.segment.start, index |-> r.fetch.index]
<1>1. FetchOK(r.fetch)
  BY DEF Ready, ReplicaOK, ReceivedOK
<1>2. MessageOK(m) /\ m.type \in EarlyTypes
  BY <1>1 DEF MessageOK, EarlyTypes, Votes, FetchOK, StateOK, SegmentOK, Ready, ReplicaOK
<1> HIDE DEF m
<1>3. Follows(r, Send(r, r.fetch.from, m))
  BY <1>1, <1>2, SendFollows DEF FetchOK
<1> QED
  BY <1>3 DEF SendGetChunk, m

\* A fetch goes with the status and the view of the replica.
Fits(r, then) ==
  /\ StateOK(then) /\ then.view_number \in Nat
  /\ r.status # "Normal"
  /\ r.status = "Recovering" => /\ then.type = "RecoveryResponse"
                                /\ then.view_number >= r.view_number
  /\ r.status # "Recovering" => /\ then.type = "NewState"
                                /\ then.view_number = r.view_number
  /\ r.status = "StateTransfer" => then.segment.end >= r.op_number

\* A fetch that fits may take the place of another.
LEMMA FetchFollows ==
  ASSUME NEW r, Ready(r), NEW s, SameBut(r, s, {"fetch"}), FetchOK(s.fetch),
         s.fetch.on => Fits(r, s.fetch.then)
  PROVE  Follows(r, s)
<1>1. NumbersOK(s) /\ ReceivedOK(s)
  BY DEF SameBut, Fields, NumbersOK, ReceivedOK, Ready, ReplicaOK
<1>2. /\ s.status = r.status /\ s.view_number = r.view_number /\ s.op_number = r.op_number
      /\ s.last_normal_view = r.last_normal_view /\ s.id = r.id
  BY DEF SameBut, Fields
<1>3. Placed(s)
  BY <1>2 DEF Fits, Placed, IsPrimary, Ready
<1> QED
  BY <1>1, <1>3, MildFollows DEF SameBut

\* start_fetch
LEMMA StartFetchFollows ==
  ASSUME NEW r, Ready(r), NEW from \in ReplicaID, NEW then, Fits(r, then)
  PROVE  Follows(r, StartFetch(r, from, then))
<1> DEFINE z == StartFetch(r, from, then)
           again == [r EXCEPT !.fetch = [@ EXCEPT !.then = then, !.stalled = FALSE]]
           on == [r EXCEPT !.fetch = [@ EXCEPT !.then = then]]
           new == [r EXCEPT !.fetch = [on |-> TRUE, from |-> from, index |-> 0,
                                       stalled |-> FALSE, then |-> then]]
<1>1. \/ r.fetch.on /\ z = SendGetChunk(again)
      \/ r.fetch.on /\ z = on
      \/ z = r
      \/ z = SendGetChunk(new)
  BY Zenon DEF StartFetch
<1>2. FetchOK(r.fetch)
  BY DEF Ready, ReplicaOK, ReceivedOK
<1> HIDE DEF z
<1>3. /\ SameBut(r, again, {"fetch"}) /\ SameBut(r, on, {"fetch"}) /\ SameBut(r, new, {"fetch"})
      /\ again.fetch = [r.fetch EXCEPT !.then = then, !.stalled = FALSE]
      /\ on.fetch = [r.fetch EXCEPT !.then = then]
      /\ new.fetch = [on |-> TRUE, from |-> from, index |-> 0, stalled |-> FALSE, then |-> then]
  BY DEF SameBut, Fields, Ready, ReplicaOK
<1> HIDE DEF again, on, new
<1>4. r.fetch.on =>
        /\ again.fetch.on /\ on.fetch.on
        /\ again.fetch.then = then /\ on.fetch.then = then
        /\ FetchOK(again.fetch) /\ FetchOK(on.fetch)
  BY <1>2, <1>3 DEF FetchOK, FetchFields, Fits
<1>5. new.fetch.on /\ new.fetch.then = then /\ FetchOK(new.fetch)
  BY <1>3 DEF FetchOK, FetchFields, Fits
<1>6. r.fetch.on => Follows(r, again) /\ Follows(r, on)
  BY <1>3, <1>4, FetchFollows
<1>7. Follows(r, new)
  BY <1>3, <1>5, FetchFollows
<1>8. r.fetch.on => Follows(r, SendGetChunk(again))
  BY <1>4, <1>6, SendGetChunkFollows, FollowsThrough DEF Follows
<1>9. Follows(r, SendGetChunk(new))
  BY <1>5, <1>7, SendGetChunkFollows, FollowsThrough DEF Follows
<1> QED
  BY <1>1, <1>6, <1>8, <1>9, FollowsSelf DEF z

\* new_state_installed on a log, t's, that reaches no less far than r's where r
\* fills a gap.
LEMMA NewStateInstalledFollows ==
  ASSUME NEW r, Ready(r), r.status \in {"StateTransfer", "ViewChange"},
         NEW t, SameBut(r, t, RestoreFields \union {"fetch"}), NumbersOK(t),
         t.log_changed_from # 0, r.log_start <= t.log_start,
         r.status = "StateTransfer" => r.op_number <= t.op_number,
         NEW commit \in Nat
  PROVE  Follows(r, NewStateInstalled(t, commit))
<1> DEFINE z == NewStateInstalled(t, commit)
           s == [t EXCEPT !.fetch = NoFetch]
           c == [s EXCEPT !.catching_up = Nobody]
           n == [CommitUpTo(s, commit, FALSE) EXCEPT !.status = "Normal"]
           j == EnterNormal(CommitUpTo(c, commit, FALSE))
<1>1. t.status = r.status /\ t.view_number = r.view_number /\ t.id = r.id
      /\ t.do_view_change_from = r.do_view_change_from
  BY DEF SameBut, RestoreFields, LogFields, Fields
<1>2. \/ t.status = "StateTransfer" /\ z = SendPrepareOk(n)
      \/ /\ t.status = "ViewChange" /\ IsPrimary(t)
         /\ Cardinality(t.do_view_change_from) >= Quorum
         /\ z = TryStartView(c)
      \/ t.status = "ViewChange" /\ z = SendPrepareOk(j)
  <2>1. CASE t.status = "StateTransfer"
    BY <2>1 DEF NewStateInstalled
  <2>2. CASE t.status = "ViewChange"
    BY <2>2 DEF NewStateInstalled
  <2> QED
    BY <1>1, <2>1, <2>2
<1> HIDE DEF z
<1>3. SameBut(t, s, {"fetch"}) /\ s.fetch = NoFetch
  BY DEF SameBut, Fields
<1> HIDE DEF s
<1>4. SameBut(s, c, {"catching_up"}) /\ c.catching_up = Nobody
  BY <1>3 DEF SameBut, Fields
<1> HIDE DEF c
<1>5. SameBut(t, c, {"fetch", "catching_up"}) /\ c.fetch = NoFetch
  BY <1>3, <1>4 DEF SameBut, Fields
<1>6. NumbersOK(s) /\ NumbersOK(c)
  BY <1>3, <1>5 DEF SameBut, Fields, NumbersOK
<1>7. SameBut(r, s, RestoreFields \union {"fetch"})
  BY <1>3 DEF SameBut
<1>8. SameBut(r, c, RestoreFields \union {"fetch", "catching_up"})
  BY <1>5 DEF SameBut
<1>9. /\ s.log_changed_from = t.log_changed_from /\ s.log_start = t.log_start
      /\ s.op_number = t.op_number
      /\ c.log_changed_from = t.log_changed_from /\ c.log_start = t.log_start
  BY <1>3, <1>5 DEF SameBut, Fields
<1>10. CASE t.status = "StateTransfer" /\ z = SendPrepareOk(n)
  <2> DEFINE u == CommitUpTo(s, commit, FALSE)
  <2>1. SameBut(s, u, CommitFields) /\ NumbersOK(u)
    <3>1. \A reply : LET x == CommitUpTo(s, commit, reply) IN
                     SameBut(s, x, CommitFields) /\ NumbersOK(x)
      BY <1>3, <1>6, CommitUpToFrame DEF SameBut
    <3> QED
      BY <3>1
  <2> HIDE DEF u
  <2>2. SameBut(u, n, {"status"}) /\ n.status = "Normal"
    BY <2>1 DEF SameBut, Fields, u
  <2> HIDE DEF n
  <2>3. /\ DOMAIN n = Fields /\ n.id = s.id /\ n.view_number = s.view_number
        /\ n.last_normal_view = s.last_normal_view /\ n.log_start = s.log_start
        /\ n.op_number = s.op_number /\ n.log_changed_from = s.log_changed_from
        /\ n.written = s.written /\ n.outstanding = s.outstanding
        /\ n.do_view_change_from = s.do_view_change_from /\ n.catching_up = s.catching_up
        /\ n.recovery_responses = s.recovery_responses /\ n.fetch = s.fetch
        /\ n.early = s.early /\ n.outbox = s.outbox /\ n.outbox_waiting = s.outbox_waiting
        /\ n.outbox_ready = s.outbox_ready
    BY <2>1, <2>2 DEF SameBut, CommitFields, ApplyFields, Fields
  <2>4. /\ s.id = r.id /\ s.view_number = r.view_number
        /\ s.last_normal_view = r.last_normal_view
        /\ s.written = r.written /\ s.outstanding = r.outstanding
        /\ s.do_view_change_from = r.do_view_change_from /\ s.catching_up = r.catching_up
        /\ s.recovery_responses = r.recovery_responses
        /\ s.early = r.early /\ s.outbox = r.outbox /\ s.outbox_waiting = r.outbox_waiting
        /\ s.outbox_ready = r.outbox_ready
    BY <1>7 DEF SameBut, RestoreFields, LogFields, Fields
  <2>5. NumbersOK(n)
    BY <2>1, <2>2 DEF SameBut, Fields, NumbersOK
  <2>6. ReceivedOK(n)
    BY <1>3, <2>3, <2>4 DEF ReceivedOK, FetchOK, NoFetch, Ready, ReplicaOK
  <2>7. OutboxesOK(n)
    BY <2>3, <2>4 DEF OutboxesOK, Ready, ReplicaOK
  <2>8. n.last_normal_view = n.view_number
    BY <1>1, <1>10, <2>3, <2>4 DEF Ready, Placed
  <2>9. Placed(n)
    BY <1>3, <2>2, <2>3, <2>8 DEF Placed, NoFetch
  <2>10. Ready(n)
    BY <2>2, <2>3, <2>4, <2>5, <2>6, <2>7, <2>9 DEF Ready, ReplicaOK, Status
  <2>11. Follows(r, n)
    BY <1>1, <1>9, <1>10, <2>2, <2>3, <2>4, <2>10 DEF Follows, Grows, Ready, ReplicaOK, NumbersOK
  <2>12. Follows(n, SendPrepareOk(n))
    BY <2>8, <2>10, SendPrepareOkFollows
  <2> QED
    BY <1>10, <2>11, <2>12, FollowsThrough DEF z
<1>11. CASE /\ t.status = "ViewChange" /\ IsPrimary(t)
            /\ Cardinality(t.do_view_change_from) >= Quorum
            /\ z = TryStartView(c)
  <2>1. r.status = "ViewChange" /\ IsPrimary(r)
    BY <1>1, <1>11 DEF IsPrimary
  <2>2. /\ c.status = r.status /\ c.view_number = r.view_number /\ c.id = r.id
        /\ c.do_view_change_from = r.do_view_change_from
        /\ c.recovery_responses = r.recovery_responses
    BY <1>8 DEF SameBut, RestoreFields, LogFields, Fields
  <2>3. ReceivedOK(c)
    BY <1>4, <1>5, <2>2 DEF ReceivedOK, FetchOK, NoFetch, Ready, ReplicaOK
  <2>4. ~c.fetch.on
    BY <1>5 DEF NoFetch
  <2>5. Follows(r, c)
    BY <1>6, <1>8, <1>9, <2>1, <2>3, <2>4, ElectedFollows
  <2>6. c.do_view_change_from # {}
    BY <1>1, <1>11, <2>2, QuorumNotEmpty DEF Ready, ReplicaOK, ReceivedOK
  <2>7. c.status = "ViewChange" /\ IsPrimary(c)
    BY <2>1, <2>2 DEF IsPrimary
  <2>8. Follows(c, TryStartView(c))
    BY <2>5, <2>6, <2>7, TryStartViewFollows DEF Follows
  <2> QED
    BY <1>11, <2>5, <2>8, FollowsThrough DEF z
<1>12. CASE t.status = "ViewChange" /\ z = SendPrepareOk(j)
  <2>1. /\ c.id = r.id /\ c.view_number = r.view_number /\ DOMAIN c = Fields
        /\ c.written = r.written /\ c.outstanding = r.outstanding
        /\ c.recovery_responses = r.recovery_responses
        /\ c.early = r.early /\ c.outbox = r.outbox /\ c.outbox_waiting = r.outbox_waiting
        /\ c.outbox_ready = r.outbox_ready
    BY <1>8 DEF SameBut, RestoreFields, LogFields, Fields
  <2>2. Joins(r, c)
    BY <1>1, <1>6, <1>9, <1>12, <2>1 DEF Joins, Ready, ReplicaOK, ReceivedOK, NumbersOK, Placed
  <2>3. Follows(r, j) /\ j.last_normal_view = j.view_number
    <3>1. \A reply : LET x == EnterNormal(CommitUpTo(c, commit, reply)) IN
                     Follows(r, x) /\ x.last_normal_view = x.view_number
      BY <2>2, EnterNormalFollows
    <3> QED
      BY <3>1
  <2> HIDE DEF j
  <2>4. Follows(j, SendPrepareOk(j))
    BY <2>3, SendPrepareOkFollows DEF Follows
  <2> QED
    BY <1>12, <2>3, <2>4, FollowsThrough DEF z
<1> QED
  BY <1>2, <1>10, <1>11, <1>12

LEMMA OnNewStateFollows ==
  ASSUME NEW r, Ready(r), r.ok, NEW m, MessageOK(m), m.type = "NewState"
  PROVE  Follows(r, OnNewState(r, m))
<1> DEFINE z == OnNewState(r, m)
           merged == MergeLog(r, m.segment)
           then == [type |-> "NewState", view_number |-> m.view_number,
                    segment |-> m.segment, commit_number |-> m.commit_number]
           installs == IF r.status = "StateTransfer" THEN InstallsInView(r, m.segment)
                       ELSE InstallsFromCommit(r, m.segment)
           waits == /\ m.view_number = r.view_number
                    /\ r.status \in {"StateTransfer", "ViewChange"}
<1>1. installs \in {"Nothing", "Checkpoint", "Log"}
  BY Zenon DEF InstallsInView, InstallsFromCommit, Installs
<1>2. \/ z = r
      \/ waits /\ installs = "Checkpoint" /\ z = StartFetch(r, m.replica_id, then)
      \/ waits /\ installs = "Log" /\ ~merged.ok /\ z = merged
      \/ waits /\ installs = "Log" /\ merged.ok /\ z = NewStateInstalled(merged, m.commit_number)
  <2> HIDE DEF merged, then, installs
  <2>1. CASE installs = "Nothing"
    BY <2>1 DEF OnNewState, installs, merged, then
  <2>2. CASE installs = "Checkpoint"
    BY <2>2 DEF OnNewState, installs, merged, then
  <2>3. CASE installs = "Log"
    BY <2>3 DEF OnNewState, installs, merged, then
  <2> QED
    BY <1>1, <2>1, <2>2, <2>3
<1>3. /\ m.view_number \in Nat /\ StateOK(m) /\ m.replica_id \in ReplicaID
      /\ SegmentOK(m.segment) /\ m.commit_number \in Nat
  BY DEF MessageOK, StateOK
<1>4. r.status = "StateTransfer" /\ installs # "Nothing" => m.segment.end >= r.op_number
  BY <1>3 DEF InstallsInView, SegmentOK, Ready, ReplicaOK, NumbersOK
<1>5. \/ merged = Fail(r)
      \/ /\ SameBut(r, merged, LogFields) /\ merged.op_number >= m.segment.end
         /\ NumbersOK(merged) /\ merged.log_changed_from # 0
  BY <1>3, MergeLogFrame DEF Ready, ReplicaOK
<1> HIDE DEF z, merged, installs
<1>6. CASE z = r
  BY <1>6, FollowsSelf DEF z
<1>7. CASE waits /\ installs = "Checkpoint" /\ z = StartFetch(r, m.replica_id, then)
  <2>1. Fits(r, then)
    BY <1>3, <1>4, <1>7 DEF Fits, StateOK
  <2> HIDE DEF then
  <2> QED
    BY <1>3, <1>7, <2>1, StartFetchFollows DEF z
<1>8. CASE waits /\ installs = "Log" /\ ~merged.ok /\ z = merged
  <2>1. merged = Fail(r)
    BY <1>5, <1>8 DEF SameBut, LogFields, Fields
  <2> QED
    BY <1>8, <2>1, FailFollows DEF z
<1>9. CASE waits /\ installs = "Log" /\ merged.ok /\ z = NewStateInstalled(merged, m.commit_number)
  <2>1. /\ SameBut(r, merged, LogFields) /\ merged.op_number >= m.segment.end
        /\ NumbersOK(merged) /\ merged.log_changed_from # 0
    BY <1>5, <1>9, FailFollows
  <2>2. SameBut(r, merged, RestoreFields \union {"fetch"})
    BY <2>1 DEF SameBut, RestoreFields
  <2>3. r.log_start <= merged.log_start
    BY <2>1 DEF SameBut, LogFields, Fields, Ready, ReplicaOK, NumbersOK
  <2>4. r.status = "StateTransfer" => r.op_number <= merged.op_number
    BY <1>3, <1>4, <1>9, <2>1 DEF SegmentOK, NumbersOK, Ready, ReplicaOK
  <2> QED
    BY <1>3, <1>9, <2>1, <2>2, <2>3, <2>4, NewStateInstalledFollows DEF z
<1> QED
  BY <1>2, <1>6, <1>7, <1>8, <1>9

LEMMA OnGetChunkFollows ==
  ASSUME NEW r, Ready(r), NEW m, MessageOK(m), m.type = "GetChunk"
  PROVE  Follows(r, OnGetChunk(r, m))
<1> DEFINE chunk == [i \in 1 .. m.op_number |-> r.sm[i]]
           last == m.index = ChunkCount - 1
           new == [type |-> "NewChunk", replica_id |-> r.id, op_number |-> m.op_number,
                   index |-> m.index, last |-> last, chunk |-> chunk]
<1>1. OnGetChunk(r, m) = r \/ OnGetChunk(r, m) = Send(r, m.replica_id, new)
  BY Zenon DEF OnGetChunk
<1>2. m.replica_id \in ReplicaID /\ m.op_number \in Nat
  BY DEF MessageOK
<1> HIDE DEF chunk, last
<1>3. MessageOK(new) /\ new.type \in EarlyTypes
  BY <1>2 DEF MessageOK, EarlyTypes, Votes, Ready, ReplicaOK
<1> HIDE DEF new
<1> QED
  BY <1>1, <1>2, <1>3, FollowsSelf, SendFollows

\* A recovering replica may take any log.
LEMMA RecoveringFollows ==
  ASSUME NEW r, NEW s, Ready(r), r.status = "Recovering",
         SameBut(r, s, RestoreFields \union {"fetch"}), NumbersOK(s), s.fetch = NoFetch,
         s.log_changed_from # 0, r.log_start <= s.log_start
  PROVE  Follows(r, s)
<1>1. /\ DOMAIN s = Fields /\ s.id = r.id /\ s.status = r.status
      /\ s.view_number = r.view_number /\ s.last_normal_view = r.last_normal_view
      /\ s.written = r.written /\ s.outstanding = r.outstanding
      /\ s.do_view_change_from = r.do_view_change_from /\ s.catching_up = r.catching_up
      /\ s.recovery_responses = r.recovery_responses
      /\ s.early = r.early /\ s.outbox = r.outbox /\ s.outbox_waiting = r.outbox_waiting
      /\ s.outbox_ready = r.outbox_ready
  BY DEF SameBut, RestoreFields, LogFields, Fields
<1>2. Placed(s)
  BY <1>1 DEF Ready, Placed, NoFetch
<1>3. ReceivedOK(s) /\ OutboxesOK(s)
  BY <1>1 DEF ReceivedOK, OutboxesOK, FetchOK, NoFetch, Ready, ReplicaOK
<1>4. Ready(s)
  BY <1>1, <1>2, <1>3 DEF Ready, ReplicaOK
<1> QED
  BY <1>1, <1>4 DEF Follows, Grows, Ready, ReplicaOK, NumbersOK

\* recover_into
LEMMA RecoverIntoFollows ==
  ASSUME NEW r, Ready(r), r.ok, r.status = "Recovering",
         NEW view \in Nat, view >= r.view_number, NEW state, StateOK(state)
  PROVE  Follows(r, RecoverInto(r, view, state))
<1> DEFINE z == RecoverInto(r, view, state)
           merged == MergeLog(r, state.segment)
           then == [type |-> "RecoveryResponse", view_number |-> view,
                    segment |-> state.segment, commit_number |-> state.commit_number]
           s == [merged EXCEPT !.view_number = view]
           t == EnterNormal(CommitUpTo(s, state.commit_number, FALSE))
           installs == InstallsFromCommit(r, state.segment)
<1>1. installs \in {"Nothing", "Checkpoint", "Log"}
  BY Zenon DEF InstallsFromCommit, Installs
<1>2. \/ z = Fail(r)
      \/ z = StartFetch(r, PrimaryOf(view), then)
      \/ ~merged.ok /\ z = merged
      \/ merged.ok /\ z = t
  <2> HIDE DEF merged, then, installs, t
  <2>1. CASE installs = "Nothing"
    BY <2>1 DEF RecoverInto, installs, merged, then, t
  <2>2. CASE installs = "Checkpoint"
    BY <2>2 DEF RecoverInto, installs, merged, then, t
  <2>3. CASE installs = "Log"
    BY <2>3 DEF RecoverInto, installs, merged, then, t
  <2> QED
    BY <1>1, <2>1, <2>2, <2>3
<1>3. SegmentOK(state.segment) /\ state.commit_number \in Nat
  BY DEF StateOK
<1>4. \/ merged = Fail(r)
      \/ /\ SameBut(r, merged, LogFields)
         /\ NumbersOK(merged) /\ merged.log_changed_from # 0
  BY <1>3, MergeLogFrame DEF Ready, ReplicaOK
<1> HIDE DEF z, merged, installs
<1>5. CASE z = Fail(r)
  BY <1>5, FailFollows DEF z
<1>6. CASE z = StartFetch(r, PrimaryOf(view), then)
  <2>1. Fits(r, then)
    BY DEF Fits, StateOK
  <2> HIDE DEF then
  <2>2. PrimaryOf(view) \in ReplicaID
    BY PrimaryIsReplica
  <2> QED
    BY <1>6, <2>1, <2>2, StartFetchFollows DEF z
<1>7. CASE ~merged.ok /\ z = merged
  <2>1. merged = Fail(r)
    BY <1>4, <1>7 DEF SameBut, LogFields, Fields
  <2> QED
    BY <1>7, <2>1, FailFollows DEF z
<1>8. CASE merged.ok /\ z = t
  <2>1. SameBut(r, merged, LogFields) /\ NumbersOK(merged) /\ merged.log_changed_from # 0
    BY <1>4, <1>8, FailFollows
  <2>2. SameBut(merged, s, {"view_number"}) /\ s.view_number = view
    BY <2>1 DEF SameBut, Fields
  <2> HIDE DEF s
  <2>3. SameBut(r, s, LogFields \union {"view_number"})
    BY <2>1, <2>2 DEF SameBut
  <2>4. /\ s.log_changed_from = merged.log_changed_from /\ s.op_number = merged.op_number
        /\ s.last_normal_view = r.last_normal_view
    BY <2>1, <2>2 DEF SameBut, LogFields, Fields
  <2>5. s.last_normal_view <= s.view_number
    BY <2>2, <2>4 DEF Ready, ReplicaOK, NumbersOK
  <2>6. NumbersOK(s)
    BY <2>1, <2>2, <2>4, <2>5 DEF SameBut, Fields, NumbersOK
  <2>7. r.view_number <= s.view_number
    BY <2>2 DEF Ready, ReplicaOK, NumbersOK
  <2>8. Joins(r, s)
    BY <2>1, <2>2, <2>3, <2>4, <2>6, <2>7 DEF
         Joins, SameBut, LogFields, Fields, Ready, ReplicaOK, NumbersOK, ReceivedOK
  <2>9. Follows(r, t)
    <3>1. \A reply : Follows(r, EnterNormal(CommitUpTo(s, state.commit_number, reply)))
      BY <1>3, <2>8, EnterNormalFollows
    <3> QED
      BY <3>1
  <2> QED
    BY <1>8, <2>9 DEF z
<1> QED
  BY <1>2, <1>5, <1>6, <1>7, <1>8

\* What a fetch goes on with fits.
LEMMA FetchFits ==
  ASSUME NEW r, Ready(r), r.fetch.on
  PROVE  Fits(r, r.fetch.then) /\ FetchOK(r.fetch)
  BY DEF Fits, Ready, Placed, ReplicaOK, ReceivedOK, FetchOK

LEMMA OnNewChunkFollows ==
  ASSUME NEW r, Ready(r), r.ok, NEW m, MessageOK(m), m.type = "NewChunk"
  PROVE  Follows(r, OnNewChunk(r, m))
<1> DEFINE z == OnNewChunk(r, m)
           then == r.fetch.then
           next == [r EXCEPT !.fetch = [@ EXCEPT !.index = m.index + 1, !.stalled = FALSE]]
           off == [r EXCEPT !.fetch = NoFetch]
           restored == RestoreCheckpoint(off, m.op_number, m.chunk)
           merged == MergeLog(restored, then.segment)
           last == r.fetch.on /\ then.segment.start = m.op_number /\ m.op_number > r.commit_number
<1>1. m.op_number \in Nat /\ r.commit_number \in Nat
  BY DEF MessageOK, Ready, ReplicaOK, NumbersOK
<1>2. \/ z = r
      \/ r.fetch.on /\ z = SendGetChunk(next)
      \/ z = off
      \/ last /\ then.type = "RecoveryResponse" /\ z = RecoverInto(restored, then.view_number, then)
      \/ last /\ then.type # "RecoveryResponse" /\ then.view_number # r.view_number /\ z = restored
      \/ /\ last /\ then.type # "RecoveryResponse"
         /\ z = NewStateInstalled(merged, then.commit_number)
  <2>1. CASE \/ ~r.fetch.on \/ r.fetch.from # m.replica_id \/ r.fetch.index # m.index
             \/ then.segment.start # m.op_number
    BY <2>1, Zenon DEF OnNewChunk
  <2>2. CASE ~ (\/ ~r.fetch.on \/ r.fetch.from # m.replica_id \/ r.fetch.index # m.index
                \/ then.segment.start # m.op_number)
    <3>1. CASE ~m.last
      BY <2>2, <3>1, Zenon DEF OnNewChunk
    <3>2. CASE m.last /\ m.op_number <= r.commit_number
      BY <2>2, <3>2, Zenon DEF OnNewChunk
    <3>3. CASE m.last /\ ~ (m.op_number <= r.commit_number)
      <4>1. last
        BY <1>1, <2>2, <3>3
      <4>2. z = IF then.type = "RecoveryResponse"
                THEN RecoverInto(restored, then.view_number, then)
                ELSE IF then.view_number # r.view_number THEN restored
                ELSE NewStateInstalled(merged, then.commit_number)
        BY <2>2, <3>3, Zenon DEF OnNewChunk
      <4> HIDE DEF z, restored, merged, last
      <4> QED
        BY <4>1, <4>2
    <3> QED
      BY <3>1, <3>2, <3>3
  <2> QED
    BY <2>1, <2>2
<1> HIDE DEF z
<1>3. CASE z = r
  BY <1>3, FollowsSelf DEF z
<1>4. CASE r.fetch.on /\ z = SendGetChunk(next)
  <2>1. /\ SameBut(r, next, {"fetch"})
        /\ next.fetch = [r.fetch EXCEPT !.index = m.index + 1, !.stalled = FALSE]
    BY DEF SameBut, Fields, Ready, ReplicaOK
  <2> HIDE DEF next
  <2>2. next.fetch.on /\ next.fetch.then = r.fetch.then /\ FetchOK(next.fetch)
    BY <1>4, <2>1, FetchFits DEF FetchOK, FetchFields
  <2>3. Follows(r, next)
    BY <1>4, <2>1, <2>2, FetchFits, FetchFollows
  <2>4. Follows(next, SendGetChunk(next))
    BY <2>2, <2>3, SendGetChunkFollows DEF Follows
  <2> QED
    BY <1>4, <2>3, <2>4, FollowsThrough DEF z
<1>5. SameBut(r, off, {"fetch"}) /\ off.fetch = NoFetch
  BY DEF SameBut, Fields, Ready, ReplicaOK
<1> HIDE DEF off
<1>6. Follows(r, off)
  <2>1. FetchOK(off.fetch) /\ ~off.fetch.on
    BY <1>5 DEF FetchOK, NoFetch
  <2> QED
    BY <1>5, <2>1, FetchFollows
<1>7. CASE z = off
  BY <1>6, <1>7 DEF z
<1>8. CASE last
  <2>1. Fits(r, then) /\ FetchOK(r.fetch)
    BY <1>8, FetchFits
  <2>2. off.commit_number = r.commit_number /\ off.log_start = r.log_start
        /\ off.applied = r.applied
    BY <1>5 DEF SameBut, Fields
  <2>3. m.op_number > off.commit_number
    BY <1>8, <2>2
  <2>4. NumbersOK(off) /\ DOMAIN off = Fields
    BY <1>6 DEF Follows, Ready, ReplicaOK
  <2>5. /\ SameBut(off, restored, RestoreFields)
        /\ NumbersOK(restored) /\ restored.op_number = m.op_number
        /\ restored.commit_number = m.op_number /\ restored.log_start = m.op_number
        /\ restored.log_changed_from # 0
    BY <1>1, <2>3, <2>4, RestoreCheckpointFrame
  <2> HIDE DEF restored
  <2>6. SameBut(r, restored, RestoreFields \union {"fetch"}) /\ restored.fetch = NoFetch
    BY <1>5, <2>5 DEF SameBut, RestoreFields, LogFields, Fields
  <2>7. r.log_start <= restored.log_start
    BY <1>1, <1>8, <2>5 DEF Ready, ReplicaOK, NumbersOK
  <2>8. CASE then.type = "RecoveryResponse" /\ z = RecoverInto(restored, then.view_number, then)
    <3>1. r.status = "Recovering" /\ then.view_number >= r.view_number
      BY <2>1, <2>8 DEF Fits
    <3>2. Follows(r, restored)
      BY <2>5, <2>6, <2>7, <3>1, RecoveringFollows
    <3>3. /\ restored.ok = r.ok /\ restored.status = r.status
          /\ restored.view_number = r.view_number
      BY <2>6 DEF SameBut, RestoreFields, LogFields, Fields
    <3>4. Follows(restored, RecoverInto(restored, then.view_number, then))
      BY <2>1, <3>1, <3>2, <3>3, RecoverIntoFollows DEF Follows, Fits
    <3> QED
      BY <2>8, <3>2, <3>4, FollowsThrough DEF z
  <2>9. CASE then.type # "RecoveryResponse" /\ z = NewStateInstalled(merged, then.commit_number)
    <3>1. r.status \in {"StateTransfer", "ViewChange"}
      BY <2>1, <2>9 DEF Fits, Ready, ReplicaOK, Status
    <3>2. SegmentOK(then.segment) /\ then.commit_number \in Nat
      BY <2>1 DEF Fits, StateOK
    <3>3. ~ (Higher(then.segment.start, restored.commit_number) > restored.op_number)
      BY <1>1, <1>8, <2>5 DEF Higher
    <3>4. /\ SameBut(restored, merged, LogFields)
          /\ NumbersOK(merged) /\ merged.op_number >= then.segment.end
          /\ merged.log_changed_from # 0
      BY <2>5, <3>2, <3>3, MergeLogFrame DEF SameBut
    <3> HIDE DEF merged
    <3>5. SameBut(r, merged, RestoreFields \union {"fetch"})
      BY <2>6, <3>4 DEF SameBut, RestoreFields
    <3>6. r.log_start <= merged.log_start
      BY <2>7, <3>4 DEF SameBut, LogFields, Fields
    <3>7. r.status = "StateTransfer" => r.op_number <= merged.op_number
      BY <2>1, <3>2, <3>4 DEF Fits, SegmentOK, NumbersOK, Ready, ReplicaOK
    <3> QED
      BY <2>9, <3>1, <3>2, <3>4, <3>5, <3>6, <3>7, NewStateInstalledFollows DEF z
  <2>10. then.type # "RecoveryResponse" => then.view_number = r.view_number
    BY <2>1 DEF Fits
  <2> HIDE DEF then
  <2> QED
    BY <1>2, <1>3, <1>4, <1>7, <2>8, <2>9, <2>10
<1> HIDE DEF last
<1> QED
  BY <1>2, <1>3, <1>4, <1>7, <1>8

-----------------------------------------------------------------------------
(* Recovery *)

LEMMA OnRecoveryFollows ==
  ASSUME NEW r, Ready(r), r.status # "Recovering", NEW m, MessageOK(m), m.type = "Recovery",
         NEW ck \in r.log_start .. r.applied
  PROVE  Follows(r, OnRecovery(r, m, ck))
<1> DEFINE z == OnRecovery(r, m, ck)
           s == IF IsPrimary(r) /\ NeedsCheckpoint(r, 0) THEN KeepCheckpoint(r, ck) ELSE r
           segment == IF NeedsCheckpoint(r, 0) THEN Segment(s, s.serving, TRUE)
                      ELSE Segment(r, 0, FALSE)
           full == [is |-> TRUE, segment |-> segment, commit_number |-> r.commit_number]
           state == IF IsPrimary(r) THEN full ELSE NoState
           response == [type |-> "RecoveryResponse", view_number |-> r.view_number,
                        nonce |-> m.nonce, replica_id |-> r.id, state |-> state]
<1>1. /\ m.view_number \in Nat /\ m.nonce \in Nat /\ m.replica_id \in ReplicaID
      /\ r.view_number \in Nat
  BY DEF MessageOK, Ready, ReplicaOK, NumbersOK
<1>2. CASE m.view_number > r.view_number
  <2>1. z = StartViewChange(r, m.view_number)
    BY <1>1, <1>2 DEF OnRecovery
  <2>2. r.view_number <= m.view_number /\ r.last_normal_view < m.view_number
    BY <1>1, <1>2 DEF Ready, ReplicaOK, NumbersOK
  <2> QED
    BY <1>1, <2>1, <2>2, StartViewChangeFollows
<1>3. CASE ~ (m.view_number > r.view_number)
  <2>1. m.view_number <= r.view_number
    BY <1>1, <1>3
  <2>2. z = r \/ z = s \/ (s.ok /\ z = Send(s, m.replica_id, response))
    BY <1>3, <2>1, Zenon DEF OnRecovery
  <2>3. /\ Follows(r, s)
        /\ s.ok /\ IsPrimary(r) /\ NeedsCheckpoint(r, 0) => s.serving \in Nat
    BY FollowsSelf, KeepCheckpointFollows
  <2> HIDE DEF s, z
  <2>4. s.ok /\ IsPrimary(r) => SegmentOK(segment)
    BY <2>3 DEF SegmentOK, Segment, Follows, Ready, ReplicaOK, NumbersOK
  <2> HIDE DEF segment
  <2>5. full.is /\ full.segment = segment /\ full.commit_number \in Nat
    BY DEF Ready, ReplicaOK, NumbersOK
  <2> HIDE DEF full
  <2>6. s.ok => (state.is => StateOK(state))
    BY <2>4, <2>5 DEF StateOK, NoState
  <2> HIDE DEF state
  <2>7. s.ok => MessageOK(response) /\ ~IsPromise(response)
    BY <1>1, <2>6 DEF MessageOK, EarlyTypes, Votes, IsPromise, Ready, ReplicaOK, NumbersOK
  <2> HIDE DEF response
  <2>8. s.ok => Follows(s, Send(s, m.replica_id, response))
    BY <1>1, <2>3, <2>7, SendFollows DEF Follows, Signed
  <2>9. s.ok => Follows(r, Send(s, m.replica_id, response))
    BY <2>3, <2>8, FollowsThrough
  <2> QED
    BY <2>2, <2>3, <2>9, FollowsSelf DEF z
<1> QED
  BY <1>2, <1>3

LEMMA OnRecoveryResponseFollows ==
  ASSUME NEW r, Ready(r), r.ok, NEW m, MessageOK(m), m.type = "RecoveryResponse"
  PROVE  Follows(r, OnRecoveryResponse(r, m))
<1> DEFINE z == OnRecoveryResponse(r, m)
           response == [replica_id |-> m.replica_id, view_number |-> m.view_number,
                        state |-> m.state]
           others == {q \in r.recovery_responses : q.replica_id # m.replica_id}
           got == others \union {response}
           s == [r EXCEPT !.recovery_responses =
                   {q \in @ : q.replica_id # m.replica_id} \union {response}]
           latest == Max({q.view_number : q \in s.recovery_responses})
           primary == {q \in s.recovery_responses : /\ q.replica_id = PrimaryOf(latest)
                                                    /\ q.view_number = latest
                                                    /\ q.state.is}
           chosen == CHOOSE q \in primary : TRUE
           none == [s EXCEPT !.recovery_responses = {}]
<1>1. \/ z = r
      \/ z = s
      \/ /\ r.status = "Recovering" /\ ~ (latest < r.view_number) /\ primary # {}
         /\ z = RecoverInto(none, latest, chosen.state)
  BY Zenon DEF OnRecoveryResponse
<1>2. /\ response.view_number \in Nat
      /\ response.state.is => StateOK(response.state)
  BY DEF MessageOK
<1> HIDE DEF response, z
<1>3. SameBut(r, s, {"recovery_responses"}) /\ s.recovery_responses = got
  BY DEF SameBut, Fields, Ready, ReplicaOK
<1>4. IsFiniteSet(got) /\ got # {}
      /\ \A q \in got : q.view_number \in Nat /\ (q.state.is => StateOK(q.state))
  <2>1. IsFiniteSet(others)
    BY FS_Subset DEF Ready, ReplicaOK, ReceivedOK
  <2>2. IsFiniteSet(got)
    BY <2>1, FS_AddElement
  <2> QED
    BY <1>2, <2>2 DEF Ready, ReplicaOK, ReceivedOK
<1> HIDE DEF s, got
<1>5. NumbersOK(s) /\ ReceivedOK(s) /\ Placed(s)
  BY <1>3, <1>4 DEF SameBut, Fields, NumbersOK, ReceivedOK, Placed, IsPrimary, Ready, ReplicaOK
<1>6. Follows(r, s)
  BY <1>3, <1>5, MildFollows DEF SameBut
<1>7. latest \in Nat
  BY <1>3, <1>4, GreatestView
<1>8. primary # {} => StateOK(chosen.state)
  BY <1>3, <1>4
<1> HIDE DEF latest, chosen
<1>9. CASE /\ r.status = "Recovering" /\ ~ (latest < r.view_number) /\ primary # {}
           /\ z = RecoverInto(none, latest, chosen.state)
  <2>1. SameBut(s, none, {"recovery_responses"}) /\ none.recovery_responses = {}
    BY <1>3 DEF SameBut, Fields
  <2> HIDE DEF none
  <2>2. NumbersOK(none) /\ ReceivedOK(none) /\ Placed(none)
    BY <1>5, <2>1, FS_EmptySet DEF SameBut, Fields, NumbersOK, ReceivedOK, Placed, IsPrimary
  <2>3. Follows(s, none)
    BY <1>6, <2>1, <2>2, MildFollows DEF SameBut, Follows
  <2>4. Follows(r, none)
    BY <1>6, <2>3, FollowsThrough
  <2>5. none.ok /\ none.status = "Recovering" /\ none.view_number = r.view_number
    BY <1>3, <1>9, <2>1 DEF SameBut, Fields
  <2>6. latest >= none.view_number
    BY <1>7, <1>9, <2>5 DEF Ready, ReplicaOK, NumbersOK
  <2>7. Follows(none, RecoverInto(none, latest, chosen.state))
    BY <1>7, <1>8, <1>9, <2>4, <2>5, <2>6, RecoverIntoFollows DEF Follows
  <2> QED
    BY <1>9, <2>4, <2>7, FollowsThrough DEF z
<1> HIDE DEF primary
<1> QED
  BY <1>1, <1>6, <1>9, FollowsSelf DEF z

LEMMA SendRecoveryFollows ==
  ASSUME NEW r, Ready(r)
  PROVE  Follows(r, SendRecovery(r))
<1> DEFINE answered == {q.replica_id : q \in r.recovery_responses}
           asks == IF Cardinality(answered) >= Quorum THEN Others(r.id)
                   ELSE Others(r.id) \ answered
           m == [type |-> "Recovery", replica_id |-> r.id,
                 nonce |-> r.recovery_nonce, view_number |-> r.view_number]
<1>1. \A q \in asks : q \in ReplicaID
  BY DEF Others
<1>2. MessageOK(m) /\ ~IsPromise(m)
  BY DEF MessageOK, EarlyTypes, Votes, IsPromise, Ready, ReplicaOK, NumbersOK
<1>3. SendRecovery(r) = SendTo(r, asks, m)
  BY DEF SendRecovery
<1> HIDE DEF m, asks
<1>4. Signed(r, m)
  BY <1>2 DEF Signed
<1> QED
  BY <1>1, <1>2, <1>3, <1>4, SendToFollows

-----------------------------------------------------------------------------
(* Idle periods *)

LEMMA ServeOnIdleFollows ==
  ASSUME NEW r, Ready(r), NEW release
  PROVE  LET s == ServeOnIdle(r, release) IN Follows(r, s) /\ SameBut(r, s, {"serving"})
<1> DEFINE s == [r EXCEPT !.serving = Nobody]
<1>1. ServeOnIdle(r, release) = r \/ ServeOnIdle(r, release) = s
  BY Zenon DEF ServeOnIdle
<1>2. SameBut(r, s, {"serving"}) /\ s.serving = Nobody
  BY DEF SameBut, Fields, Ready, ReplicaOK
<1> HIDE DEF s
<1>3. NumbersOK(s)
  BY <1>2 DEF SameBut, Fields, NumbersOK, Ready, ReplicaOK
<1>4. Follows(r, s)
  BY <1>2, <1>3, QuietFollows DEF SameBut, QuietFields
<1>5. SameBut(r, r, {"serving"})
  BY DEF SameBut, Ready, ReplicaOK
<1> QED
  BY <1>1, <1>2, <1>4, <1>5, FollowsSelf

SendFields == {"early", "outbox"}

LEMMA SendFrame ==
  ASSUME NEW r, DOMAIN r = Fields, NEW to, NEW m
  PROVE  SameBut(r, Send(r, to, m), SendFields)
  BY DEF Send, SameBut, Fields, SendFields

LEMMA FetchOnIdleFollows ==
  ASSUME NEW r, Ready(r), r.fetch.on, NEW stall
  PROVE  LET s == FetchOnIdle(r, stall) IN
         Follows(r, s) /\ SameBut(r, s, SendFields \union {"fetch"})
<1> DEFINE s == FetchOnIdle(r, stall)
           stalled == [r EXCEPT !.fetch = [@ EXCEPT !.stalled = TRUE]]
<1>1. s = stalled \/ s = SendGetChunk(r)
  BY Zenon DEF FetchOnIdle
<1> HIDE DEF s
<1>2. /\ SameBut(r, stalled, {"fetch"})
      /\ stalled.fetch = [r.fetch EXCEPT !.stalled = TRUE]
  BY DEF SameBut, Fields, Ready, ReplicaOK
<1> HIDE DEF stalled
<1>3. stalled.fetch.on /\ stalled.fetch.then = r.fetch.then /\ FetchOK(stalled.fetch)
  BY <1>2, FetchFits DEF FetchOK, FetchFields
<1>4. Follows(r, stalled)
  BY <1>2, <1>3, FetchFits, FetchFollows
<1>5. Follows(r, SendGetChunk(r))
  BY SendGetChunkFollows
<1>6. SameBut(r, SendGetChunk(r), SendFields)
  BY SendFrame DEF SendGetChunk, Ready, ReplicaOK
<1>7. /\ SameBut(r, SendGetChunk(r), SendFields \union {"fetch"})
      /\ SameBut(r, stalled, SendFields \union {"fetch"})
  BY <1>2, <1>6 DEF SameBut
<1> QED
  BY <1>1, <1>4, <1>5, <1>7 DEF s

LEMMA IdlePrimaryFollows ==
  ASSUME NEW r, Ready(r), NEW due \in Nat
  PROVE  Follows(r, IdlePrimary(r, due))
<1> DEFINE commit == [type |-> "Commit", view_number |-> r.view_number,
                      commit_number |-> r.commit_number]
           prepare == [type |-> "Prepare", view_number |-> r.view_number, op_number |-> due,
                       entry |-> r.log[due], commit_number |-> r.commit_number]
           confirm == [type |-> "ConfirmView", view_number |-> r.view_number,
                       round |-> r.round]
           s == SendToOthers(r, commit)
           behind == {q \in Others(r.id) : r.acked[q] < due}
           t == IF due = 0 THEN s ELSE SendTo(s, behind, prepare)
           unsure == {q \in ReplicaID : r.confirmed[q] < r.round}
<1>1. IdlePrimary(r, due) = t \/ IdlePrimary(r, due) = SendTo(t, unsure, confirm)
  BY Zenon DEF IdlePrimary
<1>2. /\ MessageOK(commit) /\ commit.type \in EarlyTypes
      /\ MessageOK(prepare) /\ prepare.type \in EarlyTypes
      /\ MessageOK(confirm) /\ confirm.type \in EarlyTypes
  BY DEF MessageOK, EarlyTypes, Votes, Ready, ReplicaOK, NumbersOK
<1>3. (\A q \in behind : q \in ReplicaID) /\ (\A q \in unsure : q \in ReplicaID)
  BY DEF Others
<1> HIDE DEF commit, prepare, confirm, behind, unsure
<1>4. Follows(r, s)
  BY <1>2, SendToOthersFollows
<1> HIDE DEF s
<1>5. Follows(s, SendTo(s, behind, prepare))
  BY <1>2, <1>3, <1>4, SendToFollows DEF Follows
<1>6. Follows(r, t)
  BY <1>4, <1>5, FollowsThrough
<1> HIDE DEF t
<1>7. Follows(t, SendTo(t, unsure, confirm))
  BY <1>2, <1>3, <1>6, SendToFollows DEF Follows
<1>8. Follows(r, SendTo(t, unsure, confirm))
  BY <1>6, <1>7, FollowsThrough
<1> QED
  BY <1>1, <1>6, <1>8

LEMMA IdleRecoveringFollows ==
  ASSUME NEW r, Ready(r), NEW stall
  PROVE  Follows(r, IdleRecovering(r, stall))
<1> DEFINE s == IF Fetching(r) THEN FetchOnIdle(r, TRUE) ELSE r
<1>1. \/ Fetching(r) /\ IdleRecovering(r, stall) = FetchOnIdle(r, FALSE)
      \/ IdleRecovering(r, stall) = SendRecovery(s)
  BY Zenon DEF IdleRecovering
<1>2. \A stalls : Fetching(r) => Follows(r, FetchOnIdle(r, stalls))
  BY FetchOnIdleFollows DEF Fetching
<1>3. Follows(r, s)
  BY <1>2, FollowsSelf
<1> HIDE DEF s
<1>4. Follows(r, SendRecovery(s))
  BY <1>3, SendRecoveryFollows, FollowsThrough DEF Follows
<1> QED
  BY <1>1, <1>2, <1>4

LEMMA StateTransferFrame ==
  ASSUME NEW r, DOMAIN r = Fields
  PROVE  LET s == StateTransfer(r) IN
         SameBut(r, s, SendFields \union {"status"}) /\ s.status = "StateTransfer"
<1> DEFINE t == [r EXCEPT !.status = "StateTransfer"]
           s == StateTransfer(r)
<1>1. SameBut(r, t, {"status"}) /\ t.status = "StateTransfer"
  BY DEF SameBut, Fields
<1> HIDE DEF t
<1>2. SameBut(t, s, SendFields)
  BY <1>1, SendFrame DEF StateTransfer, SendGetStateTo, SameBut, t
<1> HIDE DEF s
<1> QED
  BY <1>1, <1>2 DEF SameBut, SendFields, Fields, s

LEMMA IdleBackupFollows ==
  ASSUME NEW r, Ready(r), r.status \in {"Normal", "StateTransfer"}, ~IsPrimary(r),
         NEW stall, NEW timeout
  PROVE  Follows(r, IdleBackup(r, stall, timeout))
<1> DEFINE a == IF Fetching(r) THEN FetchOnIdle(r, TRUE) ELSE r
           s == CASE r.status = "Normal" -> r
                  [] r.status = "StateTransfer" /\ Fetching(r) /\ ~stall -> FetchOnIdle(r, FALSE)
                  [] OTHER -> StateTransfer(a)
           changed == SendFields \union {"fetch", "status"}
<1>1. \/ s = r
      \/ Fetching(r) /\ s = FetchOnIdle(r, FALSE)
      \/ s = StateTransfer(a)
  BY Zenon
<1>2. IdleBackup(r, stall, timeout) = IF timeout THEN StartViewChange(s, r.view_number + 1) ELSE s
  BY DEF IdleBackup
<1>3. \A stalls : Fetching(r) => LET f == FetchOnIdle(r, stalls) IN
                  Follows(r, f) /\ SameBut(r, f, SendFields \union {"fetch"})
  BY FetchOnIdleFollows DEF Fetching
<1>4. SameBut(r, r, SendFields \union {"fetch"})
  BY DEF SameBut, Ready, ReplicaOK
<1>5. Follows(r, a) /\ SameBut(r, a, SendFields \union {"fetch"})
  BY <1>3, <1>4, FollowsSelf
<1> HIDE DEF a
<1>6. a.status = r.status /\ a.view_number = r.view_number /\ a.id = r.id
  BY <1>5 DEF SameBut, SendFields, Fields
<1>7. Follows(a, StateTransfer(a)) /\ SameBut(a, StateTransfer(a), SendFields \union {"status"})
      /\ StateTransfer(a).status = "StateTransfer"
  BY <1>5, <1>6, StateTransferFollows, StateTransferFrame DEF Follows, IsPrimary, Ready, ReplicaOK
<1> HIDE DEF s
<1>8. Follows(r, s)
  <2>1. Follows(r, StateTransfer(a))
    BY <1>5, <1>7, FollowsThrough
  <2> QED
    BY <1>1, <1>3, <2>1, FollowsSelf
<1>9. SameBut(r, s, changed) /\ s.status # "Recovering"
  <2>1. SameBut(r, StateTransfer(a), changed)
    BY <1>5, <1>7 DEF SameBut
  <2>2. SameBut(r, r, changed)
    BY <1>4 DEF SameBut
  <2>3. Fetching(r) => SameBut(r, FetchOnIdle(r, FALSE), SendFields \union {"fetch"})
    BY <1>3
  <2>4. Fetching(r) => /\ SameBut(r, FetchOnIdle(r, FALSE), changed)
                       /\ FetchOnIdle(r, FALSE).status = r.status
    BY <2>3 DEF SameBut, SendFields, Fields
  <2> HIDE DEF changed
  <2> QED
    BY <1>1, <1>7, <2>1, <2>2, <2>4
<1>10. s.view_number = r.view_number /\ s.last_normal_view = r.last_normal_view
  BY <1>9 DEF SameBut, SendFields, Fields
<1>11. /\ r.view_number + 1 \in Nat /\ s.view_number <= r.view_number + 1
       /\ s.last_normal_view < r.view_number + 1
  BY <1>10 DEF Ready, ReplicaOK, NumbersOK
<1>12. Follows(s, StartViewChange(s, r.view_number + 1))
  BY <1>8, <1>9, <1>11, StartViewChangeFollows DEF Follows
<1>13. Follows(r, StartViewChange(s, r.view_number + 1))
  BY <1>8, <1>12, FollowsThrough
<1> QED
  BY <1>2, <1>8, <1>13

LEMMA IdleViewChangeFollows ==
  ASSUME NEW r, Ready(r), r.status = "ViewChange", NEW stall, NEW timeout
  PROVE  Follows(r, IdleViewChange(r, stall, timeout))
<1> DEFINE z == IdleViewChange(r, stall, timeout)
           f == IF Fetching(r) THEN FetchOnIdle(r, TRUE) ELSE r
           a == CASE r.catching_up = Nobody -> r
                  [] r.catching_up # Nobody /\ Fetching(r) /\ ~stall -> FetchOnIdle(r, FALSE)
                  [] OTHER -> SendGetStateTo(f, r.catching_up, r.commit_number)
           b == IF r.catching_up = Nobody \/ r.do_view_change_sent
                THEN SendStartViewChange(a) ELSE a
           changed == SendFields \union {"fetch"}
<1>1. \/ z = StartViewChange(r, r.view_number + 1)
      \/ z = SendDoViewChange(b)
      \/ z = b
  BY Zenon DEF IdleViewChange
<1>2. \/ a = r
      \/ Fetching(r) /\ a = FetchOnIdle(r, FALSE)
      \/ r.catching_up # Nobody /\ a = SendGetStateTo(f, r.catching_up, r.commit_number)
  BY Zenon
<1>3. \A stalls : Fetching(r) => LET g == FetchOnIdle(r, stalls) IN
                  Follows(r, g) /\ SameBut(r, g, changed)
  BY FetchOnIdleFollows DEF Fetching
<1>4. SameBut(r, r, changed)
  BY DEF SameBut, Ready, ReplicaOK
<1>5. Follows(r, f) /\ SameBut(r, f, changed)
  BY <1>3, <1>4, FollowsSelf
<1> HIDE DEF f, a, z
<1>6. Follows(r, a) /\ SameBut(r, a, changed)
  <2>1. CASE r.catching_up # Nobody /\ a = SendGetStateTo(f, r.catching_up, r.commit_number)
    <3>1. r.catching_up \in ReplicaID /\ r.commit_number \in Nat
      BY <2>1 DEF Ready, ReplicaOK, ReceivedOK, NumbersOK
    <3>2. Follows(f, a)
      BY <1>5, <2>1, <3>1, SendGetStateToFollows DEF Follows
    <3>3. SameBut(f, a, SendFields)
      BY <1>5, <2>1, SendFrame DEF SendGetStateTo, SameBut
    <3>4. SameBut(r, a, changed)
      BY <1>5, <3>3 DEF SameBut
    <3> QED
      BY <1>5, <3>2, <3>4, FollowsThrough
  <2>2. CASE a = r
    BY <1>4, <2>2, FollowsSelf
  <2>3. CASE Fetching(r) /\ a = FetchOnIdle(r, FALSE)
    BY <1>3, <2>3
  <2> QED
    BY <1>2, <2>1, <2>2, <2>3
<1>7. Follows(r, b) /\ SameBut(r, b, changed)
  <2>1. Follows(a, SendStartViewChange(a)) /\ SameBut(a, SendStartViewChange(a), {"outbox"})
    BY <1>6, SendStartViewChangeFollows, SendStartViewChangeFrame DEF Follows, SameBut
  <2>2. Follows(r, SendStartViewChange(a))
    BY <1>6, <2>1, FollowsThrough
  <2>3. SameBut(r, SendStartViewChange(a), changed)
    BY <1>6, <2>1 DEF SameBut, SendFields
  <2> QED
    BY <1>6, <2>2, <2>3
<1> HIDE DEF b
<1>8. b.status = "ViewChange"
  BY <1>7 DEF SameBut, SendFields, Fields
<1>9. Follows(b, SendDoViewChange(b))
  BY <1>7, <1>8, SendDoViewChangeFollows DEF Follows
<1>10. Follows(r, SendDoViewChange(b))
  BY <1>7, <1>9, FollowsThrough
<1>11. /\ r.view_number + 1 \in Nat /\ r.view_number <= r.view_number + 1
       /\ r.last_normal_view < r.view_number + 1
  BY DEF Ready, ReplicaOK, NumbersOK
<1>12. Follows(r, StartViewChange(r, r.view_number + 1))
  BY <1>11, StartViewChangeFollows
<1> QED
  BY <1>1, <1>7, <1>10, <1>12 DEF z

LEMMA OnIdleFollows ==
  ASSUME NEW r, Ready(r), NEW timeout, NEW stall, NEW release, NEW due \in Nat
  PROVE  Follows(r, OnIdle(r, timeout, stall, release, due))
<1> DEFINE z == OnIdle(r, timeout, stall, release, due)
           s == ServeOnIdle(r, release)
<1>1. Follows(r, s) /\ SameBut(r, s, {"serving"})
  BY ServeOnIdleFollows
<1>2. s.status = r.status /\ s.view_number = r.view_number /\ s.id = r.id
  BY <1>1 DEF SameBut, Fields
<1>3. CASE Serves(r)
  <2>1. z = IdlePrimary(s, due)
    BY <1>3 DEF OnIdle, Serves
  <2> HIDE DEF s
  <2>2. Follows(s, IdlePrimary(s, due))
    BY <1>1, IdlePrimaryFollows DEF Follows
  <2> QED
    BY <1>1, <2>1, <2>2, FollowsThrough
<1>4. CASE r.status = "Recovering"
  <2>1. z = IdleRecovering(s, stall)
    BY <1>4 DEF OnIdle, Serves
  <2> HIDE DEF s
  <2>2. Follows(s, IdleRecovering(s, stall))
    BY <1>1, IdleRecoveringFollows DEF Follows
  <2> QED
    BY <1>1, <2>1, <2>2, FollowsThrough
<1>5. CASE r.status = "ViewChange"
  <2>1. z = IdleViewChange(s, stall, timeout)
    BY <1>5 DEF OnIdle, Serves
  <2> HIDE DEF s
  <2>2. Follows(s, IdleViewChange(s, stall, timeout))
    BY <1>1, <1>2, <1>5, IdleViewChangeFollows DEF Follows
  <2> QED
    BY <1>1, <2>1, <2>2, FollowsThrough
<1>6. CASE ~Serves(r) /\ r.status \notin {"Recovering", "ViewChange"}
  <2>1. z = IdleBackup(s, stall, timeout)
    BY <1>6 DEF OnIdle
  <2>2. r.status \in {"Normal", "StateTransfer"} /\ ~IsPrimary(r)
    BY <1>6 DEF Serves, Ready, ReplicaOK, Status, Placed
  <2> HIDE DEF s
  <2>3. ~IsPrimary(s)
    BY <1>2, <2>2 DEF IsPrimary
  <2>4. Follows(s, IdleBackup(s, stall, timeout))
    BY <1>1, <1>2, <2>2, <2>3, IdleBackupFollows DEF Follows
  <2> QED
    BY <1>1, <2>1, <2>4, FollowsThrough
<1> QED
  BY <1>3, <1>4, <1>5, <1>6

-----------------------------------------------------------------------------
(* The owner's side *)

LEMMA CompactFollows ==
  ASSUME NEW r, Ready(r), NEW op \in Nat
  PROVE  Follows(r, Compact(r, op))
<1> DEFINE z == Compact(r, op)
           served == IF r.serving = Nobody THEN {} ELSE {r.serving}
           S == {op, r.applied} \union served
           upto == Min(S)
           s == [r EXCEPT !.log_start = upto,
                          !.log = [i \in upto + 1 .. r.op_number |-> r.log[i]]]
<1>1. S \in SUBSET Nat /\ S # {} /\ r.applied \in S
  BY DEF Ready, ReplicaOK, NumbersOK
<1>2. upto \in Nat /\ upto <= r.applied
  <2> HIDE DEF S
  <2>1. Min(S) \in S /\ \A n \in S : Min(S) <= n
    BY <1>1, MinIsLeast
  <2> QED
    BY <1>1, <2>1
<1>3. z = r \/ (~ (upto <= r.log_start) /\ z = s)
  BY Zenon DEF Compact
<1> HIDE DEF upto, z
<1>4. SameBut(r, s, {"log_start", "log"}) /\ s.log_start = upto
  BY DEF SameBut, Fields, Ready, ReplicaOK
<1> HIDE DEF s
<1>5. CASE ~ (upto <= r.log_start)
  <2>1. NumbersOK(s)
    BY <1>2, <1>4 DEF SameBut, Fields, NumbersOK, Ready, ReplicaOK
  <2>2. ReceivedOK(s) /\ OutboxesOK(s) /\ Placed(s)
    BY <1>4 DEF SameBut, Fields, Ready, ReplicaOK, ReceivedOK, OutboxesOK, Placed, IsPrimary
  <2>3. Ready(s)
    BY <1>4, <2>1, <2>2 DEF SameBut, Fields, Ready, ReplicaOK
  <2>4. r.log_start <= s.log_start
    BY <1>2, <1>4, <1>5 DEF Ready, ReplicaOK, NumbersOK
  <2>5. Follows(r, s)
    BY <1>4, <2>3, <2>4 DEF SameBut, Fields, Follows, Grows, Ready, ReplicaOK, NumbersOK
  <2> QED
    BY <1>3, <2>5, FollowsSelf DEF z
<1>6. CASE upto <= r.log_start
  BY <1>3, <1>6, FollowsSelf DEF z
<1> QED
  BY <1>5, <1>6

\* Replica id may be r, with d on its disk, as far as the messages sent go.
Owned(id, r, d) ==
  /\ r.id = id /\ ReplicaInv(r, d)
  /\ \A e \in msgs : SentInv(r, d, e[2])

\* What IInv says of a replica.
LEMMA IsOwned ==
  ASSUME IInv, NEW id \in ReplicaID
  PROVE  Owned(id, rep[id], disk[id]) /\ rep[id].outbox_ready = {}
  BY DEF IInv, Owned

\* A handler that follows leaves a replica as it may be.
LEMMA FollowsOwned ==
  ASSUME IInv, NEW id \in ReplicaID, rep[id].ok, NEW s, Follows(rep[id], s)
  PROVE  /\ Owned(id, s, disk[id]) /\ s.outbox_ready = {}
         /\ s.ok /\ id \notin SteppingOn => ~s.outstanding.out
<1> DEFINE r == rep[id]
           d == disk[id]
<1>1. /\ r.id = id /\ r.ok /\ ReplicaInv(r, d) /\ r.outbox_ready = {}
      /\ r.ok /\ id \notin SteppingOn => ~r.outstanding.out
      /\ \A e \in msgs : SentInv(r, d, e[2]) /\ MessageOK(e[2])
  BY DEF IInv, Addressed
<1>2. Follows(r, s)
  OBVIOUS
<1> HIDE DEF r, d
<1>3. Ready(r) /\ Ready(s) /\ Grows(r, s) /\ s.id = r.id
  BY <1>1, <1>2 DEF ReplicaInv, Ready, Follows
<1>4. WrittenInv(s, d)
  <2>1. /\ s.outstanding = r.outstanding /\ s.written = r.written
        /\ s.log_changed_from = 0 => r.log_changed_from = 0 /\ s.op_number = r.op_number
        /\ r.log_start <= s.log_start
    BY <1>2 DEF Follows
  <2>2. WrittenInv(r, d) /\ r.log_start \in Nat /\ s.log_start \in Nat
    BY <1>1, <1>3 DEF ReplicaInv, Ready, ReplicaOK, NumbersOK
  <2> QED
    BY <2>1, <2>2 DEF WrittenInv
<1>5. ViewsInv(s, d)
  BY <1>1, <1>2, <1>3 DEF ReplicaInv, ViewsInv, WriteOK, DiskOK, Follows, Grows,
                          Ready, ReplicaOK, NumbersOK
<1>6. WaitingInv(s)
  <2>1. ASSUME NEW e \in s.outbox PROVE Signed(s, e[2])
    <3>1. CASE e \notin r.outbox
      BY <1>2, <3>1 DEF Follows
    <3>2. CASE e \in r.outbox
      <4>1. Signed(r, e[2]) /\ MessageOK(e[2])
        BY <1>1, <1>3, <3>2 DEF ReplicaInv, WaitingInv, Ready, ReplicaOK, OutboxesOK, Addressed
      <4> QED
        BY <1>3, <4>1, GrowsKeeps
    <3> QED
      BY <3>1, <3>2
  <2>2. ASSUME NEW e \in s.outbox_waiting
        PROVE  /\ s.outstanding.out /\ Signed(s, e[2])
               /\ IsPromise(e[2]) => KeepsOnDisk(s.outstanding, e[2])
    <3>1. e \in r.outbox_waiting /\ s.outstanding = r.outstanding
      BY <1>2 DEF Follows
    <3>2. /\ r.outstanding.out /\ Signed(r, e[2]) /\ MessageOK(e[2])
          /\ IsPromise(e[2]) => KeepsOnDisk(r.outstanding, e[2])
      BY <1>1, <1>3, <3>1 DEF ReplicaInv, WaitingInv, Ready, ReplicaOK, OutboxesOK, Addressed
    <3> QED
      BY <1>3, <3>1, <3>2, GrowsKeeps
  <2> QED
    BY <2>1, <2>2 DEF WaitingInv
<1>7. ReplicaInv(s, d)
  BY <1>1, <1>2, <1>3, <1>4, <1>5, <1>6 DEF ReplicaInv, Ready, Follows
<1>8. ASSUME NEW e \in msgs PROVE SentInv(s, d, e[2])
  <2> DEFINE m == e[2]
  <2>1. SentInv(r, d, m) /\ MessageOK(m)
    BY <1>1
  <2> HIDE DEF m
  <2>2. IsPromise(m) /\ Signer(m) = r.id => Signed(r, m)
    BY <1>1, <2>1 DEF SentInv, Signed
  <2>3. IsPromise(m) /\ Signer(m) = r.id => KeepsNow(s, m)
    BY <1>3, <2>1, <2>2, GrowsKeeps DEF Signed
  <2>4. s.outstanding = r.outstanding
    BY <1>2 DEF Follows
  <2>5. SentInv(s, d, m)
    BY <1>3, <2>1, <2>3, <2>4 DEF SentInv
  <2> QED
    BY <2>5 DEF m
<1>9. Owned(id, s, d)
  BY <1>1, <1>3, <1>7, <1>8 DEF Owned
<1> QED
  BY <1>1, <1>2, <1>9 DEF Follows, d

\* take_write: what is in the outbox is kept by the write.
LEMMA TakeWriteOwned ==
  ASSUME NEW id, NEW r, NEW d, Owned(id, r, d), r.ok, ~r.outstanding.out
  PROVE  LET t == TakeWrite(r) IN
         Owned(id, t, d) /\ t.ok /\ t.outstanding.out /\ t.outbox_ready = r.outbox_ready
<1> DEFINE from == IF r.log_changed_from = 0 THEN r.op_number + 1
                   ELSE Higher(r.log_changed_from, r.log_start + 1)
           recovers == r.status = "Recovering"
           written == [is |-> TRUE, view_number |-> r.view_number,
                       last_normal_view |-> r.last_normal_view,
                       recovering |-> recovers, log_start |-> r.log_start]
           entries == [i \in from .. r.op_number |-> r.log[i]]
           sync == r.log_changed_from # 0 \/ written # r.written
           w == [out |-> TRUE, view_number |-> r.view_number,
                 last_normal_view |-> r.last_normal_view,
                 recovering |-> written.recovering, commit_number |-> r.commit_number,
                 log_start |-> r.log_start, entries_from |-> from,
                 op_number |-> r.op_number, entries |-> entries, sync |-> sync]
           t == [r EXCEPT !.durable = DurableOp(r), !.log_changed_from = 0,
                     !.written = written, !.outstanding = w,
                     !.outbox = r.outbox_waiting, !.outbox_waiting = r.outbox]
<1>1. TakeWrite(r) = t
  BY Zenon DEF TakeWrite
<1>2. ReplicaInv(r, d) /\ Ready(r)
  BY DEF Owned, ReplicaInv, Ready
<1>3. /\ r.log_changed_from \in Nat /\ r.log_start \in Nat /\ r.op_number \in Nat
      /\ r.view_number \in Nat /\ r.last_normal_view \in Nat /\ r.commit_number \in Nat
      /\ r.last_normal_view <= r.view_number
      /\ r.log_start <= r.op_number /\ r.log_changed_from <= r.op_number + 1
  BY <1>2 DEF Ready, ReplicaOK, NumbersOK
<1>4. from \in Nat /\ from <= r.op_number + 1
  BY <1>3 DEF Higher
<1> HIDE DEF from, entries, recovers
<1>5. /\ written.is /\ written.view_number = r.view_number
      /\ written.last_normal_view = r.last_normal_view
      /\ written.recovering = recovers /\ written.log_start = r.log_start
  OBVIOUS
<1> HIDE DEF written, sync
<1>6. /\ w.out /\ w.view_number = r.view_number /\ w.last_normal_view = r.last_normal_view
      /\ w.recovering = recovers /\ w.commit_number = r.commit_number
      /\ w.log_start = r.log_start /\ w.entries_from = from /\ w.op_number = r.op_number
      /\ w.sync = sync
  BY <1>5
<1> HIDE DEF w
<1>7. /\ SameBut(r, t, {"durable", "log_changed_from", "written", "outstanding", "outbox",
                        "outbox_waiting"})
      /\ t.durable = DurableOp(r) /\ t.log_changed_from = 0 /\ t.written = written
      /\ t.outstanding = w /\ t.outbox = r.outbox_waiting /\ t.outbox_waiting = r.outbox
  BY <1>2 DEF SameBut, Fields, Ready, ReplicaOK
<1> HIDE DEF t
<1>8. /\ DOMAIN t = Fields /\ t.id = r.id /\ t.status = r.status /\ t.ok = r.ok
      /\ t.view_number = r.view_number /\ t.last_normal_view = r.last_normal_view
      /\ t.log_start = r.log_start /\ t.op_number = r.op_number
      /\ t.outbox_ready = r.outbox_ready
  BY <1>7 DEF SameBut, Fields
<1>9. ReplicaOK(t)
  <2>1. NumbersOK(t)
    BY <1>2, <1>7, DurableOpType DEF SameBut, Fields, NumbersOK, Ready, ReplicaOK
  <2>2. ReceivedOK(t)
    BY <1>2, <1>7 DEF SameBut, Fields, ReceivedOK, Ready, ReplicaOK
  <2>3. OutboxesOK(t)
    BY <1>2, <1>7 DEF SameBut, Fields, OutboxesOK, Ready, ReplicaOK
  <2> QED
    BY <1>2, <1>8, <2>1, <2>2, <2>3 DEF Ready, ReplicaOK
<1>10. Placed(t)
  BY <1>2, <1>7 DEF SameBut, Fields, Placed, IsPrimary, Ready
<1>11. WriteOK(w)
  BY <1>3, <1>4, <1>6 DEF WriteOK
<1>12. w.recovering => MaxLosses # 0
  BY <1>2, <1>6 DEF Ready, Placed, recovers
<1>13. WrittenInv(t, d)
  <2>1. ASSUME ~w.sync
        PROVE  /\ d.view_number = w.view_number
               /\ d.last_normal_view = w.last_normal_view
               /\ d.recovering = w.recovering
               /\ MaxLosses = 0 => d.op_number = w.op_number
    <3>1. r.log_changed_from = 0 /\ r.written = written
      BY <1>6, <2>1 DEF sync
    <3>2. /\ r.written.view_number = d.view_number
          /\ r.written.last_normal_view = d.last_normal_view
          /\ r.written.recovering = d.recovering
          /\ MaxLosses = 0 => r.op_number = d.op_number \/ r.log_start > r.written.log_start
      BY <1>2, <1>5, <3>1 DEF ReplicaInv, WrittenInv
    <3> QED
      BY <1>3, <1>5, <1>6, <3>1, <3>2
  <2> QED
    BY <1>3, <1>5, <1>6, <1>7, <1>8, <2>1 DEF WrittenInv
<1>14. ViewsInv(t, d)
  BY <1>2, <1>3, <1>6, <1>7, <1>8 DEF ReplicaInv, ViewsInv, DiskOK
<1>15. \A m : KeepsNow(r, m) => KeepsNow(t, m) /\ KeepsOnDisk(w, m)
  BY <1>6, <1>8 DEF KeepsNow, KeepsOnDisk, recovers
<1>16. r.outbox_waiting = {} /\ \A e \in r.outbox : Signed(r, e[2])
  BY <1>2 DEF ReplicaInv, WaitingInv
<1>17. WaitingInv(t)
  BY <1>6, <1>7, <1>8, <1>15, <1>16 DEF WaitingInv, Signed
<1>18. ReplicaInv(t, d)
  BY <1>2, <1>7, <1>9, <1>10, <1>11, <1>12, <1>13, <1>14, <1>17 DEF ReplicaInv
<1>19. \A e \in msgs : SentInv(t, d, e[2])
  BY <1>7, <1>8, <1>15 DEF Owned, SentInv
<1> QED
  BY <1>1, <1>6, <1>7, <1>8, <1>18, <1>19 DEF Owned
\* A write that lands leaves the disk as the write is; one that does not fit
\* leaves the disk alone.
LEMMA LandedIs ==
  ASSUME NEW r, NEW d, ReplicaInv(r, d), r.outstanding.out
  PROVE  LET w == r.outstanding
             landed == Landed(d, w)
         IN  /\ DiskOK(landed)
             /\ d.view_number <= landed.view_number /\ landed.view_number <= r.view_number
             /\ w.sync /\ ~WriteFits(d, w) => landed = d
             /\ ~ (w.sync /\ ~WriteFits(d, w)) =>
                  /\ landed.view_number = w.view_number
                  /\ landed.last_normal_view = w.last_normal_view
                  /\ landed.recovering = w.recovering
                  /\ MaxLosses = 0 => landed.op_number = w.op_number
<1> DEFINE w == r.outstanding
           landed == Landed(d, w)
<1>1. /\ WriteOK(w) /\ w.out /\ DiskOK(d) /\ (w.recovering => MaxLosses # 0)
      /\ WrittenInv(r, d) /\ ViewsInv(r, d)
  BY DEF ReplicaInv
<1>2. CASE w.sync /\ WriteFits(d, w)
  <2> DEFINE start == Higher(d.log_start, w.log_start)
  <2>1. landed = ApplyWrite(d, w)
    BY <1>2 DEF Landed
  <2>2. start \in Nat /\ start <= w.op_number
    BY <1>1, <1>2 DEF WriteFits, WriteOK, DiskOK, Higher
  <2>3. /\ landed.view_number = w.view_number /\ landed.last_normal_view = w.last_normal_view
        /\ landed.recovering = w.recovering /\ landed.op_number = w.op_number
        /\ landed.commit_number = w.commit_number /\ landed.log_start = start
    BY <2>1 DEF ApplyWrite
  <2> HIDE DEF landed, start
  <2>4. DiskOK(landed)
    BY <1>1, <2>2, <2>3 DEF WriteOK, DiskOK
  <2> QED
    BY <1>1, <1>2, <2>3, <2>4 DEF landed, ViewsInv
<1>3. CASE ~w.sync
  <2>1. landed = d
    BY <1>3 DEF Landed
  <2>2. /\ d.view_number = w.view_number /\ d.last_normal_view = w.last_normal_view
        /\ d.recovering = w.recovering
        /\ MaxLosses = 0 => d.op_number = w.op_number
    BY <1>1, <1>3 DEF WrittenInv
  <2> QED
    BY <1>1, <1>3, <2>1, <2>2 DEF ViewsInv, DiskOK
<1>4. CASE w.sync /\ ~WriteFits(d, w)
  <2>1. landed = d
    BY <1>4 DEF Landed
  <2> QED
    BY <1>1, <1>4, <2>1 DEF ViewsInv, DiskOK
<1> QED
  BY <1>2, <1>3, <1>4

\* It keeps what the write keeps.
LEMMA LandedKeeps ==
  ASSUME NEW r, NEW d, ReplicaInv(r, d), r.outstanding.out,
         NEW m, KeepsOnDisk(r.outstanding, m),
         KeepsOnDisk(d, m) \/ ~ (r.outstanding.sync /\ ~WriteFits(d, r.outstanding))
  PROVE  KeepsOnDisk(Landed(d, r.outstanding), m)
<1>1. CASE r.outstanding.sync /\ ~WriteFits(d, r.outstanding)
  BY <1>1, LandedIs
<1>2. CASE ~ (r.outstanding.sync /\ ~WriteFits(d, r.outstanding))
  BY <1>2, LandedIs DEF KeepsOnDisk, Keeps
<1> QED
  BY <1>1, <1>2
PersistedFields == CommitFields \union {"acked", "durable", "outstanding", "outbox_ready",
                                        "outbox_waiting"}

\* persisted: nothing is out, and what waited may leave.
LEMMA PersistedFrame ==
  ASSUME NEW r, Ready(r), WriteOK(r.outstanding), r.outstanding.out
  PROVE  LET p == Persisted(r) IN
         /\ SameBut(r, p, PersistedFields) /\ NumbersOK(p)
         /\ ~p.outstanding.out /\ p.outbox_waiting = {}
         /\ p.outbox_ready = r.outbox_ready \union r.outbox_waiting
<1> DEFINE op == r.outstanding.op_number
           a == [r EXCEPT !.outstanding = NoWrite, !.durable = op]
           op_a == DurableOp(a)
           b == IF Serves(a) /\ r.outstanding.last_normal_view = a.view_number
                THEN RegisterAck(a, a.id, op_a) ELSE a
           c == ApplyCommitted(b, op_a)
           p == [c EXCEPT !.outbox_ready = @ \union r.outbox_waiting, !.outbox_waiting = {}]
<1>1. Persisted(r) = p
  BY Zenon DEF Persisted
<1>2. op \in Nat
  BY DEF WriteOK
<1> HIDE DEF op
<1>3. SameBut(r, a, {"outstanding", "durable"}) /\ a.outstanding = NoWrite /\ a.durable = op
  BY DEF SameBut, Fields, Ready, ReplicaOK
<1> HIDE DEF a
<1>4. NumbersOK(a)
  BY <1>2, <1>3 DEF SameBut, Fields, NumbersOK, Ready, ReplicaOK
<1>5. Ready(a)
  <2>1. ReceivedOK(a) /\ OutboxesOK(a) /\ Placed(a)
    BY <1>3 DEF SameBut, Fields, Ready, ReplicaOK, ReceivedOK, OutboxesOK, Placed, IsPrimary
  <2> QED
    BY <1>3, <1>4, <2>1 DEF SameBut, Fields, Ready, ReplicaOK
<1>6. op_a \in Nat
  BY <1>4, DurableOpType
<1> HIDE DEF op_a
<1>7. SameBut(a, b, CommitFields \union {"acked"}) /\ Ready(b)
  <2>1. a.id \in ReplicaID
    BY <1>5 DEF Ready, ReplicaOK
  <2>2. /\ Follows(a, RegisterAck(a, a.id, op_a))
        /\ SameBut(a, RegisterAck(a, a.id, op_a), CommitFields \union {"acked"})
    BY <1>5, <1>6, <2>1, RegisterAckFollows
  <2>3. SameBut(a, a, CommitFields \union {"acked"})
    BY <1>3 DEF SameBut
  <2> QED
    BY <1>5, <2>2, <2>3 DEF Follows
<1> HIDE DEF b
<1>8. /\ SameBut(b, c, ApplyFields) /\ c.applied \in Nat /\ b.applied <= c.applied
      /\ c.applied <= c.commit_number /\ c.applied <= c.op_number
  BY <1>6, <1>7, ApplyCommittedFrame DEF Ready, ReplicaOK
<1> HIDE DEF c
<1>9. NumbersOK(c)
  <2>1. NumbersOK(b)
    BY <1>7 DEF Ready, ReplicaOK
  <2> QED
    BY <1>8, <2>1 DEF SameBut, ApplyFields, Fields, NumbersOK
<1>10. SameBut(r, c, CommitFields \union {"acked", "durable", "outstanding"})
  BY <1>3, <1>7, <1>8 DEF SameBut, CommitFields, ApplyFields
<1>11. c.outstanding = NoWrite
  BY <1>3, <1>7, <1>8 DEF SameBut, CommitFields, ApplyFields, Fields
<1>12. /\ SameBut(c, p, {"outbox_ready", "outbox_waiting"}) /\ p.outbox_waiting = {}
       /\ p.outbox_ready = c.outbox_ready \union r.outbox_waiting
  BY <1>10 DEF SameBut, Fields
<1> HIDE DEF p
<1>13. NumbersOK(p)
  BY <1>9, <1>12 DEF SameBut, Fields, NumbersOK
<1>14. SameBut(r, p, PersistedFields)
  BY <1>10, <1>12 DEF SameBut, PersistedFields
<1>15. p.outstanding = NoWrite /\ c.outbox_ready = r.outbox_ready
  BY <1>10, <1>11, <1>12 DEF SameBut, CommitFields, ApplyFields, Fields
<1> QED
  BY <1>1, <1>12, <1>13, <1>14, <1>15 DEF NoWrite

\* The write is handed back: the promises that waited for it are kept on disk.
LEMMA HandBackOwned ==
  ASSUME NEW id, NEW r, NEW d, Owned(id, r, d), r.ok, r.outstanding.out, r.outbox_ready = {}
  PROVE  LET w == r.outstanding
             p == IF w.sync /\ ~WriteFits(d, w) THEN Fail(r) ELSE Persisted(r)
             landed == Landed(d, w)
         IN  /\ Owned(id, p, landed) /\ (p.ok => ~p.outstanding.out)
             /\ d.view_number <= landed.view_number
             /\ \A e \in p.outbox_ready : /\ SentInv(p, landed, e[2])
                                          /\ IsPromise(e[2]) => Signer(e[2]) = id
<1> DEFINE w == r.outstanding
           fits == ~ (w.sync /\ ~WriteFits(d, w))
           p == IF w.sync /\ ~WriteFits(d, w) THEN Fail(r) ELSE Persisted(r)
           landed == Landed(d, w)
<1>1. ReplicaInv(r, d) /\ Ready(r) /\ WriteOK(w) /\ w.out /\ r.id = id
  BY DEF Owned, ReplicaInv, Ready
<1>2. DiskOK(landed) /\ d.view_number <= landed.view_number /\ landed.view_number <= r.view_number
  BY <1>1, LandedIs
<1>3. CASE ~fits
  <2>1. p = Fail(r) /\ landed = d
    BY <1>1, <1>3, LandedIs
  <2>2. SameBut(r, Fail(r), {"ok"}) /\ Fail(r).ok = FALSE
    BY <1>1 DEF Fail, SameBut, Fields, Ready, ReplicaOK
  <2> DEFINE s == Fail(r)
  <2> HIDE DEF s
  <2>3. SameBut(r, s, {"ok"}) /\ s.ok = FALSE
    BY <2>2 DEF s
  <2>4. ReplicaOK(s)
    BY <1>1, <2>3 DEF SameBut, Fields, Ready, ReplicaOK, NumbersOK, ReceivedOK, OutboxesOK
  <2>5. WrittenInv(s, d) /\ ViewsInv(s, d) /\ WaitingInv(s)
    BY <1>1, <2>3 DEF SameBut, Fields, ReplicaInv, WrittenInv, ViewsInv, WaitingInv
  <2>6. s.id = id /\ s.outstanding = w /\ s.outbox_ready = {}
    BY <1>1, <2>3 DEF SameBut, Fields
  <2>7. ReplicaInv(s, d)
    BY <1>1, <2>3, <2>4, <2>5, <2>6 DEF ReplicaInv
  <2>8. \A e \in msgs : SentInv(s, d, e[2])
    BY <1>1, <2>3, <2>6 DEF Owned, SentInv
  <2>9. Owned(id, s, d) /\ ~s.ok
    BY <2>3, <2>6, <2>7, <2>8 DEF Owned
  <2> QED
    BY <1>2, <2>1, <2>6, <2>9 DEF s
<1>4. CASE fits
  <2>1. p = Persisted(r)
    BY <1>4
  <2>2. /\ landed.view_number = w.view_number /\ landed.last_normal_view = w.last_normal_view
        /\ landed.recovering = w.recovering
        /\ MaxLosses = 0 => landed.op_number = w.op_number
    BY <1>1, <1>4, LandedIs
  <2>3. \A m : KeepsOnDisk(w, m) => KeepsOnDisk(landed, m)
    BY <1>1, <1>4, LandedKeeps
  <2>4. /\ SameBut(r, p, PersistedFields) /\ NumbersOK(p)
        /\ ~p.outstanding.out /\ p.outbox_waiting = {}
        /\ p.outbox_ready = r.outbox_waiting
    BY <1>1, <2>1, PersistedFrame
  <2> HIDE DEF p, landed
  <2>5. /\ DOMAIN p = Fields /\ p.id = r.id /\ p.status = r.status
        /\ p.view_number = r.view_number /\ p.last_normal_view = r.last_normal_view
        /\ p.log_start = r.log_start /\ p.op_number = r.op_number
        /\ p.log_changed_from = r.log_changed_from /\ p.written = r.written
        /\ p.fetch = r.fetch /\ p.early = r.early /\ p.outbox = r.outbox
        /\ p.catching_up = r.catching_up /\ p.do_view_change_from = r.do_view_change_from
        /\ p.recovery_responses = r.recovery_responses
    BY <2>4 DEF SameBut, PersistedFields, CommitFields, ApplyFields, Fields
  <2>6. ReplicaOK(p) /\ Placed(p)
    <3>1. ReceivedOK(p) /\ OutboxesOK(p) /\ Placed(p)
      BY <1>1, <2>4, <2>5 DEF Ready, ReplicaOK, ReceivedOK, OutboxesOK, Placed, IsPrimary
    <3> QED
      BY <1>1, <2>4, <2>5, <3>1 DEF Ready, ReplicaOK
  <2>7. WrittenInv(p, landed)
    BY <1>1, <2>2, <2>4, <2>5 DEF ReplicaInv, WrittenInv
  <2>8. ViewsInv(p, landed)
    BY <1>2, <2>4, <2>5 DEF ViewsInv
  <2>9. \A m : KeepsNow(r, m) => KeepsNow(p, m)
    BY <2>5 DEF KeepsNow
  <2>10. WaitingInv(p)
    BY <1>1, <2>4, <2>5, <2>9 DEF ReplicaInv, WaitingInv, Signed
  <2>11. ReplicaInv(p, landed)
    BY <1>2, <2>4, <2>6, <2>7, <2>8, <2>10 DEF ReplicaInv, WriteOK
  <2>12. \A m : SentInv(r, d, m) => SentInv(p, landed, m)
    BY <1>1, <2>3, <2>4, <2>5, <2>9 DEF SentInv
  <2>13. Owned(id, p, landed)
    BY <1>1, <2>5, <2>11, <2>12 DEF Owned
  <2>14. ASSUME NEW e \in p.outbox_ready
         PROVE  SentInv(p, landed, e[2]) /\ (IsPromise(e[2]) => Signer(e[2]) = id)
    <3>1. Signed(r, e[2]) /\ (IsPromise(e[2]) => KeepsOnDisk(w, e[2]))
      BY <1>1, <2>4, <2>14 DEF ReplicaInv, WaitingInv
    <3> QED
      BY <1>1, <2>3, <2>4, <2>9, <3>1 DEF Signed, SentInv
  <2> QED
    BY <1>2, <2>4, <2>13, <2>14 DEF p, landed
<1> QED
  BY <1>3, <1>4
-----------------------------------------------------------------------------
(* Steps *)

ViewsGrow ==
  \A q \in ReplicaID : /\ disk'[q].view_number >= disk[q].view_number
                       /\ rep'[q].view_number >= disk[q].view_number

\* No message that leaves early is a promise.
LEMMA EarlyIsNoPromise ==
  ASSUME NEW m, m.type \in EarlyTypes
  PROVE  ~IsPromise(m)
  BY DEF EarlyTypes, IsPromise, Votes

\* The other replicas are as they were, and are not bound by what id sends.
LEMMA OneSteps ==
  ASSUME IInv, NEW id \in ReplicaID, NEW s, NEW d, NEW new,
         Owned(id, s, d), s.outbox_ready = {}, s.ok /\ id \notin SteppingOn => ~s.outstanding.out,
         disk[id].view_number <= d.view_number,
         \A e \in new : /\ Addressed(e) /\ SentInv(s, d, e[2])
                        /\ IsPromise(e[2]) => Signer(e[2]) = id,
         rep' = [rep EXCEPT ![id] = s],
         DOMAIN disk' = ReplicaID, disk'[id] = d, \A q \in ReplicaID \ {id} : disk'[q] = disk[q],
         msgs' \subseteq msgs \union new,
         DOMAIN flushed' = ReplicaID, \A q \in ReplicaID : flushed'[q] \in Nat, losses' \in Nat
  PROVE  IInv' /\ ViewsGrow
<1>1. DOMAIN rep' = ReplicaID /\ DOMAIN disk' = ReplicaID
  BY DEF IInv
<1>2. \A e \in msgs' : Addressed(e)
  BY DEF IInv
<1>3. ASSUME NEW q \in ReplicaID
      PROVE  /\ rep'[q].id = q /\ rep'[q].outbox_ready = {}
             /\ ReplicaInv(rep'[q], disk'[q])
             /\ rep'[q].ok /\ q \notin SteppingOn => ~rep'[q].outstanding.out
             /\ \A e \in msgs' : SentInv(rep'[q], disk'[q], e[2])
             /\ disk'[q].view_number >= disk[q].view_number
  <2>1. CASE q = id
    <3>1. rep'[q] = s /\ disk'[q] = d
      BY <2>1 DEF IInv
    <3>2. \A e \in msgs' : SentInv(s, d, e[2])
      BY DEF Owned
    <3>3. d.view_number >= disk[q].view_number
      BY <2>1 DEF Owned, ReplicaInv, IInv, DiskOK
    <3> QED
      BY <2>1, <3>1, <3>2, <3>3 DEF Owned
  <2>2. CASE q # id
    <3>1. rep'[q] = rep[q] /\ disk'[q] = disk[q]
      BY <2>2 DEF IInv
    <3>2. /\ rep[q].id = q /\ rep[q].outbox_ready = {} /\ ReplicaInv(rep[q], disk[q])
          /\ rep[q].ok /\ q \notin SteppingOn => ~rep[q].outstanding.out
          /\ \A e \in msgs : SentInv(rep[q], disk[q], e[2])
      BY DEF IInv
    <3>3. \A e \in new : SentInv(rep[q], disk[q], e[2])
      BY <2>2, <3>2 DEF SentInv
    <3>4. \A e \in msgs' : SentInv(rep[q], disk[q], e[2])
      BY <3>2, <3>3
    <3>5. disk[q].view_number >= disk[q].view_number
      BY <3>2 DEF ReplicaInv, DiskOK
    <3> QED
      BY <3>1, <3>2, <3>4, <3>5
  <2> QED
    BY <2>1, <2>2
<1>4. IInv'
  BY SMTT(30), <1>1, <1>2, <1>3 DEF IInv, ReplicaInv, ReplicaOK, NumbersOK, ReceivedOK, OutboxesOK,
     Placed, IsPrimary, WriteOK, DiskOK, WrittenInv, ViewsInv, WaitingInv, SentInv
<1>5. ASSUME NEW q \in ReplicaID PROVE rep'[q].view_number >= disk[q].view_number
  <2>1. /\ disk'[q].view_number >= disk[q].view_number
        /\ ReplicaInv(rep'[q], disk'[q]) /\ ReplicaInv(rep[q], disk[q])
    BY <1>3 DEF IInv
  <2>2. /\ disk'[q].view_number <= rep'[q].view_number
        /\ disk'[q].view_number \in Nat /\ rep'[q].view_number \in Nat
        /\ disk[q].view_number \in Nat
    BY <2>1 DEF ReplicaInv, ViewsInv, DiskOK, ReplicaOK, NumbersOK
  <2> QED
    BY <2>1, <2>2
<1> QED
  BY <1>3, <1>4, <1>5 DEF ViewsGrow

\* The owner sends what need not wait.
LEMMA DrainedOwned ==
  ASSUME NEW id, NEW p, NEW d, Owned(id, p, d)
  PROVE  LET s == Drained(p) IN
         /\ Owned(id, s, d) /\ s.outbox_ready = {}
         /\ s.ok = p.ok /\ s.outstanding = p.outstanding
         /\ \A m : SentInv(p, d, m) => SentInv(s, d, m)
<1> DEFINE s == Drained(p)
<1>1. ReplicaInv(p, d) /\ ReplicaOK(p) /\ DOMAIN p = Fields
  BY DEF Owned, ReplicaInv, ReplicaOK
<1>2. /\ SameBut(p, s, {"early", "outbox_ready", "replies", "round_unsent"})
      /\ s.early = {} /\ s.outbox_ready = {}
  BY <1>1 DEF Drained, SameBut, Fields
<1> HIDE DEF s
<1>3. /\ DOMAIN s = Fields /\ s.id = p.id /\ s.status = p.status /\ s.ok = p.ok
      /\ s.view_number = p.view_number /\ s.last_normal_view = p.last_normal_view
      /\ s.log_start = p.log_start /\ s.op_number = p.op_number
      /\ s.log_changed_from = p.log_changed_from /\ s.written = p.written
      /\ s.outstanding = p.outstanding
      /\ s.fetch = p.fetch /\ s.outbox = p.outbox /\ s.outbox_waiting = p.outbox_waiting
      /\ s.catching_up = p.catching_up /\ s.do_view_change_from = p.do_view_change_from
      /\ s.recovery_responses = p.recovery_responses
  BY <1>2 DEF SameBut, Fields
<1>4. NumbersOK(s)
  BY <1>1, <1>2 DEF SameBut, Fields, ReplicaOK, NumbersOK
<1>5. ReplicaOK(s)
  BY <1>1, <1>2, <1>3, <1>4 DEF ReplicaOK, ReceivedOK, OutboxesOK
<1>6. \A m : KeepsNow(p, m) => KeepsNow(s, m)
  BY <1>3 DEF KeepsNow
<1>7. ReplicaInv(s, d)
  <2>1. p.ok => Placed(s)
    BY <1>1, <1>3 DEF ReplicaInv, Placed, IsPrimary
  <2>2. WrittenInv(s, d) /\ ViewsInv(s, d)
    BY <1>1, <1>3 DEF ReplicaInv, WrittenInv, ViewsInv
  <2>3. WaitingInv(s)
    BY <1>1, <1>3, <1>6 DEF ReplicaInv, WaitingInv, Signed
  <2> QED
    BY <1>1, <1>3, <1>5, <2>1, <2>2, <2>3 DEF ReplicaInv
<1>8. \A m : SentInv(p, d, m) => SentInv(s, d, m)
  BY <1>3, <1>6 DEF SentInv
<1> QED
  BY <1>2, <1>3, <1>7, <1>8 DEF Owned, s

\* What a step sends is in flight, or was forgotten.
LEMMA SentIs ==
  ASSUME NEW id, NEW r, NEW d
  PROVE  Sent(id, r, d) \subseteq msgs \union (r.early \union r.outbox_ready)
  BY DEF Sent
LEMMA DrainedSteps ==
  ASSUME IInv, NEW id \in ReplicaID, NEW p, NEW d,
         Owned(id, p, d), p.ok /\ id \notin SteppingOn => ~p.outstanding.out,
         disk[id].view_number <= d.view_number,
         \A e \in p.outbox_ready : /\ SentInv(p, d, e[2])
                                   /\ IsPromise(e[2]) => Signer(e[2]) = id,
         rep' = [rep EXCEPT ![id] = Drained(p)], disk' = [disk EXCEPT ![id] = d],
         msgs' = Sent(id, p, d),
         DOMAIN flushed' = ReplicaID, \A q \in ReplicaID : flushed'[q] \in Nat, losses' \in Nat
  PROVE  IInv' /\ ViewsGrow
<1> DEFINE s == Drained(p)
           new == p.early \union p.outbox_ready
<1>1. /\ Owned(id, s, d) /\ s.outbox_ready = {}
      /\ s.ok = p.ok /\ s.outstanding = p.outstanding
      /\ \A m : SentInv(p, d, m) => SentInv(s, d, m)
  BY DrainedOwned
<1>2. msgs' \subseteq msgs \union new
  BY SentIs
<1>3. ASSUME NEW e \in new
      PROVE  /\ Addressed(e) /\ SentInv(p, d, e[2])
             /\ IsPromise(e[2]) => Signer(e[2]) = id
  <2>1. OutboxesOK(p)
    BY DEF Owned, ReplicaInv, ReplicaOK
  <2>2. CASE e \in p.outbox_ready
    BY <2>1, <2>2 DEF OutboxesOK
  <2>3. CASE e \in p.early
    <3>1. Addressed(e) /\ ~IsPromise(e[2])
      BY <2>1, <2>3, EarlyIsNoPromise DEF OutboxesOK
    <3> QED
      BY <3>1 DEF SentInv
  <2> QED
    BY <2>2, <2>3
<1>4. rep' = [rep EXCEPT ![id] = s]
  OBVIOUS
<1> HIDE DEF s, new
<1>5. \A e \in new : /\ Addressed(e) /\ SentInv(s, d, e[2])
                     /\ IsPromise(e[2]) => Signer(e[2]) = id
  BY <1>1, <1>3
<1>6. /\ DOMAIN disk' = ReplicaID /\ disk'[id] = d
      /\ \A q \in ReplicaID \ {id} : disk'[q] = disk[q]
  BY DEF IInv
<1> QED
  BY ZenonT(60), <1>1, <1>2, <1>4, <1>5, <1>6, OneSteps

\* A replica leaves a step with its write landed or still to be taken.
LEMMA LeaveSteps ==
  ASSUME IInv, NEW id \in ReplicaID, NEW r, NEW d, NEW k \in Nat,
         Owned(id, r, d), r.outbox_ready = {}, r.ok /\ id \notin SteppingOn => ~r.outstanding.out,
         disk[id].view_number <= d.view_number,
         LeaveWith(id, r, d, k), losses' \in Nat
  PROVE  IInv' /\ ViewsGrow
<1> DEFINE p == Written(r, d)
           landed == WrittenDisk(r, d)
<1>1. /\ rep' = [rep EXCEPT ![id] = Drained(p)] /\ disk' = [disk EXCEPT ![id] = landed]
      /\ msgs' = Sent(id, p, landed) /\ flushed' = [flushed EXCEPT ![id] = k]
  BY DEF LeaveWith
<1>2. DOMAIN flushed' = ReplicaID /\ \A q \in ReplicaID : flushed'[q] \in Nat
  BY <1>1 DEF IInv
<1>3. r.id = id
  BY DEF Owned
<1>4. /\ disk[id].view_number \in Nat /\ d.view_number \in Nat
  BY DEF IInv, Owned, ReplicaInv, DiskOK
<1>5. /\ Owned(id, p, landed) /\ (p.ok /\ id \notin SteppingOn => ~p.outstanding.out)
      /\ d.view_number <= landed.view_number /\ landed.view_number \in Nat
      /\ \A e \in p.outbox_ready : /\ SentInv(p, landed, e[2])
                                   /\ IsPromise(e[2]) => Signer(e[2]) = id
  <2>1. CASE id \in SteppingOn \/ ~r.ok
    <3>1. p = r /\ landed = d
      BY <1>3, <2>1 DEF Written, WrittenDisk
    <3> QED
      BY <1>4, <3>1
  <2>2. CASE ~ (id \in SteppingOn \/ ~r.ok)
    <3> DEFINE t == TakeWrite(r)
               w == t.outstanding
    <3>1. p = (IF w.sync /\ ~WriteFits(d, w) THEN Fail(t) ELSE Persisted(t))
      BY <1>3, <2>2 DEF Written
    <3>2. landed = Landed(d, w)
      BY <1>3, <2>2 DEF WrittenDisk
    <3>3. Owned(id, t, d) /\ t.ok /\ w.out /\ t.outbox_ready = {}
      BY <2>2, TakeWriteOwned
    <3> HIDE DEF t, p, landed
    <3>4. /\ Owned(id, p, landed) /\ (p.ok => ~p.outstanding.out)
          /\ d.view_number <= landed.view_number
          /\ \A e \in p.outbox_ready : /\ SentInv(p, landed, e[2])
                                       /\ IsPromise(e[2]) => Signer(e[2]) = id
      BY <3>1, <3>2, <3>3, HandBackOwned
    <3>5. landed.view_number \in Nat
      BY <3>4 DEF Owned, ReplicaInv, DiskOK
    <3> QED
      BY <3>4, <3>5
  <2> QED
    BY <2>1, <2>2
<1> HIDE DEF p, landed
<1>6. disk[id].view_number <= landed.view_number
  BY <1>4, <1>5
<1> QED
  BY <1>1, <1>2, <1>5, <1>6, DrainedSteps

\* A handler that follows keeps the invariant.
LEMMA FollowsSteps ==
  ASSUME IInv, NEW id \in ReplicaID, rep[id].ok, NEW s, Follows(rep[id], s),
         Leave(id, s), UNCHANGED losses
  PROVE  IInv' /\ ViewsGrow
<1> DEFINE k == IF s.log_start > rep[id].applied THEN s.log_start ELSE flushed[id]
<1>1. LeaveWith(id, s, disk[id], k)
  BY DEF Leave
<1>2. k \in Nat
  BY DEF IInv, Follows, Ready, ReplicaOK, NumbersOK
<1>3. /\ Owned(id, s, disk[id]) /\ s.outbox_ready = {}
      /\ s.ok /\ id \notin SteppingOn => ~s.outstanding.out
  BY FollowsOwned
<1>4. disk[id].view_number <= disk[id].view_number /\ losses' \in Nat
  BY DEF IInv, ReplicaInv, DiskOK
<1> HIDE DEF k
<1> QED
  BY <1>1, <1>2, <1>3, <1>4, LeaveSteps

LEMMA HandlerSteps ==
  ASSUME IInv, NEW id \in ReplicaID, rep[id].ok, NEW s, Follows(rep[id], s),
         Step(id, s), UNCHANGED losses
  PROVE  IInv' /\ ViewsGrow
<1>1. Leave(id, s)
  BY DEF Step
<1> QED
  BY <1>1, FollowsSteps
-----------------------------------------------------------------------------
(* Replicas that start *)

LEMMA NewIs ==
  ASSUME NEW id \in ReplicaID
  PROVE  LET r == New(id) IN
         /\ Ready(r) /\ r.id = id /\ r.status = "Normal" /\ r.ok
         /\ r.view_number = 0 /\ r.last_normal_view = 0 /\ r.log_changed_from = 0
         /\ r.outstanding = NoWrite /\ ~r.written.is /\ r.fetch = NoFetch
         /\ r.early = {} /\ r.outbox = {} /\ r.outbox_waiting = {} /\ r.outbox_ready = {}
<1> DEFINE r == New(id)
           none == [q \in ReplicaID |-> 0]
<1>1. DOMAIN r = Fields
  BY DEF New, Fields
<1>2. /\ r.id = id /\ r.status = "Normal" /\ r.ok
      /\ r.view_number = 0 /\ r.last_normal_view = 0 /\ r.log_changed_from = 0
      /\ r.outstanding = NoWrite /\ ~r.written.is /\ r.fetch = NoFetch
      /\ r.early = {} /\ r.outbox = {} /\ r.outbox_waiting = {} /\ r.outbox_ready = {}
      /\ r.commit_number = 0 /\ r.applied = 0 /\ r.log_start = 0 /\ r.op_number = 0
      /\ r.durable = 0 /\ r.recovery_nonce = 0 /\ r.acked = none /\ r.serving = Nobody
      /\ r.catching_up = Nobody /\ r.do_view_change_from = {} /\ r.recovery_responses = {}
  BY DEF New
<1> HIDE DEF r
<1>3. none \in [ReplicaID -> Nat]
  OBVIOUS
<1> HIDE DEF none
<1>4. NumbersOK(r)
  BY <1>2, <1>3 DEF NumbersOK
<1>5. ReceivedOK(r)
  BY <1>2, FS_EmptySet DEF ReceivedOK, FetchOK, NoFetch
<1>6. OutboxesOK(r)
  BY <1>2 DEF OutboxesOK
<1>7. Placed(r)
  BY <1>2 DEF Placed, NoFetch
<1>8. ReplicaOK(r)
  BY <1>1, <1>2, <1>4, <1>5, <1>6 DEF ReplicaOK, Status
<1> QED
  BY <1>2, <1>7, <1>8 DEF Ready, r

LEMMA SendRecoveryFrame ==
  ASSUME NEW r, DOMAIN r = Fields
  PROVE  SameBut(r, SendRecovery(r), {"outbox"})
  BY DEF SendRecovery, SendTo, EarlyTypes, SameBut, Fields
\* Replica::recover asks for the state and promises nothing.
LEMMA RecoverIs ==
  ASSUME NEW id \in ReplicaID, NEW view \in Nat, NEW nonce \in Nat, MaxLosses # 0
  PROVE  LET r == Recover(id, view, nonce) IN
         /\ Ready(r) /\ r.id = id /\ r.status = "Recovering" /\ r.ok
         /\ r.view_number = view /\ r.last_normal_view = 0 /\ r.log_changed_from = 0
         /\ r.outstanding = NoWrite /\ ~r.written.is /\ r.fetch = NoFetch
         /\ r.outbox_waiting = {} /\ r.outbox_ready = {}
         /\ \A e \in r.outbox : ~IsPromise(e[2])
<1> DEFINE n == New(id)
           s == [n EXCEPT !.status = "Recovering", !.view_number = view,
                          !.recovery_nonce = nonce]
           r == SendRecovery(s)
<1>1. Recover(id, view, nonce) = r
  BY DEF Recover
<1>2. /\ Ready(n) /\ n.id = id /\ n.ok
      /\ n.last_normal_view = 0 /\ n.log_changed_from = 0
      /\ n.outstanding = NoWrite /\ ~n.written.is /\ n.fetch = NoFetch
      /\ n.outbox = {} /\ n.outbox_waiting = {} /\ n.outbox_ready = {}
  BY NewIs
<1> HIDE DEF n
<1>3. /\ SameBut(n, s, {"status", "view_number", "recovery_nonce"})
      /\ s.status = "Recovering" /\ s.view_number = view /\ s.recovery_nonce = nonce
  BY <1>2 DEF SameBut, Fields, Ready, ReplicaOK
<1> HIDE DEF s
<1>4. Ready(s)
  <2>1. NumbersOK(s)
    BY <1>2, <1>3 DEF SameBut, Fields, NumbersOK, Ready, ReplicaOK
  <2>2. s.fetch = NoFetch
    BY <1>2, <1>3 DEF SameBut, Fields
  <2>3. Placed(s)
    BY <1>3, <2>2 DEF Placed, NoFetch
  <2>4. ReceivedOK(s) /\ OutboxesOK(s)
    BY <1>2, <1>3 DEF SameBut, Fields, ReceivedOK, OutboxesOK, Ready, ReplicaOK
  <2> QED
    BY <1>2, <1>3, <2>1, <2>3, <2>4 DEF SameBut, Fields, Ready, ReplicaOK, Status
<1>5. Follows(s, r)
  BY <1>4, SendRecoveryFollows
<1>6. SameBut(s, r, {"outbox"})
  BY <1>3, SendRecoveryFrame DEF SameBut
<1>7. \A e \in r.outbox : ~IsPromise(e[2])
  <2> DEFINE answered == {q.replica_id : q \in s.recovery_responses}
             asks == IF Cardinality(answered) >= Quorum THEN Others(s.id)
                     ELSE Others(s.id) \ answered
             m == [type |-> "Recovery", replica_id |-> s.id,
                   nonce |-> s.recovery_nonce, view_number |-> s.view_number]
  <2>1. r = SendTo(s, asks, m)
    BY DEF SendRecovery
  <2>2. m.type \notin EarlyTypes /\ ~IsPromise(m)
    BY DEF EarlyTypes, IsPromise, Votes
  <2>3. s.outbox = {} /\ DOMAIN s = Fields
    BY <1>2, <1>3 DEF SameBut, Fields
  <2> HIDE DEF asks, m, r
  <2>4. r.outbox = asks \X {m}
    BY <2>1, <2>2, <2>3 DEF SendTo, Fields
  <2> QED
    BY <2>2, <2>4
<1> HIDE DEF r
<1> QED
  BY <1>1, <1>2, <1>3, <1>5, <1>6, <1>7 DEF SameBut, Fields, Follows

\* The replica that restart starts from.
LEMMA RestartedIs ==
  ASSUME NEW id \in ReplicaID, NEW d, DiskOK(d), NEW nonce \in Nat
  PROVE  LET r == Restarted(id, d, nonce) IN
         /\ ReplicaOK(r) /\ r.id = id /\ r.ok
         /\ r.view_number = d.view_number /\ r.log_changed_from = 0
         /\ d.recovering => r.status = "Recovering"
         /\ ~d.recovering => /\ r.status = "Normal"
                             /\ r.last_normal_view = d.last_normal_view /\ r.outbox = {}
         /\ r.outstanding = NoWrite /\ ~r.written.is /\ r.fetch = NoFetch
         /\ r.outbox_waiting = {} /\ r.outbox_ready = {}
         /\ \A e \in r.outbox : ~IsPromise(e[2])
<1> DEFINE r == Restarted(id, d, nonce)
<1>1. CASE d.recovering
  <2>1. r = Recover(id, d.view_number, nonce)
    BY <1>1 DEF Restarted
  <2>2. d.view_number \in Nat /\ MaxLosses # 0
    BY <1>1 DEF DiskOK
  <2> HIDE DEF r
  <2> QED
    BY <1>1, <2>1, <2>2, RecoverIs DEF r, Ready
<1>2. CASE ~d.recovering
  <2> DEFINE n == New(id)
  <2>1. r = [n EXCEPT !.view_number = d.view_number,
                      !.last_normal_view = d.last_normal_view, !.recovery_nonce = nonce]
    BY <1>2 DEF Restarted
  <2>2. /\ Ready(n) /\ n.id = id /\ n.ok /\ n.status = "Normal" /\ n.log_changed_from = 0
        /\ n.outstanding = NoWrite /\ ~n.written.is /\ n.fetch = NoFetch
        /\ n.outbox = {} /\ n.outbox_waiting = {} /\ n.outbox_ready = {}
    BY NewIs
  <2> HIDE DEF n, r
  <2>3. /\ SameBut(n, r, {"view_number", "last_normal_view", "recovery_nonce"})
        /\ r.view_number = d.view_number /\ r.last_normal_view = d.last_normal_view
        /\ r.recovery_nonce = nonce
    BY <2>1, <2>2 DEF SameBut, Fields, Ready, ReplicaOK
  <2>4. NumbersOK(r)
    BY <2>2, <2>3 DEF SameBut, Fields, NumbersOK, Ready, ReplicaOK, DiskOK
  <2>5. ReplicaOK(r)
    BY <2>2, <2>3, <2>4 DEF SameBut, Fields, ReceivedOK, OutboxesOK, Ready, ReplicaOK
  <2> QED
    BY <1>2, <2>2, <2>3, <2>5 DEF r, SameBut, Fields
<1> QED
  BY <1>1, <1>2
\* r is what a start with d on disk may leave: nothing is out, and it keeps what
\* the disk keeps.
Rebuilt(id, r, d) ==
  /\ ReplicaOK(r) /\ r.id = id /\ ~r.outstanding.out
  /\ r.outbox_waiting = {} /\ r.outbox_ready = {}
  /\ d.view_number <= r.view_number /\ WrittenInv(r, d)
  /\ r.ok => /\ Placed(r)
             /\ \A e \in r.outbox : Signed(r, e[2])
             /\ \A m : MessageOK(m) /\ IsPromise(m) /\ KeepsOnDisk(d, m) => KeepsNow(r, m)

LoadedFields == {"log_start", "op_number", "log", "commit_number", "applied", "sm", "durable",
                 "written"}

\* What restart loaded and executed.
LEMMA LoadedIs ==
  ASSUME NEW base, NEW d, DiskOK(d), ReplicaOK(base), base.log_changed_from = 0,
         NEW r, SameBut(base, r, LoadedFields), ~r.outstanding.out,
         r.log_start \in Nat, r.op_number \in Nat, r.commit_number \in Nat, r.applied \in Nat,
         r.durable \in Nat, r.log_start <= r.applied, r.applied <= r.commit_number,
         r.commit_number <= r.op_number,
         MaxLosses = 0 => r.log_start > d.log_start \/ r.op_number = d.op_number,
         r.written = [is |-> TRUE, view_number |-> d.view_number,
                      last_normal_view |-> d.last_normal_view,
                      recovering |-> d.recovering, log_start |-> d.log_start]
  PROVE  LET s == ApplyCommitted(r, r.op_number) IN
         /\ ReplicaOK(s) /\ WrittenInv(s, d)
         /\ SameBut(base, s, LoadedFields \union ApplyFields)
         /\ s.op_number = r.op_number
<1> DEFINE s == ApplyCommitted(r, r.op_number)
<1>1. NumbersOK(r)
  BY DEF SameBut, LoadedFields, Fields, NumbersOK, ReplicaOK
<1>2. /\ SameBut(r, s, ApplyFields)
      /\ s.applied \in Nat /\ r.applied <= s.applied
      /\ s.applied <= s.commit_number /\ s.applied <= s.op_number
  BY <1>1, ApplyCommittedFrame DEF SameBut
<1> HIDE DEF s
<1>3. SameBut(base, s, LoadedFields \union ApplyFields)
  BY <1>2 DEF SameBut
<1>4. NumbersOK(s)
  BY <1>1, <1>2 DEF SameBut, ApplyFields, Fields, NumbersOK
<1>5. ReplicaOK(s)
  BY <1>3, <1>4 DEF SameBut, LoadedFields, ApplyFields, Fields, ReplicaOK, ReceivedOK, OutboxesOK
<1>6. /\ s.op_number = r.op_number /\ s.log_start = r.log_start /\ s.written = r.written
      /\ s.outstanding = r.outstanding
  BY <1>2 DEF SameBut, ApplyFields, Fields
<1>7. /\ s.written.is /\ s.written.view_number = d.view_number
      /\ s.written.last_normal_view = d.last_normal_view
      /\ s.written.recovering = d.recovering /\ s.written.log_start = d.log_start
  BY <1>6
<1>8. WrittenInv(s, d)
  BY <1>6, <1>7 DEF WrittenInv, DiskOK
<1> QED
  BY <1>3, <1>5, <1>6, <1>8 DEF s

\* Replica::restart leaves a replica that keeps what its disk keeps.
LEMMA RestartRebuilt ==
  ASSUME NEW id \in ReplicaID, NEW d, DiskOK(d), NEW sm, NEW k \in Nat, NEW nonce \in Nat
  PROVE  Rebuilt(id, Restart(id, d, sm, k, nonce), d)
<1> DEFINE ahead == d.recovering \/ k > d.commit_number
           start == IF ahead THEN k ELSE d.log_start
           end == IF d.recovering THEN k
                  ELSE IF ahead THEN Higher(k, d.op_number) ELSE d.op_number
           commit == IF ahead THEN k ELSE d.commit_number
           base == Restarted(id, d, nonce)
           log == [i \in start + 1 .. end |-> d.log[i]]
           written == [is |-> TRUE, view_number |-> d.view_number,
                       last_normal_view |-> d.last_normal_view,
                       recovering |-> d.recovering, log_start |-> d.log_start]
           loaded == [base EXCEPT
                        !.log_start = start, !.op_number = end, !.log = log,
                        !.commit_number = commit,
                        !.applied = k, !.sm = sm, !.durable = end, !.written = written]
           ran == ApplyCommitted(loaded, end)
           z == Restart(id, d, sm, k, nonce)
<1>1. /\ ReplicaOK(base) /\ base.id = id
      /\ base.view_number = d.view_number /\ base.log_changed_from = 0
      /\ d.recovering => base.status = "Recovering"
      /\ ~d.recovering => /\ base.status = "Normal"
                          /\ base.last_normal_view = d.last_normal_view /\ base.outbox = {}
      /\ base.outstanding = NoWrite /\ ~base.written.is /\ base.fetch = NoFetch
      /\ base.outbox_waiting = {} /\ base.outbox_ready = {}
      /\ \A e \in base.outbox : ~IsPromise(e[2])
  BY RestartedIs
<1>2. z = (IF (~d.recovering /\ d.log_start > k) \/ loaded.commit_number > end THEN Fail(base)
           ELSE IF ~ran.ok \/ d.recovering THEN ran ELSE Resumed(ran, d))
  BY Zenon DEF Restart
<1>3. DOMAIN base = Fields
  BY <1>1 DEF ReplicaOK
<1>4. /\ start \in Nat /\ end \in Nat /\ commit \in Nat
      /\ start > d.log_start \/ end = d.op_number \/ d.recovering
      /\ ~d.recovering => end >= d.op_number
  BY DEF DiskOK, Higher
<1>5. ~ (~d.recovering /\ d.log_start > k) => start <= k
  BY DEF DiskOK
<1>6. k <= commit
  BY DEF DiskOK
<1> HIDE DEF base, start, end, commit, log
<1>7. /\ SameBut(base, loaded, LoadedFields)
      /\ loaded.log_start = start /\ loaded.op_number = end /\ loaded.commit_number = commit
      /\ loaded.applied = k /\ loaded.durable = end /\ loaded.written = written
  BY <1>3 DEF SameBut, Fields, LoadedFields
<1> HIDE DEF loaded
<1>8. CASE (~d.recovering /\ d.log_start > k) \/ loaded.commit_number > end
  <2> DEFINE f == Fail(base)
  <2>1. z = f
    BY <1>2, <1>8
  <2>2. SameBut(base, f, {"ok"}) /\ ~f.ok
    BY <1>3 DEF Fail, SameBut, Fields
  <2> HIDE DEF f
  <2>3. ReplicaOK(f)
    BY <1>1, <2>2 DEF SameBut, Fields, ReplicaOK, NumbersOK, ReceivedOK, OutboxesOK
  <2>4. /\ f.id = id /\ f.outstanding = NoWrite /\ f.outbox_waiting = {} /\ f.outbox_ready = {}
        /\ f.view_number = d.view_number /\ ~f.written.is
    BY <1>1, <2>2 DEF SameBut, Fields
  <2>5. WrittenInv(f, d)
    BY <2>4 DEF WrittenInv, NoWrite
  <2>6. Rebuilt(id, f, d)
    BY <2>2, <2>3, <2>4, <2>5 DEF Rebuilt, NoWrite, DiskOK
  <2> QED
    BY <2>1, <2>6
<1>9. CASE ~ ((~d.recovering /\ d.log_start > k) \/ loaded.commit_number > end)
  <2>1. start <= k /\ commit <= end
    BY <1>4, <1>5, <1>7, <1>9
  <2>2. ~loaded.outstanding.out
    BY <1>1, <1>7 DEF SameBut, LoadedFields, Fields, NoWrite
  <2>3. /\ ReplicaOK(ran) /\ WrittenInv(ran, d)
        /\ SameBut(base, ran, LoadedFields \union ApplyFields)
        /\ ran.op_number = end
    <3>1. MaxLosses = 0 => loaded.log_start > d.log_start \/ loaded.op_number = d.op_number
      BY <1>4, <1>7 DEF DiskOK
    <3>2. /\ loaded.log_start \in Nat /\ loaded.op_number \in Nat /\ loaded.commit_number \in Nat
          /\ loaded.applied \in Nat /\ loaded.durable \in Nat
          /\ loaded.log_start <= loaded.applied /\ loaded.applied <= loaded.commit_number
          /\ loaded.commit_number <= loaded.op_number
      BY <1>4, <1>6, <1>7, <2>1
    <3>3. ran = ApplyCommitted(loaded, loaded.op_number)
      BY <1>7
    <3> HIDE DEF ran
    <3> QED
      BY <1>1, <1>7, <2>2, <3>1, <3>2, <3>3, LoadedIs
  <2> HIDE DEF ran
  <2>4. /\ DOMAIN ran = Fields /\ ran.id = id /\ ran.status = base.status
        /\ ran.view_number = d.view_number /\ ran.last_normal_view = base.last_normal_view
        /\ ran.log_changed_from = 0 /\ ran.outstanding = NoWrite /\ ran.fetch = NoFetch
        /\ ran.outbox = base.outbox
        /\ ran.outbox_waiting = {} /\ ran.outbox_ready = {}
    BY <1>1, <2>3 DEF SameBut, LoadedFields, ApplyFields, Fields
  <2>5. ~ran.outstanding.out /\ ~ran.fetch.on /\ d.view_number <= ran.view_number
    BY <2>4 DEF NoWrite, NoFetch, DiskOK
  <2>6. CASE d.recovering
    <3>1. z = ran
      BY <1>2, <1>9, <2>6
    <3>2. MaxLosses # 0 /\ ran.status = "Recovering"
      BY <1>1, <2>4, <2>6 DEF DiskOK
    <3>3. Placed(ran)
      BY <2>5, <3>2 DEF Placed
    <3>4. \A e \in ran.outbox : Signed(ran, e[2])
      BY <1>1, <2>4 DEF Signed
    <3>5. \A m : KeepsOnDisk(d, m) => KeepsNow(ran, m)
      BY <2>4, <3>2 DEF KeepsOnDisk, KeepsNow, Keeps
    <3> QED
      BY <2>3, <2>4, <2>5, <3>1, <3>3, <3>4, <3>5 DEF Rebuilt
  <2>7. CASE ~d.recovering /\ ~ran.ok
    <3>1. z = ran
      BY <1>2, <1>9, <2>7
    <3> QED
      BY <2>3, <2>4, <2>5, <2>7, <3>1 DEF Rebuilt
  <2>8. CASE ~d.recovering /\ ran.ok
    <3>1. z = Resumed(ran, d)
      BY <1>2, <1>9, <2>8
    <3>2. /\ ran.status = "Normal" /\ ran.last_normal_view = d.last_normal_view
          /\ ran.outbox = {} /\ ran.op_number >= d.op_number
      BY <1>1, <1>4, <2>3, <2>4, <2>8
    <3>3. CASE z = ran /\ d.last_normal_view = d.view_number
      <4>1. Placed(ran)
        BY <2>4, <2>5, <3>2, <3>3 DEF Placed
      <4>2. \A m : MessageOK(m) /\ IsPromise(m) /\ KeepsOnDisk(d, m) => KeepsNow(ran, m)
        BY <2>3, <2>4, <2>8, <3>2 DEF KeepsOnDisk, KeepsNow, Keeps, MessageOK, DiskOK,
           ReplicaOK, NumbersOK
      <4> QED
        BY <2>3, <2>4, <2>5, <3>2, <3>3, <4>1, <4>2 DEF Rebuilt
    <3>4. ASSUME NEW v \in Nat, d.view_number <= v, d.last_normal_view < v,
                 z = StartViewChange(ran, v)
          PROVE  Rebuilt(id, z, d)
      <4> DEFINE s == [ClearViewChangeState(ran) EXCEPT !.view_number = v,
                                                        !.status = "ViewChange"]
      <4>1. /\ z = SendStartViewChange(s)
            /\ SameBut(ran, s, ClearFields \union {"view_number", "status"})
            /\ s.view_number = v /\ s.status = "ViewChange"
            /\ Cleared(s) /\ s.catching_up = Nobody
        BY ZenonT(60), <2>4, <3>4, StartViewChangeIs
      <4> HIDE DEF s, z
      <4>2. /\ DOMAIN s = Fields /\ s.id = id /\ s.last_normal_view = d.last_normal_view
            /\ s.op_number = ran.op_number /\ s.log_start = ran.log_start
            /\ s.log_changed_from = 0 /\ s.written = ran.written
            /\ s.outstanding = NoWrite /\ s.outbox = {} /\ s.outbox_waiting = {}
            /\ s.outbox_ready = {} /\ s.early = ran.early
            /\ s.recovery_responses = ran.recovery_responses
        BY <2>4, <3>2, <4>1 DEF SameBut, ClearFields, Fields
      <4>3. NumbersOK(s)
        BY <2>3, <3>2, <3>4, <4>1 DEF SameBut, ClearFields, Fields, ReplicaOK, NumbersOK, DiskOK
      <4>4. ReceivedOK(s) /\ OutboxesOK(s)
        BY <2>3, <4>1, <4>2, FS_EmptySet DEF Cleared, ReplicaOK, ReceivedOK, OutboxesOK, FetchOK,
           NoFetch
      <4>5. Placed(s)
        BY <3>4, <4>1, <4>2 DEF Placed, Cleared, NoFetch
      <4>6. Ready(s)
        BY <2>3, <4>1, <4>2, <4>3, <4>4, <4>5 DEF Ready, ReplicaOK, Status
      <4>7. Follows(s, z)
        BY <4>1, <4>6, SendStartViewChangeFollows
      <4>8. SameBut(s, z, {"outbox"})
        BY <4>1, <4>2, SendStartViewChangeFrame
      <4>9. /\ z.id = id /\ z.outstanding = NoWrite /\ z.outbox_waiting = {}
            /\ z.outbox_ready = {} /\ z.view_number = v /\ z.written = ran.written
            /\ z.last_normal_view = d.last_normal_view /\ z.op_number = ran.op_number
            /\ z.log_start = ran.log_start /\ z.log_changed_from = ran.log_changed_from
            /\ z.status = "ViewChange"
        BY <2>4, <4>1, <4>2, <4>8 DEF SameBut, Fields
      <4>10. ReplicaOK(z) /\ Placed(z) /\ \A e \in z.outbox : Signed(z, e[2])
        BY <4>2, <4>7 DEF Follows, Ready
      <4>11. WrittenInv(z, d)
        BY <2>3, <2>4, <4>9 DEF WrittenInv
      <4>12. ASSUME NEW m, MessageOK(m), IsPromise(m), KeepsOnDisk(d, m)
             PROVE  KeepsNow(z, m)
        <5>1. /\ d.view_number \in Nat /\ d.last_normal_view \in Nat /\ d.op_number \in Nat
              /\ m.view_number \in Nat /\ (m.type = "PrepareOk" => m.op_number \in Nat)
          BY <4>12 DEF DiskOK, MessageOK, IsPromise, Votes
        <5>2. Elected(m.replica_id, d.last_normal_view, d.view_number) =>
                Elected(m.replica_id, d.last_normal_view, v)
          BY <3>4, <5>1, ElectedStays
        <5>3. ran.op_number \in Nat
          BY <2>3 DEF ReplicaOK, NumbersOK
        <5>4. v >= m.view_number
          BY <3>4, <4>12, <5>1 DEF KeepsOnDisk, Keeps
        <5> QED
          BY <2>8, <3>2, <4>9, <4>12, <5>1, <5>2, <5>3, <5>4 DEF KeepsOnDisk, KeepsNow, Keeps
      <4> QED
        BY <3>4, <4>9, <4>10, <4>11, <4>12 DEF Rebuilt, NoWrite
    <3>5. \/ z = ran /\ d.last_normal_view = d.view_number
          \/ z = StartViewChange(ran, d.view_number) /\ d.last_normal_view < d.view_number
          \/ z = StartViewChange(ran, d.view_number + 1)
      <4> HIDE DEF z
      <4>1. d.last_normal_view \in Nat /\ d.view_number \in Nat /\ d.last_normal_view <= d.view_number
        BY DEF DiskOK
      <4>2. d.last_normal_view < d.view_number \/ d.last_normal_view = d.view_number
        BY <4>1
      <4>3. ~ (d.last_normal_view < d.view_number) \/ ~ (d.last_normal_view >= d.view_number)
        BY <4>1
      <4> QED
        BY <3>1, <4>2, <4>3, Zenon DEF Resumed
    <3> HIDE DEF z
    <3>6. d.view_number + 1 \in Nat /\ d.view_number <= d.view_number + 1
          /\ d.last_normal_view < d.view_number + 1
          /\ d.view_number \in Nat /\ d.view_number <= d.view_number
      BY DEF DiskOK
    <3> QED
      BY <3>3, <3>4, <3>5, <3>6 DEF z
  <2> QED
    BY <2>6, <2>7, <2>8
<1> QED
  BY <1>8, <1>9
\* A replica that starts again with d on disk is in the relation IInv states.
LEMMA RebuiltOwned ==
  ASSUME IInv, NEW id \in ReplicaID, NEW r, NEW d, Rebuilt(id, r, d), DiskOK(d),
         \A e \in msgs : IsPromise(e[2]) /\ Signer(e[2]) = id => KeepsOnDisk(d, e[2])
  PROVE  Owned(id, r, d) /\ ~r.outstanding.out /\ r.outbox_ready = {}
<1>1. /\ ReplicaOK(r) /\ r.id = id /\ ~r.outstanding.out
      /\ r.outbox_waiting = {} /\ r.outbox_ready = {}
      /\ d.view_number <= r.view_number /\ WrittenInv(r, d)
      /\ r.ok => /\ Placed(r)
                 /\ \A e \in r.outbox : Signed(r, e[2])
                 /\ \A m : MessageOK(m) /\ IsPromise(m) /\ KeepsOnDisk(d, m) => KeepsNow(r, m)
  BY DEF Rebuilt
<1>2. WriteOK(r.outstanding) /\ ViewsInv(r, d) /\ WaitingInv(r)
  BY <1>1 DEF WriteOK, ViewsInv, WaitingInv
<1>3. ReplicaInv(r, d)
  BY <1>1, <1>2 DEF ReplicaInv
<1>4. ASSUME NEW e \in msgs PROVE SentInv(r, d, e[2])
  <2>1. MessageOK(e[2])
    BY DEF IInv, Addressed
  <2> QED
    BY <1>1, <2>1 DEF SentInv
<1> QED
  BY <1>1, <1>3, <1>4 DEF Owned

LEMMA RebuiltSteps ==
  ASSUME IInv, NEW id \in ReplicaID, NEW r, NEW d, NEW k \in Nat,
         Rebuilt(id, r, d), DiskOK(d), disk[id].view_number <= d.view_number,
         \A e \in msgs : IsPromise(e[2]) /\ Signer(e[2]) = id => KeepsOnDisk(d, e[2]),
         LeaveWith(id, r, d, k), losses' \in Nat
  PROVE  IInv' /\ ViewsGrow
  BY RebuiltOwned, LeaveSteps

LEMMA CrashSteps ==
  ASSUME IInv, NEW id \in ReplicaID, Crash(id)
  PROVE  IInv' /\ ViewsGrow
<1> DEFINE w == rep[id].outstanding
<1>1. PICK happened \in BOOLEAN, k \in flushed[id] .. rep[id].applied :
        LET d == IF happened THEN Landed(disk[id], w) ELSE disk[id]
            r == Restart(id, d, [i \in 1 .. k |-> rep[id].sm[i]], k,
                         rep[id].recovery_nonce + IF d.recovering THEN 1 ELSE 0)
        IN  (happened => w.out) /\ LeaveWith(id, r, d, k)
  BY DEF Crash
<1> DEFINE d == IF happened THEN Landed(disk[id], w) ELSE disk[id]
           sm == [i \in 1 .. k |-> rep[id].sm[i]]
           nonce == rep[id].recovery_nonce + IF d.recovering THEN 1 ELSE 0
           r == Restart(id, d, sm, k, nonce)
<1>2. (happened => w.out) /\ LeaveWith(id, r, d, k)
  BY <1>1
<1>3. ReplicaInv(rep[id], disk[id]) /\ \A e \in msgs : SentInv(rep[id], disk[id], e[2])
  BY DEF IInv
<1>4. DiskOK(d) /\ disk[id].view_number <= d.view_number
  <2>1. CASE happened
    BY <1>2, <1>3, <2>1, LandedIs
  <2>2. CASE ~happened
    BY <1>3, <2>2 DEF ReplicaInv, DiskOK
  <2> QED
    BY <2>1, <2>2
<1>5. ASSUME NEW e \in msgs, IsPromise(e[2]), Signer(e[2]) = id
      PROVE  KeepsOnDisk(d, e[2])
  <2>1. KeepsOnDisk(disk[id], e[2]) /\ (w.out => KeepsOnDisk(w, e[2]))
    BY <1>3, <1>5 DEF SentInv, IInv
  <2>2. CASE happened
    BY <1>2, <1>3, <2>1, <2>2, LandedKeeps
  <2>3. CASE ~happened
    BY <2>1, <2>3
  <2> QED
    BY <2>2, <2>3
<1> HIDE DEF d
<1>6. k \in Nat
  BY <1>3 DEF IInv, ReplicaInv, ReplicaOK, NumbersOK
<1>7. nonce \in Nat
  BY <1>3 DEF ReplicaInv, ReplicaOK, NumbersOK
<1> HIDE DEF nonce, sm
<1>8. Rebuilt(id, r, d)
  BY <1>4, <1>6, <1>7, RestartRebuilt
<1>9. losses' \in Nat
  BY DEF Crash, IInv
<1> HIDE DEF r
<1> QED
  BY <1>2, <1>4, <1>5, <1>6, <1>8, <1>9, RebuiltSteps

\* A replica that lost its disk starts with nothing, and recovers.
LostDisk(id) == [EmptyState EXCEPT !.view_number = disk[id].view_number, !.recovering = TRUE]

LEMMA LoseDiskRebuilt ==
  ASSUME IInv, NEW id \in ReplicaID, LoseDisk(id)
  PROVE  LET d == LostDisk(id)
             r == Recover(id, disk[id].view_number, rep[id].recovery_nonce + 1)
         IN  /\ LeaveWith(id, r, d, 0) /\ losses' \in Nat /\ MaxLosses # 0
             /\ Rebuilt(id, r, d) /\ DiskOK(d) /\ disk[id].view_number <= d.view_number
             /\ \A e \in msgs : IsPromise(e[2]) /\ Signer(e[2]) = id => KeepsOnDisk(d, e[2])
<1> DEFINE view == disk[id].view_number
           nonce == rep[id].recovery_nonce + 1
           d == LostDisk(id)
           r == Recover(id, view, nonce)
<1>1. LeaveWith(id, r, d, 0) /\ losses < MaxLosses /\ losses' = losses + 1
  BY DEF LoseDisk, LostDisk
<1>2. losses' \in Nat /\ MaxLosses # 0
  BY <1>1 DEF IInv
<1>3. view \in Nat /\ nonce \in Nat
  BY DEF IInv, ReplicaInv, ReplicaOK, NumbersOK, DiskOK
<1>4. /\ d.view_number = view /\ d.last_normal_view = 0 /\ d.commit_number = 0
      /\ d.log_start = 0 /\ d.op_number = 0 /\ d.recovering
  BY DEF LostDisk, EmptyState
<1>5. \A e \in msgs : IsPromise(e[2]) /\ Signer(e[2]) = id => KeepsOnDisk(disk[id], e[2])
  BY DEF IInv, SentInv
<1> HIDE DEF d
<1>6. \A e \in msgs : IsPromise(e[2]) /\ Signer(e[2]) = id => KeepsOnDisk(d, e[2])
  BY <1>2, <1>4, <1>5 DEF KeepsOnDisk, Keeps
<1> HIDE DEF view, nonce
<1>7. DiskOK(d) /\ view <= d.view_number
  BY <1>2, <1>3, <1>4 DEF DiskOK
<1>8. r = Recover(id, view, nonce)
  OBVIOUS
<1> HIDE DEF r
<1>9. /\ Ready(r) /\ r.id = id /\ r.status = "Recovering" /\ r.ok
      /\ r.view_number = view
      /\ r.outstanding = NoWrite /\ ~r.written.is
      /\ r.outbox_waiting = {} /\ r.outbox_ready = {}
      /\ \A e \in r.outbox : ~IsPromise(e[2])
  BY <1>2, <1>3, <1>8, RecoverIs
<1>10. WrittenInv(r, d)
  BY <1>9 DEF WrittenInv, NoWrite
<1>11. \A m : KeepsOnDisk(d, m) => KeepsNow(r, m)
  BY <1>2, <1>4, <1>9 DEF KeepsOnDisk, KeepsNow, Keeps
<1>12. Rebuilt(id, r, d)
  BY <1>3, <1>4, <1>9, <1>10, <1>11 DEF Rebuilt, Ready, NoWrite, Signed
<1>13. disk[id].view_number <= d.view_number
  BY <1>7 DEF view
<1> QED
  BY <1>1, <1>2, <1>6, <1>7, <1>12, <1>13 DEF d, r, view, nonce

LEMMA LoseDiskSteps ==
  ASSUME IInv, NEW id \in ReplicaID, LoseDisk(id)
  PROVE  IInv' /\ ViewsGrow
<1> DEFINE d == LostDisk(id)
           r == Recover(id, disk[id].view_number, rep[id].recovery_nonce + 1)
<1>1. /\ LeaveWith(id, r, d, 0) /\ losses' \in Nat
      /\ Rebuilt(id, r, d) /\ DiskOK(d) /\ disk[id].view_number <= d.view_number
      /\ \A e \in msgs : IsPromise(e[2]) /\ Signer(e[2]) = id => KeepsOnDisk(d, e[2])
  BY LoseDiskRebuilt
<1> HIDE DEF d, r
<1> QED
  BY <1>1, RebuiltSteps
\* A message is handled by a handler that follows.
LEMMA OnMessageSteps ==
  ASSUME IInv, NEW e \in msgs, OnMessage(e[1], e[2])
  PROVE  IInv' /\ ViewsGrow
<1> DEFINE id == e[1]
           m == e[2]
           r == rep[id]
<1>1. id \in ReplicaID /\ MessageOK(m)
  BY DEF IInv, Addressed
<1>2. OnMessage(id, m)
  OBVIOUS
<1> HIDE DEF id, m
<1>3. r.ok => Ready(r)
  BY <1>1 DEF IInv, ReplicaInv, Ready
<1>4. ASSUME NEW s, r.ok, Follows(r, s), Step(id, s), UNCHANGED losses
      PROVE  IInv' /\ ViewsGrow
  BY <1>1, <1>4, HandlerSteps
<1>5. CASE DeliverPrepare(id, m)
  <2>1. r.ok /\ r.status # "Recovering" /\ m.type = "Prepare" /\ UNCHANGED losses
        /\ Step(id, OnPrepare(r, m))
    BY <1>5 DEF DeliverPrepare, Receive
  <2>2. Follows(r, OnPrepare(r, m))
    BY <1>1, <1>3, <2>1, OnPrepareFollows
  <2> QED
    BY <1>4, <2>1, <2>2
<1>6. CASE DeliverPrepareOk(id, m)
  <2>1. r.ok /\ m.type = "PrepareOk" /\ UNCHANGED losses /\ Step(id, OnPrepareOk(r, m))
    BY <1>6 DEF DeliverPrepareOk, Receive
  <2>2. Follows(r, OnPrepareOk(r, m))
    BY <1>1, <1>3, <2>1, OnPrepareOkFollows
  <2> QED
    BY <1>4, <2>1, <2>2
<1>7. CASE DeliverCommit(id, m)
  <2>1. r.ok /\ r.status # "Recovering" /\ m.type = "Commit" /\ UNCHANGED losses
        /\ Step(id, OnCommit(r, m))
    BY <1>7 DEF DeliverCommit, Receive
  <2>2. Follows(r, OnCommit(r, m))
    BY <1>1, <1>3, <2>1, OnCommitFollows
  <2> QED
    BY <1>4, <2>1, <2>2
<1>8. CASE DeliverConfirmView(id, m)
  <2>1. r.ok /\ UNCHANGED losses /\ Step(id, OnConfirmView(r, m))
    BY <1>8 DEF DeliverConfirmView, Receive
  <2>2. Follows(r, OnConfirmView(r, m))
    BY <1>3, <2>1, OnConfirmViewFollows
  <2> QED
    BY <1>4, <2>1, <2>2
<1>9. CASE DeliverConfirmViewOk(id, m)
  <2>1. r.ok /\ UNCHANGED losses /\ Step(id, OnConfirmViewOk(r, m))
    BY <1>9 DEF DeliverConfirmViewOk, Receive
  <2>2. Follows(r, OnConfirmViewOk(r, m))
    BY <1>3, <2>1, OnConfirmViewOkFollows
  <2> QED
    BY <1>4, <2>1, <2>2
<1>10. CASE DeliverGetState(id, m)
  <2>1. r.ok /\ m.type = "GetState" /\ UNCHANGED losses
    BY <1>10 DEF DeliverGetState, Receive
  <2>2. PICK ck \in r.log_start .. r.applied : Step(id, OnGetState(r, m, ck))
    BY <1>10 DEF DeliverGetState
  <2>3. Follows(r, OnGetState(r, m, ck))
    BY <1>1, <1>3, <2>1, OnGetStateFollows
  <2> QED
    BY <1>4, <2>1, <2>2, <2>3
<1>11. CASE DeliverNewState(id, m)
  <2>1. r.ok /\ m.type = "NewState" /\ UNCHANGED losses /\ Step(id, OnNewState(r, m))
    BY <1>11 DEF DeliverNewState, Receive
  <2>2. Follows(r, OnNewState(r, m))
    BY <1>1, <1>3, <2>1, OnNewStateFollows
  <2> QED
    BY <1>4, <2>1, <2>2
<1>12. CASE DeliverGetChunk(id, m)
  <2>1. r.ok /\ m.type = "GetChunk" /\ UNCHANGED losses /\ Step(id, OnGetChunk(r, m))
    BY <1>12 DEF DeliverGetChunk, Receive
  <2>2. Follows(r, OnGetChunk(r, m))
    BY <1>1, <1>3, <2>1, OnGetChunkFollows
  <2> QED
    BY <1>4, <2>1, <2>2
<1>13. CASE DeliverNewChunk(id, m)
  <2>1. r.ok /\ m.type = "NewChunk" /\ UNCHANGED losses /\ Step(id, OnNewChunk(r, m))
    BY <1>13 DEF DeliverNewChunk, Receive
  <2>2. Follows(r, OnNewChunk(r, m))
    BY <1>1, <1>3, <2>1, OnNewChunkFollows
  <2> QED
    BY <1>4, <2>1, <2>2
<1>14. CASE DeliverStartViewChange(id, m)
  <2>1. r.ok /\ r.status # "Recovering" /\ m.type = "StartViewChange" /\ UNCHANGED losses
        /\ Step(id, OnStartViewChange(r, m))
    BY <1>14 DEF DeliverStartViewChange, Receive
  <2>2. Follows(r, OnStartViewChange(r, m))
    BY <1>1, <1>3, <2>1, OnStartViewChangeFollows
  <2> QED
    BY <1>4, <2>1, <2>2
<1>15. CASE DeliverDoViewChange(id, m)
  <2>1. r.ok /\ r.status # "Recovering" /\ m.type = "DoViewChange" /\ UNCHANGED losses
        /\ Step(id, OnDoViewChange(r, m))
    BY <1>15 DEF DeliverDoViewChange, Receive
  <2>2. Follows(r, OnDoViewChange(r, m))
    BY <1>1, <1>3, <2>1, OnDoViewChangeFollows
  <2> QED
    BY <1>4, <2>1, <2>2
<1>16. CASE DeliverStartView(id, m)
  <2>1. r.ok /\ r.status # "Recovering" /\ m.type = "StartView" /\ UNCHANGED losses
        /\ Step(id, OnStartView(r, m))
    BY <1>16 DEF DeliverStartView, Receive
  <2>2. Follows(r, OnStartView(r, m))
    BY <1>1, <1>3, <2>1, OnStartViewFollows
  <2> QED
    BY <1>4, <2>1, <2>2
<1>17. CASE DeliverRecovery(id, m)
  <2>1. r.ok /\ r.status # "Recovering" /\ m.type = "Recovery" /\ UNCHANGED losses
    BY <1>17 DEF DeliverRecovery, Receive
  <2>2. PICK ck \in r.log_start .. r.applied : Step(id, OnRecovery(r, m, ck))
    BY <1>17 DEF DeliverRecovery
  <2>3. Follows(r, OnRecovery(r, m, ck))
    BY <1>1, <1>3, <2>1, OnRecoveryFollows
  <2> QED
    BY <1>4, <2>1, <2>2, <2>3
<1>18. CASE DeliverRecoveryResponse(id, m)
  <2>1. r.ok /\ m.type = "RecoveryResponse" /\ UNCHANGED losses
        /\ Step(id, OnRecoveryResponse(r, m))
    BY <1>18 DEF DeliverRecoveryResponse, Receive
  <2>2. Follows(r, OnRecoveryResponse(r, m))
    BY <1>1, <1>3, <2>1, OnRecoveryResponseFollows
  <2> QED
    BY <1>4, <2>1, <2>2
<1> QED
  BY <1>2, <1>5, <1>6, <1>7, <1>8, <1>9, <1>10, <1>11, <1>12, <1>13, <1>14, <1>15, <1>16,
     <1>17, <1>18 DEF OnMessage

LEMMA ClientSteps ==
  ASSUME IInv, NEW id \in ReplicaID, NEW c,
         Register(id, c) \/ ClientRequest(id, c) \/ ClientQuery(id, c)
  PROVE  IInv' /\ ViewsGrow
<1> DEFINE r == rep[id]
<1>1. r.ok => Ready(r)
  BY DEF IInv, ReplicaInv, Ready
<1>2. CASE Register(id, c)
  <2>1. r.ok /\ Leave(id, OnRegister(r, c)) /\ UNCHANGED losses
    BY <1>2 DEF Register
  <2>2. Follows(r, OnRegister(r, c))
    BY <1>1, <2>1, OnRegisterFollows
  <2> QED
    BY <2>1, <2>2, FollowsSteps
<1>3. CASE ClientRequest(id, c)
  <2>1. r.ok /\ UNCHANGED losses /\ \E session, n, a : Leave(id, OnRequest(r, c, session, n, a))
    BY <1>3 DEF ClientRequest
  <2>2. PICK session, n, a : Leave(id, OnRequest(r, c, session, n, a))
    BY <2>1
  <2>3. Follows(r, OnRequest(r, c, session, n, a))
    BY <1>1, <2>1, OnRequestFollows
  <2> QED
    BY <2>1, <2>2, <2>3, FollowsSteps
<1>4. CASE ClientQuery(id, c)
  <2>1. /\ r.ok /\ UNCHANGED losses
        /\ \E n : LET s == OnQuery(r, c, n) IN
                  \/ LeaveWith(id, s, disk[id], flushed[id])
                  \/ rep' = [rep EXCEPT ![id] = s] /\ UNCHANGED <<disk, flushed, msgs>>
    BY <1>4 DEF ClientQuery
  <2>2. PICK n : LET s == OnQuery(r, c, n) IN
                 \/ LeaveWith(id, s, disk[id], flushed[id])
                 \/ rep' = [rep EXCEPT ![id] = s] /\ UNCHANGED <<disk, flushed, msgs>>
    BY <2>1
  <2> DEFINE s == OnQuery(r, c, n)
  <2>3. Follows(r, s)
    BY <1>1, <2>1, OnQueryFollows
  <2>4. \/ LeaveWith(id, s, disk[id], flushed[id])
        \/ rep' = [rep EXCEPT ![id] = s] /\ UNCHANGED <<disk, flushed, msgs>>
    BY <2>2
  <2> HIDE DEF s
  <2>5. /\ Owned(id, s, disk[id]) /\ s.outbox_ready = {}
        /\ s.ok /\ id \notin SteppingOn => ~s.outstanding.out
    BY <2>1, <2>3, FollowsOwned
  <2>6. /\ disk[id].view_number <= disk[id].view_number /\ losses' \in Nat
        /\ DOMAIN flushed = ReplicaID /\ \A q \in ReplicaID : flushed[q] \in Nat
    BY <2>1 DEF IInv, ReplicaInv, DiskOK
  <2>7. CASE LeaveWith(id, s, disk[id], flushed[id])
    BY <2>5, <2>6, <2>7, LeaveSteps
  <2>8. CASE rep' = [rep EXCEPT ![id] = s] /\ UNCHANGED <<disk, flushed, msgs>>
    <3>1. /\ DOMAIN disk' = ReplicaID /\ disk'[id] = disk[id]
          /\ \A q \in ReplicaID \ {id} : disk'[q] = disk[q]
      BY <2>8 DEF IInv
    <3>2. msgs' \subseteq msgs \union {}
      BY <2>8
    <3>3. DOMAIN flushed' = ReplicaID /\ \A q \in ReplicaID : flushed'[q] \in Nat
      BY <2>6, <2>8
    <3> QED
      BY <2>5, <2>6, <2>8, <3>1, <3>2, <3>3, OneSteps
  <2> QED
    BY <2>4, <2>7, <2>8
<1> QED
  BY <1>2, <1>3, <1>4
LEMMA IdleSteps ==
  ASSUME IInv, NEW id \in ReplicaID, NEW timeout, IdlePeriod(id, timeout)
  PROVE  IInv' /\ ViewsGrow
<1> DEFINE r == rep[id]
<1>1. r.ok /\ UNCHANGED losses
  BY DEF IdlePeriod
<1>2. PICK stall, release \in BOOLEAN, due \in {0} \union r.commit_number + 1 .. r.op_number :
        Leave(id, OnIdle(r, timeout, stall, release, due))
  BY DEF IdlePeriod
<1>3. Ready(r)
  BY <1>1 DEF IInv, ReplicaInv, Ready
<1>4. due \in Nat
  BY <1>3 DEF Ready, ReplicaOK, NumbersOK
<1>5. Follows(r, OnIdle(r, timeout, stall, release, due))
  BY <1>3, <1>4, OnIdleFollows
<1> QED
  BY <1>1, <1>2, <1>5, FollowsSteps

LEMMA OwnerSteps ==
  ASSUME IInv, NEW id \in ReplicaID,
         \/ OwnerDrains(id) \/ OwnerTakesWrite(id) \/ OwnerHandsBack(id)
         \/ OwnerFlushes(id) \/ OwnerCompacts(id)
  PROVE  IInv' /\ ViewsGrow
<1> DEFINE r == rep[id]
           d == disk[id]
<1>1. r.ok => Ready(r)
  BY DEF IInv, ReplicaInv, Ready
<1>2. /\ Owned(id, r, d) /\ r.outbox_ready = {}
      /\ r.ok /\ id \notin SteppingOn => ~r.outstanding.out
  BY IsOwned DEF IInv
<1>3. /\ d.view_number <= d.view_number /\ losses \in Nat
      /\ DOMAIN flushed = ReplicaID /\ \A q \in ReplicaID : flushed[q] \in Nat
      /\ DOMAIN disk = ReplicaID
  BY DEF IInv, ReplicaInv, DiskOK
<1>4. CASE OwnerDrains(id)
  <2>1. r.ok /\ Leave(id, r) /\ UNCHANGED losses
    BY <1>4 DEF OwnerDrains
  <2> QED
    BY <1>1, <2>1, FollowsSelf, FollowsSteps
<1>5. CASE OwnerTakesWrite(id)
  <2> DEFINE t == TakeWrite(r)
  <2>1. /\ id \in SteppingOn /\ r.ok /\ ~r.outstanding.out
        /\ rep' = [rep EXCEPT ![id] = t]
        /\ UNCHANGED <<disk, flushed, msgs, losses>>
    BY <1>5 DEF OwnerTakesWrite
  <2>2. Owned(id, t, d) /\ t.outbox_ready = {}
    BY <1>2, <2>1, TakeWriteOwned
  <2>3. /\ DOMAIN disk' = ReplicaID /\ disk'[id] = d
        /\ \A q \in ReplicaID \ {id} : disk'[q] = disk[q]
    BY <1>3, <2>1
  <2>4. msgs' \subseteq msgs \union {}
    BY <2>1
  <2>5. DOMAIN flushed' = ReplicaID /\ (\A q \in ReplicaID : flushed'[q] \in Nat) /\ losses' \in Nat
    BY <1>3, <2>1
  <2> HIDE DEF t
  <2> QED
    BY <1>3, <2>1, <2>2, <2>3, <2>4, <2>5, OneSteps
<1>6. CASE OwnerHandsBack(id)
  <2> DEFINE w == r.outstanding
             p == IF w.sync /\ ~WriteFits(d, w) THEN Fail(r) ELSE Persisted(r)
             landed == Landed(d, w)
  <2>1. /\ r.ok /\ w.out
        /\ disk' = [disk EXCEPT ![id] = landed] /\ rep' = [rep EXCEPT ![id] = Drained(p)]
        /\ msgs' = Sent(id, p, disk'[id]) /\ UNCHANGED <<flushed, losses>>
    BY <1>6 DEF OwnerHandsBack
  <2>2. disk'[id] = landed
    BY <1>3, <2>1
  <2>3. /\ Owned(id, p, landed) /\ (p.ok => ~p.outstanding.out)
        /\ d.view_number <= landed.view_number
        /\ \A e \in p.outbox_ready : /\ SentInv(p, landed, e[2])
                                     /\ IsPromise(e[2]) => Signer(e[2]) = id
    BY <1>2, <2>1, HandBackOwned
  <2>4. DOMAIN flushed' = ReplicaID /\ (\A q \in ReplicaID : flushed'[q] \in Nat) /\ losses' \in Nat
    BY <1>3, <2>1
  <2>5. msgs' = Sent(id, p, landed)
    BY <2>1, <2>2
  <2> HIDE DEF p, landed
  <2> QED
    BY <2>1, <2>3, <2>4, <2>5, DrainedSteps
<1>7. CASE OwnerFlushes(id)
  <2>1. /\ flushed' = [flushed EXCEPT ![id] = r.applied] /\ r.ok
        /\ UNCHANGED <<rep, disk, msgs, losses>>
    BY <1>7 DEF OwnerFlushes
  <2>2. r.applied \in Nat
    BY <1>1, <2>1 DEF Ready, ReplicaOK, NumbersOK
  <2>3. DOMAIN flushed' = ReplicaID /\ \A q \in ReplicaID : flushed'[q] \in Nat
    BY <1>3, <2>1, <2>2
  <2>4. IInv'
    BY <2>1, <2>3 DEF IInv
  <2>5. ViewsGrow
    BY <2>1 DEF ViewsGrow, IInv, ReplicaInv, ViewsInv, DiskOK, ReplicaOK, NumbersOK
  <2> QED
    BY <2>4, <2>5
<1>8. CASE OwnerCompacts(id)
  <2>1. r.ok /\ Leave(id, Compact(r, flushed[id])) /\ UNCHANGED losses
    BY <1>8 DEF OwnerCompacts
  <2>2. Follows(r, Compact(r, flushed[id]))
    BY <1>1, <1>3, <2>1, CompactFollows
  <2> QED
    BY <2>1, <2>2, FollowsSteps
<1> QED
  BY <1>4, <1>5, <1>6, <1>7, <1>8

\* Losing messages and standing still.
LEMMA StillSteps ==
  ASSUME IInv, msgs' \subseteq msgs, UNCHANGED <<rep, disk, flushed, losses>>
  PROVE  IInv' /\ ViewsGrow
<1>1. IInv'
  BY DEF IInv
<1>2. ViewsGrow
  BY DEF ViewsGrow, IInv, ReplicaInv, ViewsInv, DiskOK, ReplicaOK, NumbersOK
<1> QED
  BY <1>1, <1>2

LEMMA InitIInv ==
  ASSUME Init
  PROVE  IInv
<1>1. ASSUME NEW id \in ReplicaID
      PROVE  /\ rep[id].id = id /\ flushed[id] \in Nat /\ rep[id].outbox_ready = {}
             /\ ReplicaInv(rep[id], disk[id]) /\ ~rep[id].outstanding.out
  <2> DEFINE r == New(id)
             d == EmptyState
  <2>1. rep[id] = r /\ disk[id] = d /\ flushed[id] = 0
    BY DEF Init
  <2>2. /\ Ready(r) /\ r.id = id /\ r.view_number = 0
        /\ r.outstanding = NoWrite /\ ~r.written.is
        /\ r.outbox = {} /\ r.outbox_waiting = {} /\ r.outbox_ready = {}
    BY NewIs
  <2>3. DiskOK(d) /\ d.view_number = 0
    BY DEF DiskOK, EmptyState
  <2> HIDE DEF r, d
  <2>4. /\ WriteOK(r.outstanding) /\ ~r.outstanding.out
        /\ WrittenInv(r, d) /\ ViewsInv(r, d) /\ WaitingInv(r)
    BY <2>2, <2>3 DEF WriteOK, WrittenInv, ViewsInv, WaitingInv, NoWrite
  <2> QED
    BY <2>1, <2>2, <2>3, <2>4 DEF ReplicaInv, Ready
<1> QED
  BY <1>1 DEF Init, IInv

LEMMA NextIInv ==
  ASSUME IInv, [Next]_vars
  PROVE  IInv' /\ ViewsGrow
<1>1. CASE \E e \in msgs : OnMessage(e[1], e[2])
  BY <1>1, OnMessageSteps
<1>2. CASE Drop
  BY <1>2, StillSteps DEF Drop
<1>3. ASSUME NEW id \in ReplicaID, NEW c \in Client,
             Register(id, c) \/ ClientRequest(id, c) \/ ClientQuery(id, c)
      PROVE  IInv' /\ ViewsGrow
  BY <1>3, ClientSteps
<1>4. ASSUME NEW id \in ReplicaID, Idle(id) \/ TimeOut(id)
      PROVE  IInv' /\ ViewsGrow
  BY <1>4, IdleSteps DEF Idle, TimeOut
<1>5. ASSUME NEW id \in ReplicaID,
             \/ OwnerDrains(id) \/ OwnerTakesWrite(id) \/ OwnerHandsBack(id)
             \/ OwnerFlushes(id) \/ OwnerCompacts(id)
      PROVE  IInv' /\ ViewsGrow
  BY <1>5, OwnerSteps
<1>6. ASSUME NEW id \in ReplicaID, Crash(id) PROVE IInv' /\ ViewsGrow
  BY <1>6, CrashSteps
<1>7. ASSUME NEW id \in ReplicaID, LoseDisk(id) PROVE IInv' /\ ViewsGrow
  BY <1>7, LoseDiskSteps
<1>8. CASE UNCHANGED vars
  BY <1>8, StillSteps DEF vars
<1> QED
  BY <1>1, <1>2, <1>3, <1>4, <1>5, <1>6, <1>7, <1>8 DEF Next
-----------------------------------------------------------------------------
(* The theorems *)

\* What memory, the write that is out and the disk hold, what waits for the
\* write, and the messages that left stay in the relation IInv states, in every
\* behaviour of every cluster.
THEOREM InvariantHolds == Spec => []IInv
<1>1. Init => IInv
  BY InitIInv
<1>2. IInv /\ [Next]_vars => IInv'
  BY NextIInv
<1> QED
  BY <1>1, <1>2, PTL DEF Spec

\* No crash, no lost disk and no message takes a replica back to a view before
\* the one on its disk.
THEOREM ViewsStay == Spec => ViewsNeverGoBack
<1>1. IInv /\ [Next]_vars =>
        [\A id \in ReplicaID : disk'[id].view_number >= disk[id].view_number
                               /\ rep'[id].view_number >= disk[id].view_number]_vars
  BY NextIInv DEF ViewsGrow
<1> QED
  BY <1>1, InvariantHolds, PTL DEF Spec, ViewsNeverGoBack

\* The view a vote or an acknowledgement was for is on its sender's disk before
\* it leaves and ever after, whether disks are lost or not; and a replica that
\* is not recovering was last normal in a view no earlier than any it
\* acknowledged a log in.
VotesOnDisk ==
  \A e \in msgs :
    LET m == e[2]
        d == disk[Signer(m)]
    IN  IsPromise(m) =>
          /\ d.view_number >= m.view_number
          /\ m.type = "PrepareOk" /\ ~d.recovering => d.last_normal_view >= m.view_number

\* The signer of a promise is a replica.
LEMMA SignerIsReplica ==
  ASSUME NEW m, MessageOK(m), IsPromise(m)
  PROVE  Signer(m) \in ReplicaID
<1>1. CASE m.type = "PrepareOk"
  BY <1>1 DEF MessageOK, Signer
<1>2. CASE m.type = "StartViewChange"
  BY <1>2 DEF MessageOK, Signer
<1>3. CASE m.type = "DoViewChange"
  BY <1>3 DEF MessageOK, Signer, DvcOK
<1>4. CASE m.type = "StartView"
  BY <1>4, PrimaryIsReplica DEF MessageOK, Signer
<1> QED
  BY <1>1, <1>2, <1>3, <1>4 DEF IsPromise, Votes

\* A promise in flight is kept by the disk of its signer.
LEMMA PromisesKept ==
  ASSUME IInv, NEW e \in msgs, IsPromise(e[2])
  PROVE  KeepsOnDisk(disk[Signer(e[2])], e[2])
<1>1. MessageOK(e[2])
  BY DEF IInv, Addressed
<1>2. Signer(e[2]) \in ReplicaID
  BY <1>1, SignerIsReplica
<1> QED
  BY <1>2 DEF IInv, SentInv

\* No view change forgets a vote: the views that the messages in flight vote
\* for or acknowledge are on the disks of their senders.
THEOREM VotesStay == Spec => []VotesOnDisk
<1>1. IInv => VotesOnDisk
  BY PromisesKept DEF VotesOnDisk, KeepsOnDisk, Keeps
<1> QED
  BY <1>1, InvariantHolds, PTL

\* While no disk is lost, what a message promises of the disk of its sender is
\* on that disk before the message leaves, and stays there: an acknowledged log
\* too, unless a later view replaced it or the replica was to start one.
THEOREM PromisesStay ==
  ASSUME MaxLosses = 0
  PROVE  Spec => []PromisesOnDisk
<1>1. IInv => PromisesOnDisk
  <2> SUFFICES ASSUME IInv, NEW e \in msgs
               PROVE  LET m == e[2] IN
                      CASE m.type = "PrepareOk" ->
                             LET d == disk[m.replica_id] IN
                             /\ d.view_number >= m.view_number
                             /\ ~d.recovering => d.last_normal_view >= m.view_number
                             /\ ~d.recovering /\ d.last_normal_view = m.view_number
                                  /\ ~Elected(m.replica_id, m.view_number, d.view_number) =>
                                  d.op_number >= m.op_number
                        [] m.type = "StartViewChange" ->
                             disk[m.replica_id].view_number >= m.view_number
                        [] m.type = "DoViewChange" ->
                             disk[m.dvc.replica_id].view_number >= m.view_number
                        [] m.type = "StartView" ->
                             disk[PrimaryOf(m.view_number)].view_number >= m.view_number
                        [] OTHER -> TRUE
    BY DEF PromisesOnDisk
  <2> DEFINE m == e[2]
  <2>1. IsPromise(m) => KeepsOnDisk(disk[Signer(m)], m)
    BY PromisesKept
  <2> HIDE DEF m
  <2>2. CASE m.type = "PrepareOk"
    <3>1. IsPromise(m) /\ Signer(m) = m.replica_id
      BY <2>2 DEF IsPromise, Signer
    <3> QED
      BY <2>1, <2>2, <3>1 DEF KeepsOnDisk, Keeps, m
  <2>3. CASE m.type = "StartViewChange"
    <3>1. IsPromise(m) /\ Signer(m) = m.replica_id
      BY <2>3 DEF IsPromise, Votes, Signer
    <3> QED
      BY <2>1, <2>3, <3>1 DEF KeepsOnDisk, Keeps, m
  <2>4. CASE m.type = "DoViewChange"
    <3>1. IsPromise(m) /\ Signer(m) = m.dvc.replica_id
      BY <2>4 DEF IsPromise, Votes, Signer
    <3> QED
      BY <2>1, <2>4, <3>1 DEF KeepsOnDisk, Keeps, m
  <2>5. CASE m.type = "StartView"
    <3>1. IsPromise(m) /\ Signer(m) = PrimaryOf(m.view_number)
      BY <2>5 DEF IsPromise, Votes, Signer
    <3> QED
      BY <2>1, <2>5, <3>1 DEF KeepsOnDisk, Keeps, m
  <2>6. CASE m.type \notin {"PrepareOk", "StartViewChange", "DoViewChange", "StartView"}
    BY <2>6 DEF m
  <2> QED
    BY <2>2, <2>3, <2>4, <2>5, <2>6
<1> QED
  BY <1>1, InvariantHolds, PTL

\* A replica in a later view than that of a message does nothing about it.
LEMMA OldViewIgnored ==
  ASSUME NEW r, r.view_number \in Nat, NEW m, m.view_number \in Nat,
         m.view_number < r.view_number
  PROVE  /\ OnPrepare(r, m) = r /\ OnPrepareOk(r, m) = r /\ OnCommit(r, m) = r
         /\ OnConfirmView(r, m) = r /\ OnConfirmViewOk(r, m) = r
         /\ (\A ck : OnGetState(r, m, ck) = r) /\ OnNewState(r, m) = r
         /\ OnStartViewChange(r, m) = r /\ OnDoViewChange(r, m) = r /\ OnStartView(r, m) = r
<1>1. /\ m.view_number # r.view_number /\ ~ (m.view_number > r.view_number)
      /\ m.view_number < r.view_number
  OBVIOUS
<1>2. ~Accepts(r, m.view_number) /\ NotAccepted(r, m.view_number) = r
  BY <1>1 DEF Accepts, NotAccepted
<1>3. OnPrepare(r, m) = r /\ OnCommit(r, m) = r
  BY <1>2, Zenon DEF OnPrepare, OnCommit
<1>4. OnPrepareOk(r, m) = r /\ OnConfirmView(r, m) = r
  BY <1>1, Zenon DEF OnPrepareOk, OnConfirmView
<1>5. OnConfirmViewOk(r, m) = r
  BY <1>1, Zenon DEF OnConfirmViewOk
<1>6. (\A ck : OnGetState(r, m, ck) = r) /\ OnNewState(r, m) = r
  BY <1>1, Zenon DEF OnGetState, OnNewState
<1>7. OnStartViewChange(r, m) = r
  BY <1>1, Zenon DEF OnStartViewChange
<1>8. OnDoViewChange(r, m) = r
  BY <1>1, Zenon DEF OnDoViewChange
<1>9. OnStartView(r, m) = r
  BY <1>1, Zenon DEF OnStartView
<1> QED
  BY <1>3, <1>4, <1>5, <1>6, <1>7, <1>8, <1>9
\* What a stale message makes of a replica.
LEMMA StaleHandled ==
  ASSUME NEW r, NEW d, ReplicaInv(r, d), r.ok, NEW m, MessageOK(m), Stale(r, d, m)
  PROVE  Handled(r, m) = {r}
<1> DEFINE old == {"Prepare", "PrepareOk", "Commit", "ConfirmView", "ConfirmViewOk", "GetState",
                   "NewState", "StartViewChange", "DoViewChange", "StartView"}
<1>1. m.type \in old \union {"RecoveryResponse"}
  BY DEF Stale, MessageOK, EarlyTypes, Votes
<1>2. CASE r.status = "Recovering" /\ m.type # "RecoveryResponse"
  <2>1. m.type \notin {"RecoveryResponse", "NewChunk"}
    BY <1>1, <1>2
  <2> QED
    BY <1>2, <2>1, Zenon DEF Handled
<1>3. CASE m.type = "RecoveryResponse"
  <2>1. m.nonce \in Nat /\ r.recovery_nonce \in Nat
    BY <1>3 DEF MessageOK, ReplicaInv, ReplicaOK, NumbersOK
  <2>2. r.status # "Recovering" \/ m.nonce # r.recovery_nonce
    BY <1>3, <2>1 DEF Stale
  <2>3. OnRecoveryResponse(r, m) = r
    BY <2>2, Zenon DEF OnRecoveryResponse
  <2>4. Handled(r, m) = {OnRecoveryResponse(r, m)}
    BY <1>3 DEF Handled
  <2> QED
    BY <2>3, <2>4
<1>4. CASE r.status # "Recovering" /\ m.type \in old
  <2>1. r.view_number \in Nat /\ m.view_number \in Nat /\ m.view_number < r.view_number
    <3>1. /\ m.view_number \in Nat /\ d.view_number \in Nat /\ r.view_number \in Nat
          /\ d.view_number <= r.view_number
      BY <1>4 DEF MessageOK, ReplicaInv, ReplicaOK, NumbersOK, DiskOK, ViewsInv
    <3>2. m.view_number < d.view_number
      BY <1>4 DEF Stale
    <3> QED
      BY <3>1, <3>2
  <2>2. /\ OnPrepare(r, m) = r /\ OnPrepareOk(r, m) = r /\ OnCommit(r, m) = r
        /\ OnConfirmView(r, m) = r /\ OnConfirmViewOk(r, m) = r
        /\ (\A ck : OnGetState(r, m, ck) = r) /\ OnNewState(r, m) = r
        /\ OnStartViewChange(r, m) = r /\ OnDoViewChange(r, m) = r /\ OnStartView(r, m) = r
    BY <2>1, OldViewIgnored
  <2>3. r.log_start .. r.applied # {}
    BY DEF ReplicaInv, ReplicaOK, NumbersOK
  <2>4. {OnGetState(r, m, ck) : ck \in r.log_start .. r.applied} = {r}
    BY <2>2, <2>3
  <2>5. CASE m.type = "GetState"
    BY <1>4, <2>4, <2>5 DEF Handled
  <2>6. CASE m.type = "Prepare"
    BY <1>4, <2>2, <2>6 DEF Handled
  <2>7. CASE m.type = "PrepareOk"
    BY <1>4, <2>2, <2>7 DEF Handled
  <2>8. CASE m.type = "Commit"
    BY <1>4, <2>2, <2>8 DEF Handled
  <2>9. CASE m.type = "ConfirmView"
    BY <1>4, <2>2, <2>9 DEF Handled
  <2>10. CASE m.type = "ConfirmViewOk"
    BY <1>4, <2>2, <2>10 DEF Handled
  <2>11. CASE m.type = "NewState"
    BY <1>4, <2>2, <2>11 DEF Handled
  <2>12. CASE m.type = "StartViewChange"
    BY <1>4, <2>2, <2>12 DEF Handled
  <2>13. CASE m.type = "DoViewChange"
    BY <1>4, <2>2, <2>13 DEF Handled
  <2>14. CASE m.type = "StartView"
    BY <1>4, <2>2, <2>14 DEF Handled
  <2> QED
    BY <1>4, <2>5, <2>6, <2>7, <2>8, <2>9, <2>10, <2>11, <2>12, <2>13, <2>14
<1> QED
  BY <1>1, <1>2, <1>3, <1>4

\* A message of a view before the one on the disk of the replica it reaches, or
\* an answer to a recovery that is over, changes nothing, however late it comes:
\* this is what lets a run forget such messages.
THEOREM StaleStays == Spec => []StaleIgnored
<1>1. IInv => StaleIgnored
  <2> SUFFICES ASSUME IInv, NEW e \in msgs, rep[e[1]].ok, Stale(rep[e[1]], disk[e[1]], e[2])
               PROVE  Handled(rep[e[1]], e[2]) = {rep[e[1]]}
    BY DEF StaleIgnored
  <2>1. ReplicaInv(rep[e[1]], disk[e[1]]) /\ MessageOK(e[2])
    BY DEF IInv, Addressed
  <2> QED
    BY <2>1, StaleHandled
<1> QED
  BY <1>1, InvariantHolds, PTL

-----------------------------------------------------------------------------
(* The history of a cluster                                                *)
(*                                                                         *)
(* A history w says which views started (w.started), the log of each view  *)
(* v (w.log[v], up to op w.len[v]) and how much of it the view started     *)
(* with (w.base[v]), how much of it each replica q has had on disk         *)
(* (w.ack[v][q]), what is committed (w.committed, up to op w.known), and   *)
(* the replicas (w.rep) with their views (w.view).                         *)

\* The sets of replicas that can decide.
Quorums == {D \in SUBSET ReplicaID : Cardinality(D) >= Quorum}

\* No quorum will hold op i of view u: too many replicas without it have left u.
Blocked(w, u, i) ==
  \E D \in Quorums : \A q \in D : w.view[q] > u /\ w.ack[u][q] < i

\* A quorum holds op i of view u.
Chosen(w, u, i) ==
  i \in 1 .. w.len[u] /\ \E D \in Quorums : \A q \in D : w.ack[u][q] >= i

\* A view up to v chose entry e as op i.
Decided(w, v, i, e) == \E c \in 0 .. v : Chosen(w, c, i) /\ w.log[c][i] = e

\* The log g, up to op n, has op i of view u.
Holds(w, u, i, g, n) == i <= w.len[u] /\ i <= n /\ g[i] = w.log[u][i]

\* A log that view v may start with: it has all that earlier views may choose.
Safe(w, v, g, n) ==
  \A u \in 0 .. v - 1 : \A i \in Nat \ {0} : Blocked(w, u, i) \/ Holds(w, u, i, g, n)

\* A log that is, as far as it goes, that of some view.
Copied(w, g, n) ==
  \E v \in w.started : n <= w.len[v] /\ \A i \in 1 .. n : g[i] = w.log[v][i]

\* The log of replica q, last normal in view l, has what q had of that view,
\* but for what can no longer be chosen.
Own(w, q, l, g, n) ==
  \A i \in Nat \ {0} :
    \/ Blocked(w, l, i)
    \/ (i <= n => Holds(w, l, i, g, n)) /\ (i <= w.ack[l][q] => i <= n)

\* What a replica that leaves view l takes with it.
Carried(w, q, l, g, n) == Copied(w, g, n) /\ Safe(w, l, g, n) /\ Own(w, q, l, g, n)

\* The first k ops are committed, and decided by views up to v.
CommitOK(w, v, k) ==
  k <= w.known /\ \A i \in 1 .. k : Decided(w, v, i, w.committed[i])

\* What the fields of a history are.
HistoryTyped(w) ==
  /\ w.started \in SUBSET Nat /\ w.known \in Nat
  /\ w.len \in [Nat -> Nat] /\ w.base \in [Nat -> Nat]
  /\ w.ack \in [Nat -> [ReplicaID -> Nat]] /\ w.view \in [ReplicaID -> Nat]

\* A view starts with a log that has all that earlier views may have chosen, and
\* no replica holds more of a view than the view has.
HistoryInv(w) ==
  /\ HistoryTyped(w)
  /\ 0 \in w.started
  /\ \A v \in Nat : v \notin w.started => w.len[v] = 0
  /\ \A v \in Nat : \A q \in ReplicaID :
       w.ack[v][q] <= w.len[v] /\ (w.ack[v][q] > 0 => v <= w.view[q])
  /\ \A v \in w.started :
       /\ w.base[v] <= w.len[v] /\ Safe(w, v, w.log[v], w.base[v])
       /\ OrderedLog(w.log[v], w.len[v])
       /\ w.view[PrimaryOf(v)] >= v

\* What counts as committed in the history was decided.
CommittedInv(w) ==
  /\ DOMAIN w.committed = 1 .. w.known
  /\ \A i \in 1 .. w.known : \E v \in Nat : Decided(w, v, i, w.committed[i])

-----------------------------------------------------------------------------
(* What messages say of the history *)

\* The whole log of a replica.
Value(r) == [i \in 1 .. r.op_number |-> EntryAt(r, i)]

\* A segment after what is committed.
SegmentValue(w, s) ==
  [i \in 1 .. s.end |-> IF i <= s.start THEN w.committed[i] ELSE s.entries[i]]

\* A segment of the log of view v, which has at least what the view started with.
SegmentOf(w, v, s) ==
  /\ v \in w.started /\ w.base[v] <= s.end /\ s.end <= w.len[v]
  /\ \A i \in s.start + 1 .. s.end : s.entries[i] = w.log[v][i]

\* Replica q, not to start view v, waits for it to start.
Waits(w, v, q) ==
  q # PrimaryOf(v) /\ w.rep[q].view_number = v /\ w.rep[q].status = "ViewChange"

\* What a replica says when it votes for view v.
DvcInv(w, v, d) ==
  LET q == d.replica_id
      n == d.segment.end
  IN  /\ w.view[q] >= v /\ d.last_normal_view < v
      /\ d.segment.start <= d.commit_number /\ d.commit_number <= n
      /\ CommitOK(w, v, d.commit_number)
      /\ Carried(w, q, d.last_normal_view, SegmentValue(w, d.segment), n)
      /\ \A u \in 0 .. v - 1 : w.ack[u][q] > 0 => u <= d.last_normal_view
      /\ Waits(w, v, q) => w.rep[q].op_number = n /\ Value(w.rep[q]) = SegmentValue(w, d.segment)

\* The primary of view v may ask t for the log that the view starts with.
Target(w, v, t) ==
  /\ w.view[t] >= v /\ t # PrimaryOf(v)
  /\ Waits(w, v, t) => Safe(w, v, Value(w.rep[t]), w.rep[t].op_number)

\* A log sent to replica b, which asked for it: that of the view, or, if b is
\* to start the view, one it may start with.
StateInv(w, b, m) ==
  LET v == m.view_number
      s == m.segment
  IN  /\ CommitOK(w, v, m.commit_number)
      /\ s.start <= s.end /\ m.commit_number <= s.end
      /\ s.checkpoint => s.start <= m.commit_number
      /\ b # PrimaryOf(v) => SegmentOf(w, v, s)
      /\ b = PrimaryOf(v) =>
           \/ v \in w.started
           \/ /\ CommitOK(w, v, s.start)
              /\ Safe(w, v, SegmentValue(w, s), s.end) /\ Copied(w, SegmentValue(w, s), s.end)

\* The log of a view, with what is committed.
ViewLogInv(w, v, m) ==
  /\ SegmentOf(w, v, m.segment) /\ CommitOK(w, v, m.commit_number)
  /\ m.segment.start <= m.commit_number /\ m.commit_number <= m.segment.end

\* It is offered to a replica that recovers.
Offers(w, to, v, m) ==
  /\ PrimaryOf(v) # to /\ (m.segment.checkpoint \/ m.segment.start = 0)
  /\ ViewLogInv(w, v, m)

\* A Prepare carries an entry of the log of its view.
PrepareInv(w, m) ==
  /\ m.view_number \in w.started /\ m.op_number \in 1 .. w.len[m.view_number]
  /\ m.entry = w.log[m.view_number][m.op_number]
  /\ CommitOK(w, m.view_number, m.commit_number)

\* State is asked of the primary, or, by a primary, of a replica that may have it.
GetStateInv(w, to, m) ==
  IF m.replica_id = PrimaryOf(m.view_number)
  THEN Target(w, m.view_number, to) /\ CommitOK(w, m.view_number, m.op_number)
  ELSE to = PrimaryOf(m.view_number) /\ m.view_number \in w.started

\* A chunk is what committed.
ChunkInv(w, m) ==
  m.op_number <= w.known /\ m.chunk = [i \in 1 .. m.op_number |-> w.committed[i]]

\* A response to a recovery carries the log of its view, which has all that the
\* replica acknowledged before it lost its disk.
ResponseInv(w, to, m) ==
  /\ m.nonce <= w.rep[to].recovery_nonce
  /\ m.state.is =>
       /\ Offers(w, to, m.view_number, m.state)
       /\ m.nonce = w.rep[to].recovery_nonce /\ w.rep[to].status = "Recovering" =>
            w.ack[m.view_number][to] <= m.state.segment.end

\* What a message says of the history.
MessageInv(w, to, m) ==
  /\ m.type = "Prepare" => PrepareInv(w, m)
  /\ m.type = "PrepareOk" => m.op_number <= w.ack[m.view_number][m.replica_id]
  /\ m.type = "Commit" =>
       m.view_number \in w.started /\ CommitOK(w, m.view_number, m.commit_number)
  /\ m.type = "GetState" => GetStateInv(w, to, m)
  /\ m.type = "NewState" => StateInv(w, to, m)
  /\ m.type = "NewChunk" => ChunkInv(w, m)
  /\ m.type = "DoViewChange" =>
       m.dvc.replica_id # PrimaryOf(m.view_number) /\ DvcInv(w, m.view_number, m.dvc)
  /\ m.type = "StartView" => ViewLogInv(w, m.view_number, m)
  /\ m.type = "Recovery" =>
       to # m.replica_id /\ m.nonce <= w.rep[m.replica_id].recovery_nonce
  /\ m.type = "RecoveryResponse" => ResponseInv(w, to, m)

-----------------------------------------------------------------------------
(* What a replica holds *)

\* In view v, replica q holds the log of the view, up to op n.
Member(w, v, g, n) ==
  /\ v \in w.started /\ w.base[v] <= n /\ n <= w.len[v]
  /\ \A i \in 1 .. n : g[i] = w.log[v][i]

\* A primary has the log of its view, and may have more, or starts the view.
Leads(w, s) ==
  LET v == s.view_number IN
  /\ OrderedLog(Value(s), s.op_number)
  /\ \A x \in ReplicaID : s.acked[x] <= w.ack[v][x]
  /\ v \in w.started =>
       w.len[v] <= s.op_number /\ \A i \in 1 .. w.len[v] : EntryAt(s, i) = w.log[v][i]
  /\ v \notin w.started => Safe(w, v, Value(s), s.op_number)

\* A replica in its view acknowledged no more than it has.
InView(w, q, s) ==
  /\ w.ack[s.view_number][q] <= s.op_number
  /\ IF IsPrimary(s) THEN Leads(w, s) ELSE Member(w, s.view_number, Value(s), s.op_number)

\* A replica that left view l, its last normal view.
Left(w, q, s) ==
  /\ Carried(w, q, s.last_normal_view, Value(s), s.op_number)
  /\ IsPrimary(s) => s.view_number \notin w.started

\* How the log of replica q, which is s, stands to the history.
Stands(w, q, s) ==
  /\ s.commit_number <= s.op_number
  /\ \A i \in 1 .. s.commit_number : Decided(w, s.view_number, i, EntryAt(s, i))
  /\ s.status = "Recovering" => s.op_number = 0
  /\ s.status # "Recovering" =>
       /\ \A v \in Nat : w.ack[v][q] > 0 => v <= s.last_normal_view
       /\ s.last_normal_view = s.view_number => InView(w, q, s)
       /\ s.last_normal_view < s.view_number => Left(w, q, s)

\* It does so between two steps.
Rests(w, q, s) ==
  /\ Stands(w, q, s)
  /\ s.status # "Recovering" /\ s.last_normal_view = s.view_number =>
       /\ w.ack[s.view_number][q] = s.op_number
       /\ IsPrimary(s) => s.view_number \in w.started /\ w.len[s.view_number] = s.op_number

\* What replica q, which is s, received of a view it is to start,
VotesInv(w, q, s) ==
  /\ \A d \in s.do_view_change_from : DvcInv(w, s.view_number, d)
  /\ \A d, e \in s.do_view_change_from : d.replica_id = e.replica_id => d = e
  /\ s.do_view_change_from # {} => IsPrimary(s) /\ s.status = "ViewChange"
  /\ \A d \in s.do_view_change_from : d.replica_id = q => d.segment.start <= s.commit_number

\* of a view it catches up with,
CatchingInv(w, s) ==
  s.catching_up # Nobody =>
    /\ s.status = "ViewChange"
    /\ IsPrimary(s) => /\ Cardinality(s.do_view_change_from) >= Quorum
                       /\ Target(w, s.view_number, s.catching_up)
    /\ ~IsPrimary(s) => /\ s.catching_up = PrimaryOf(s.view_number)
                        /\ s.view_number \in w.started

\* of a log after a checkpoint,
FetchInv(w, q, s) ==
  s.fetch.on =>
    LET then == s.fetch.then IN
    /\ then.segment.checkpoint /\ then.segment.start <= then.commit_number
    /\ s.status = "Recovering" =>
         /\ Offers(w, q, then.view_number, then)
         /\ w.ack[then.view_number][q] <= then.segment.end
    /\ s.status # "Recovering" => StateInv(w, q, then)
    /\ s.status = "ViewChange" => s.catching_up # Nobody

\* and in its recovery.
ResponsesInv(w, q, s) ==
  s.status = "Recovering" =>
    \A x \in s.recovery_responses : x.state.is =>
      /\ Offers(w, q, x.view_number, x.state)
      /\ w.ack[x.view_number][q] <= x.state.segment.end

\* What replica q, which is s, received.
ReceivedInv(w, q, s) ==
  VotesInv(w, q, s) /\ CatchingInv(w, s) /\ FetchInv(w, q, s) /\ ResponsesInv(w, q, s)

-----------------------------------------------------------------------------
(* How a history goes on *)

\* The replicas of z came from those of w: a vote stays that of a replica that
\* waits, and a recovery is that of its nonce.
RepsGoOn(w, z) ==
  \A x \in ReplicaID :
    /\ w.rep[x].recovery_nonce \in Nat /\ z.rep[x].recovery_nonce \in Nat
    /\ w.rep[x].recovery_nonce <= z.rep[x].recovery_nonce
    /\ z.rep[x].status = "Recovering" /\ z.rep[x].recovery_nonce = w.rep[x].recovery_nonce =>
         w.rep[x].status = "Recovering" /\ \A v \in Nat : z.ack[v][x] = w.ack[v][x]
    /\ \A v \in Nat : v <= w.view[x] /\ Waits(z, v, x) =>
         /\ Waits(w, v, x) /\ z.rep[x].op_number = w.rep[x].op_number
         /\ Value(z.rep[x]) = Value(w.rep[x])

\* z is w some steps later.
Later(w, z) ==
  /\ HistoryTyped(w) /\ HistoryTyped(z)
  /\ w.started \subseteq z.started
  /\ \A v \in Nat : /\ w.len[v] <= z.len[v]
                    /\ \A i \in 1 .. w.len[v] : z.log[v][i] = w.log[v][i]
  /\ \A v \in w.started : z.base[v] = w.base[v]
  /\ \A q \in ReplicaID : w.view[q] <= z.view[q]
  /\ \A v \in Nat : \A q \in ReplicaID :
       /\ w.ack[v][q] <= z.ack[v][q]
       /\ w.view[q] > v => z.ack[v][q] = w.ack[v][q]
  /\ w.known <= z.known /\ \A i \in 1 .. w.known : z.committed[i] = w.committed[i]
  /\ RepsGoOn(w, z)

-----------------------------------------------------------------------------
(* What quorums decide *)

\* Two quorums have a replica in common.
LEMMA QuorumsMeet ==
  ASSUME NEW D \in Quorums, NEW E \in Quorums
  PROVE  \E q \in ReplicaID : q \in D /\ q \in E
<1>1. IsFiniteSet(ReplicaID) /\ Cardinality(ReplicaID) = N
  <2>1. N \in Nat /\ N >= 3
    BY ConfigAssumption
  <2>2. IsFiniteSet(0 .. N - 1) /\ Cardinality(0 .. N - 1) = IF 0 > N - 1 THEN 0 ELSE N - 1 - 0 + 1
    BY <2>1, FS_Interval
  <2> QED
    BY <2>1, <2>2 DEF ReplicaID
<1>2. /\ D \in SUBSET ReplicaID /\ E \in SUBSET ReplicaID
      /\ Cardinality(D) >= Quorum /\ Cardinality(E) >= Quorum
  BY DEF Quorums
<1>3. /\ IsFiniteSet(D) /\ IsFiniteSet(E)
      /\ Cardinality(D) \in Nat /\ Cardinality(E) \in Nat
  BY <1>1, <1>2, FS_Subset, FS_CardinalityType
<1>4. /\ Cardinality(D \cup E) = Cardinality(D) + Cardinality(E) - Cardinality(D \cap E)
      /\ IsFiniteSet(D \cup E)
  BY <1>3, FS_Union
<1>5. Cardinality(D \cup E) <= N
  <2>1. D \cup E \in SUBSET ReplicaID
    BY <1>2
  <2> QED
    BY <1>1, <2>1, FS_Subset
<1>6. 2 * Quorum > N /\ Quorum \in Nat
  BY ConfigAssumption DEF Quorum
<1> SUFFICES ASSUME ~ \E q \in ReplicaID : q \in D /\ q \in E PROVE FALSE
  OBVIOUS
<1>7. D \cap E = {}
  BY <1>2
<1>8. Cardinality(D \cap E) = 0
  BY <1>7, FS_EmptySet
<1>9. Cardinality(D) + Cardinality(E) <= N
  BY <1>3, <1>4, <1>5, <1>8
<1>10. N \in Nat
  BY ConfigAssumption
<1> HIDE DEF Quorum
<1> QED
  BY ONLY <1>2, <1>3, <1>6, <1>9, <1>10

\* What was chosen stays within the reach of every quorum.
LEMMA ChosenNotBlocked ==
  ASSUME NEW w, HistoryTyped(w), NEW u \in Nat, NEW i \in Nat, Chosen(w, u, i)
  PROVE  ~Blocked(w, u, i)
<1> SUFFICES ASSUME Blocked(w, u, i) PROVE FALSE
  OBVIOUS
<1>1. PICK D \in Quorums : \A q \in D : w.ack[u][q] >= i
  BY DEF Chosen
<1>2. PICK E \in Quorums : \A q \in E : w.ack[u][q] < i
  BY DEF Blocked
<1>3. PICK q \in ReplicaID : q \in D /\ q \in E
  BY QuorumsMeet
<1>4. w.ack[u][q] \in Nat
  BY DEF HistoryTyped
<1> QED
  BY <1>1, <1>2, <1>3, <1>4

\* What a view chose is in the log of every later view.
LEMMA ChosenInView ==
  ASSUME NEW w, HistoryInv(w), NEW u \in Nat, NEW v \in w.started, u < v,
         NEW i \in Nat, Chosen(w, u, i)
  PROVE  i \in 1 .. w.base[v] /\ i \in 1 .. w.len[v] /\ w.log[v][i] = w.log[u][i]
<1>1. HistoryTyped(w) /\ v \in Nat /\ w.base[v] \in Nat /\ w.len[v] \in Nat
      /\ w.base[v] <= w.len[v] /\ Safe(w, v, w.log[v], w.base[v])
  BY DEF HistoryInv, HistoryTyped
<1>2. ~Blocked(w, u, i)
  BY <1>1, ChosenNotBlocked
<1>3. i \in Nat \ {0} /\ u \in 0 .. v - 1
  BY <1>1 DEF Chosen
<1>4. Holds(w, u, i, w.log[v], w.base[v])
  BY <1>1, <1>2, <1>3 DEF Safe
<1> QED
  BY <1>1, <1>3, <1>4 DEF Holds

\* Only a view that started chooses.
LEMMA ChosenStarted ==
  ASSUME NEW w, HistoryInv(w), NEW u \in Nat, NEW i, Chosen(w, u, i)
  PROVE  u \in w.started /\ i \in Nat \ {0} /\ i \in 1 .. w.len[u]
<1>1. w.len[u] \in Nat /\ i \in 1 .. w.len[u]
  BY DEF HistoryInv, HistoryTyped, Chosen
<1> QED
  BY <1>1 DEF HistoryInv

\* What is decided for an op is one entry.
LEMMA DecidedOnce ==
  ASSUME NEW w, HistoryInv(w), NEW v \in Nat, NEW x \in Nat, NEW i, NEW e, NEW f,
         Decided(w, v, i, e), Decided(w, x, i, f)
  PROVE  e = f
<1>1. PICK c \in 0 .. v : Chosen(w, c, i) /\ w.log[c][i] = e
  BY DEF Decided
<1>2. PICK d \in 0 .. x : Chosen(w, d, i) /\ w.log[d][i] = f
  BY DEF Decided
<1>3. c \in Nat /\ d \in Nat
  OBVIOUS
<1>4. c \in w.started /\ d \in w.started /\ i \in Nat
  BY <1>1, <1>2, <1>3, ChosenStarted
<1>5. CASE c < d
  BY <1>1, <1>2, <1>3, <1>4, <1>5, ChosenInView
<1>6. CASE d < c
  BY <1>1, <1>2, <1>3, <1>4, <1>6, ChosenInView
<1>7. CASE c = d
  BY <1>1, <1>2, <1>7
<1> QED
  BY <1>3, <1>5, <1>6, <1>7

\* A view that started has what views up to it decided.
LEMMA DecidedInView ==
  ASSUME NEW w, HistoryInv(w), NEW v \in w.started, NEW i, NEW e, Decided(w, v, i, e)
  PROVE  i \in 1 .. w.len[v] /\ w.log[v][i] = e
<1>1. PICK c \in 0 .. v : Chosen(w, c, i) /\ w.log[c][i] = e
  BY DEF Decided
<1>2. v \in Nat /\ c \in Nat
  BY DEF HistoryInv, HistoryTyped
<1>3. i \in Nat
  BY <1>1, <1>2, ChosenStarted
<1>4. CASE c < v
  BY <1>1, <1>2, <1>3, <1>4, ChosenInView
<1>5. CASE c = v
  BY <1>1, <1>5 DEF Chosen
<1> QED
  BY <1>2, <1>4, <1>5

\* A log that view v may start with has what was decided before.
LEMMA DecidedIsSafe ==
  ASSUME NEW w, HistoryInv(w), NEW v \in Nat, v \notin w.started, NEW i, NEW e,
         Decided(w, v, i, e), NEW g, NEW n, Safe(w, v, g, n)
  PROVE  i \in Nat \ {0} /\ i <= n /\ g[i] = e
<1>1. PICK c \in 0 .. v : Chosen(w, c, i) /\ w.log[c][i] = e
  BY DEF Decided
<1>2. c \in Nat /\ c \in w.started /\ i \in Nat \ {0}
  BY <1>1, ChosenStarted
<1>3. c \in 0 .. v - 1
  BY <1>2
<1>4. ~Blocked(w, c, i)
  BY <1>1, <1>2, ChosenNotBlocked DEF HistoryInv
<1>5. Holds(w, c, i, g, n)
  BY <1>2, <1>3, <1>4 DEF Safe
<1> QED
  BY <1>1, <1>2, <1>5 DEF Holds

\* What is decided up to a view is decided up to a later one.
LEMMA DecidedLater ==
  ASSUME NEW w, NEW v \in Nat, NEW x \in Nat, v <= x, NEW i, NEW e, Decided(w, v, i, e)
  PROVE  Decided(w, x, i, e)
<1>1. PICK c \in 0 .. v : Chosen(w, c, i) /\ w.log[c][i] = e
  BY DEF Decided
<1>2. c \in 0 .. x
  OBVIOUS
<1> QED
  BY <1>1, <1>2 DEF Decided

-----------------------------------------------------------------------------
(* What a later history keeps *)

LEMMA HistoryNumbers ==
  ASSUME NEW w, HistoryTyped(w)
  PROVE  /\ w.known \in Nat
         /\ \A q \in ReplicaID : w.view[q] \in Nat
         /\ \A v \in Nat : w.len[v] \in Nat /\ w.base[v] \in Nat
         /\ \A v \in Nat : \A q \in ReplicaID : w.ack[v][q] \in Nat
<1>1. \A v \in Nat : w.ack[v] \in [ReplicaID -> Nat]
  BY DEF HistoryTyped
<1>2. \A v \in Nat : \A q \in ReplicaID : w.ack[v][q] \in Nat
  BY <1>1
<1> QED
  BY <1>2 DEF HistoryTyped

LEMMA LaterNumbers ==
  ASSUME NEW w, NEW z, Later(w, z)
  PROVE  /\ w.known \in Nat /\ z.known \in Nat /\ w.known <= z.known
         /\ \A q \in ReplicaID : /\ w.view[q] \in Nat /\ z.view[q] \in Nat
                                 /\ w.view[q] <= z.view[q]
         /\ \A v \in Nat : \A q \in ReplicaID :
              w.ack[v][q] \in Nat /\ z.ack[v][q] \in Nat /\ w.ack[v][q] <= z.ack[v][q]
<1>1. HistoryTyped(w) /\ HistoryTyped(z)
  BY DEF Later
<1>2. /\ w.known <= z.known
      /\ \A q \in ReplicaID : w.view[q] <= z.view[q]
      /\ \A v \in Nat : \A q \in ReplicaID : w.ack[v][q] <= z.ack[v][q]
  BY DEF Later
<1> QED
  BY <1>1, <1>2, HistoryNumbers

LEMMA BlockedStays ==
  ASSUME NEW w, NEW z, Later(w, z), NEW u \in Nat, NEW i \in Nat, Blocked(w, u, i)
  PROVE  Blocked(z, u, i)
<1>1. PICK D \in Quorums : \A q \in D : w.view[q] > u /\ w.ack[u][q] < i
  BY DEF Blocked
<1>2. ASSUME NEW q \in D
      PROVE  z.view[q] > u /\ z.ack[u][q] < i
  <2>1. q \in ReplicaID /\ w.view[q] > u /\ w.ack[u][q] < i
    BY <1>1, <1>2 DEF Quorums
  <2>2. w.view[q] <= z.view[q] /\ z.ack[u][q] = w.ack[u][q] /\ w.view[q] \in Nat /\ z.view[q] \in Nat
    BY <2>1 DEF Later, HistoryTyped
  <2> QED
    BY <2>1, <2>2
<1> QED
  BY <1>2 DEF Blocked

LEMMA ChosenStays ==
  ASSUME NEW w, NEW z, Later(w, z), NEW u \in Nat, NEW i, Chosen(w, u, i)
  PROVE  Chosen(z, u, i) /\ z.log[u][i] = w.log[u][i]
<1>1. i \in 1 .. w.len[u] /\ w.len[u] \in Nat /\ z.len[u] \in Nat /\ w.len[u] <= z.len[u]
      /\ z.log[u][i] = w.log[u][i]
  BY DEF Chosen, Later, HistoryTyped
<1>2. PICK D \in Quorums : \A q \in D : w.ack[u][q] >= i
  BY DEF Chosen
<1>3. ASSUME NEW q \in D
      PROVE  z.ack[u][q] >= i
  <2>1. q \in ReplicaID /\ w.ack[u][q] >= i
    BY <1>2, <1>3 DEF Quorums
  <2>2. w.ack[u][q] <= z.ack[u][q] /\ w.ack[u][q] \in Nat /\ z.ack[u][q] \in Nat
    BY <2>1 DEF Later, HistoryTyped
  <2> QED
    BY <1>1, <2>1, <2>2
<1> QED
  BY <1>1, <1>3 DEF Chosen

LEMMA DecidedStays ==
  ASSUME NEW w, NEW z, Later(w, z), NEW v \in Nat, NEW i, NEW e, Decided(w, v, i, e)
  PROVE  Decided(z, v, i, e)
<1>1. PICK c \in 0 .. v : Chosen(w, c, i) /\ w.log[c][i] = e
  BY DEF Decided
<1>2. Chosen(z, c, i) /\ z.log[c][i] = e
  BY <1>1, ChosenStays
<1> QED
  BY <1>2 DEF Decided

LEMMA HoldsStays ==
  ASSUME NEW w, NEW z, Later(w, z), NEW u \in Nat, NEW i \in Nat \ {0}, NEW g, NEW n,
         Holds(w, u, i, g, n)
  PROVE  Holds(z, u, i, g, n)
<1>1. w.len[u] \in Nat /\ z.len[u] \in Nat /\ w.len[u] <= z.len[u] /\ i \in 1 .. w.len[u]
  BY SMTT(30) DEF Later, HistoryTyped, Holds
<1>2. z.log[u][i] = w.log[u][i]
  BY <1>1 DEF Later
<1> QED
  BY <1>1, <1>2 DEF Holds

LEMMA SafeStays ==
  ASSUME NEW w, NEW z, Later(w, z), NEW v \in Nat, NEW g, NEW n, Safe(w, v, g, n)
  PROVE  Safe(z, v, g, n)
<1> SUFFICES ASSUME NEW u \in 0 .. v - 1, NEW i \in Nat \ {0}
             PROVE  Blocked(z, u, i) \/ Holds(z, u, i, g, n)
  BY DEF Safe
<1>1. Blocked(w, u, i) \/ Holds(w, u, i, g, n)
  BY DEF Safe
<1>2. u \in Nat /\ i \in Nat
  OBVIOUS
<1> QED
  BY <1>1, <1>2, BlockedStays, HoldsStays

LEMMA CopiedStays ==
  ASSUME NEW w, NEW z, Later(w, z), NEW g, NEW n \in Nat, Copied(w, g, n)
  PROVE  Copied(z, g, n)
<1>1. PICK v \in w.started : n <= w.len[v] /\ \A i \in 1 .. n : g[i] = w.log[v][i]
  BY DEF Copied
<1>2. /\ v \in z.started /\ v \in Nat /\ w.len[v] \in Nat /\ z.len[v] \in Nat
      /\ w.len[v] <= z.len[v]
      /\ \A i \in 1 .. w.len[v] : z.log[v][i] = w.log[v][i]
  BY DEF Later, HistoryTyped
<1>3. \A i \in 1 .. n : i \in 1 .. w.len[v]
  BY <1>1, <1>2
<1>4. n <= z.len[v] /\ \A i \in 1 .. n : g[i] = z.log[v][i]
  BY <1>1, <1>2, <1>3
<1> QED
  BY <1>2, <1>4 DEF Copied

\* A replica that left a view says nothing more of it.
LEMMA OwnStays ==
  ASSUME NEW w, NEW z, Later(w, z), NEW q \in ReplicaID, NEW l \in Nat,
         z.ack[l][q] = w.ack[l][q], NEW g, NEW n, Own(w, q, l, g, n)
  PROVE  Own(z, q, l, g, n)
<1> SUFFICES ASSUME NEW i \in Nat \ {0}
             PROVE  \/ Blocked(z, l, i)
                    \/ (i <= n => Holds(z, l, i, g, n)) /\ (i <= z.ack[l][q] => i <= n)
  BY DEF Own
<1>2. \/ Blocked(w, l, i)
      \/ (i <= n => Holds(w, l, i, g, n)) /\ (i <= w.ack[l][q] => i <= n)
  BY DEF Own
<1> QED
  BY <1>2, BlockedStays, HoldsStays

LEMMA CarriedStays ==
  ASSUME NEW w, NEW z, Later(w, z), NEW q \in ReplicaID, NEW l \in Nat,
         z.ack[l][q] = w.ack[l][q], NEW g, NEW n \in Nat, Carried(w, q, l, g, n)
  PROVE  Carried(z, q, l, g, n)
  BY CopiedStays, SafeStays, OwnStays DEF Carried

LEMMA CommitStays ==
  ASSUME NEW w, NEW z, Later(w, z), NEW v \in Nat, NEW k \in Nat, CommitOK(w, v, k)
  PROVE  CommitOK(z, v, k) /\ \A i \in 1 .. k : z.committed[i] = w.committed[i]
<1>1. w.known \in Nat /\ z.known \in Nat /\ w.known <= z.known /\ k <= w.known
  BY DEF Later, HistoryTyped, CommitOK
<1>2. \A i \in 1 .. k : z.committed[i] = w.committed[i]
  BY <1>1 DEF Later
<1>3. ASSUME NEW i \in 1 .. k
      PROVE  Decided(z, v, i, z.committed[i])
  <2>1. Decided(w, v, i, w.committed[i])
    BY DEF CommitOK
  <2>2. Decided(z, v, i, w.committed[i])
    BY <2>1, DecidedStays
  <2> QED
    BY <1>2, <2>2
<1> QED
  BY <1>1, <1>2, <1>3 DEF CommitOK

LEMMA SegmentValueStays ==
  ASSUME NEW w, NEW z, Later(w, z), NEW s, SegmentOK(s), s.start <= w.known
  PROVE  SegmentValue(z, s) = SegmentValue(w, s)
<1>1. s.start \in Nat /\ s.end \in Nat /\ w.known \in Nat
  BY DEF SegmentOK, Later, HistoryTyped
<1>2. \A i \in 1 .. s.end : i <= s.start => z.committed[i] = w.committed[i]
  <2> SUFFICES ASSUME NEW i \in 1 .. s.end, i <= s.start PROVE z.committed[i] = w.committed[i]
    OBVIOUS
  <2>1. i \in 1 .. w.known
    BY <1>1
  <2> QED
    BY <2>1 DEF Later
<1> QED
  BY <1>2 DEF SegmentValue

LEMMA SegmentOfStays ==
  ASSUME NEW w, NEW z, Later(w, z), NEW v \in Nat, NEW s, SegmentOK(s), SegmentOf(w, v, s)
  PROVE  SegmentOf(z, v, s)
<1>1. /\ v \in w.started /\ v \in z.started /\ z.base[v] = w.base[v]
      /\ w.base[v] <= s.end /\ s.end <= w.len[v]
      /\ w.len[v] \in Nat /\ z.len[v] \in Nat /\ w.len[v] <= z.len[v]
      /\ s.start \in Nat /\ s.end \in Nat
  BY DEF SegmentOf, Later, HistoryTyped, SegmentOK
<1>2. ASSUME NEW i \in s.start + 1 .. s.end
      PROVE  s.entries[i] = z.log[v][i]
  <2>1. i \in 1 .. w.len[v]
    BY <1>1
  <2>2. z.log[v][i] = w.log[v][i] /\ s.entries[i] = w.log[v][i]
    BY <2>1 DEF Later, SegmentOf
  <2> QED
    BY <2>2
<1> QED
  BY <1>1, <1>2 DEF SegmentOf

LEMMA WaitsStays ==
  ASSUME NEW w, NEW z, Later(w, z), NEW v \in Nat, NEW q \in ReplicaID, w.view[q] >= v,
         Waits(z, v, q)
  PROVE  /\ Waits(w, v, q) /\ z.rep[q].op_number = w.rep[q].op_number
         /\ Value(z.rep[q]) = Value(w.rep[q])
<1>1. v <= w.view[q]
  BY DEF Later, HistoryTyped
<1> QED
  BY <1>1 DEF Later, RepsGoOn

LEMMA DvcStays ==
  ASSUME NEW w, NEW z, Later(w, z), NEW v \in Nat, NEW d, DvcOK(d), DvcInv(w, v, d)
  PROVE  DvcInv(z, v, d)
<1> DEFINE q == d.replica_id
           n == d.segment.end
           l == d.last_normal_view
<1>1. /\ q \in ReplicaID /\ l \in Nat /\ SegmentOK(d.segment) /\ n \in Nat
      /\ d.segment.start \in Nat /\ d.commit_number \in Nat
  BY DEF DvcOK, StateOK, SegmentOK
<1>2. /\ w.view[q] >= v /\ l < v /\ d.segment.start <= d.commit_number /\ d.commit_number <= n
      /\ CommitOK(w, v, d.commit_number)
      /\ Carried(w, q, l, SegmentValue(w, d.segment), n)
      /\ \A u \in 0 .. v - 1 : w.ack[u][q] > 0 => u <= l
      /\ Waits(w, v, q) => w.rep[q].op_number = n /\ Value(w.rep[q]) = SegmentValue(w, d.segment)
  BY DEF DvcInv
<1>3. w.view[q] \in Nat /\ z.view[q] \in Nat /\ w.view[q] <= z.view[q] /\ w.view[q] > l
  <2>1. w.view[q] \in Nat /\ z.view[q] \in Nat /\ w.view[q] <= z.view[q]
    BY <1>1, LaterNumbers
  <2> QED
    BY <1>1, <1>2, <2>1
<1>4. CommitOK(z, v, d.commit_number)
  BY <1>1, <1>2, CommitStays
<1>5. SegmentValue(z, d.segment) = SegmentValue(w, d.segment)
  <2>1. d.segment.start <= w.known
    <3>1. w.known \in Nat /\ d.commit_number <= w.known
      BY <1>2, LaterNumbers DEF CommitOK
    <3> QED
      BY <1>1, <1>2, <3>1
  <2> QED
    BY <1>1, <2>1, SegmentValueStays
<1>6. Carried(z, q, l, SegmentValue(w, d.segment), n)
  <2>1. z.ack[l][q] = w.ack[l][q]
    BY <1>1, <1>3 DEF Later
  <2> QED
    BY <1>1, <1>2, <2>1, CarriedStays
<1>7. ASSUME NEW u \in 0 .. v - 1, z.ack[u][q] > 0
      PROVE  u <= l
  <2>1. u \in Nat /\ w.view[q] > u
    BY <1>2, <1>3
  <2>2. z.ack[u][q] = w.ack[u][q]
    BY <1>1, <2>1 DEF Later
  <2> QED
    BY <1>2, <1>7, <2>2
<1>8. ASSUME Waits(z, v, q)
      PROVE  z.rep[q].op_number = n /\ Value(z.rep[q]) = SegmentValue(z, d.segment)
  BY <1>1, <1>2, <1>5, <1>8, WaitsStays
<1>9. z.view[q] >= v
  BY <1>2, <1>3
<1> QED
  BY <1>2, <1>4, <1>5, <1>6, <1>7, <1>8, <1>9 DEF DvcInv

LEMMA TargetStays ==
  ASSUME NEW w, NEW z, Later(w, z), NEW v \in Nat, NEW t \in ReplicaID, Target(w, v, t)
  PROVE  Target(z, v, t)
<1>1. w.view[t] >= v /\ t # PrimaryOf(v)
      /\ (Waits(w, v, t) => Safe(w, v, Value(w.rep[t]), w.rep[t].op_number))
  BY DEF Target
<1>2. z.view[t] >= v
  BY <1>1 DEF Later, HistoryTyped
<1>3. ASSUME Waits(z, v, t)
      PROVE  Safe(z, v, Value(z.rep[t]), z.rep[t].op_number)
  BY <1>1, <1>3, WaitsStays, SafeStays
<1> QED
  BY <1>1, <1>2, <1>3 DEF Target

LEMMA StateStays ==
  ASSUME NEW w, NEW z, Later(w, z), NEW b, NEW m, m.view_number \in Nat, StateOK(m),
         StateInv(w, b, m)
  PROVE  StateInv(z, b, m)
<1>1. SegmentOK(m.segment) /\ m.commit_number \in Nat /\ m.segment.start \in Nat
      /\ m.segment.end \in Nat
  BY DEF StateOK, SegmentOK
<1>2. /\ CommitOK(w, m.view_number, m.commit_number)
      /\ m.segment.start <= m.segment.end /\ m.commit_number <= m.segment.end
      /\ m.segment.checkpoint => m.segment.start <= m.commit_number
      /\ b # PrimaryOf(m.view_number) => SegmentOf(w, m.view_number, m.segment)
      /\ b = PrimaryOf(m.view_number) =>
           \/ m.view_number \in w.started
           \/ /\ CommitOK(w, m.view_number, m.segment.start)
              /\ Safe(w, m.view_number, SegmentValue(w, m.segment), m.segment.end)
              /\ Copied(w, SegmentValue(w, m.segment), m.segment.end)
  BY DEF StateInv
<1>3. CommitOK(z, m.view_number, m.commit_number)
  BY <1>1, <1>2, CommitStays
<1>4. b # PrimaryOf(m.view_number) => SegmentOf(z, m.view_number, m.segment)
  BY <1>1, <1>2, SegmentOfStays
<1>5. ASSUME CommitOK(w, m.view_number, m.segment.start),
             Safe(w, m.view_number, SegmentValue(w, m.segment), m.segment.end),
             Copied(w, SegmentValue(w, m.segment), m.segment.end)
      PROVE  /\ CommitOK(z, m.view_number, m.segment.start)
             /\ Safe(z, m.view_number, SegmentValue(z, m.segment), m.segment.end)
             /\ Copied(z, SegmentValue(z, m.segment), m.segment.end)
  <2>1. CommitOK(z, m.view_number, m.segment.start)
    BY <1>1, <1>5, CommitStays
  <2>2. SegmentValue(z, m.segment) = SegmentValue(w, m.segment)
    BY <1>1, <1>5, SegmentValueStays DEF CommitOK
  <2>3. /\ Safe(z, m.view_number, SegmentValue(w, m.segment), m.segment.end)
        /\ Copied(z, SegmentValue(w, m.segment), m.segment.end)
    BY <1>1, <1>5, SafeStays, CopiedStays
  <2> QED
    BY <2>1, <2>2, <2>3
<1>6. m.view_number \in w.started => m.view_number \in z.started
  BY DEF Later
<1> QED
  BY <1>2, <1>3, <1>4, <1>5, <1>6 DEF StateInv

LEMMA ViewLogStays ==
  ASSUME NEW w, NEW z, Later(w, z), NEW v \in Nat, NEW m, StateOK(m), ViewLogInv(w, v, m)
  PROVE  ViewLogInv(z, v, m)
<1>1. SegmentOK(m.segment) /\ m.commit_number \in Nat
  BY DEF StateOK
<1> QED
  BY <1>1, SegmentOfStays, CommitStays DEF ViewLogInv

LEMMA OffersStays ==
  ASSUME NEW w, NEW z, Later(w, z), NEW v \in Nat, NEW q, NEW m, StateOK(m), Offers(w, q, v, m)
  PROVE  Offers(z, q, v, m)
  BY ViewLogStays DEF Offers

LEMMA MessageStays ==
  ASSUME NEW w, NEW z, Later(w, z), NEW to \in ReplicaID, NEW m, MessageOK(m),
         MessageInv(w, to, m)
  PROVE  MessageInv(z, to, m)
<1>1. ASSUME m.type = "Prepare" PROVE PrepareInv(z, m)
  <2>1. m.view_number \in Nat /\ m.op_number \in Nat /\ m.commit_number \in Nat
    BY <1>1 DEF MessageOK
  <2>2. PrepareInv(w, m)
    BY <1>1 DEF MessageInv
  <2> DEFINE v == m.view_number
  <2>3. /\ v \in z.started /\ w.len[v] \in Nat /\ z.len[v] \in Nat /\ w.len[v] <= z.len[v]
        /\ m.op_number \in 1 .. w.len[v] /\ m.entry = w.log[v][m.op_number]
        /\ z.log[v][m.op_number] = w.log[v][m.op_number]
    BY <2>1, <2>2 DEF PrepareInv, Later, HistoryTyped
  <2>4. CommitOK(z, v, m.commit_number)
    BY <2>1, <2>2, CommitStays DEF PrepareInv
  <2> QED
    BY <2>3, <2>4 DEF PrepareInv
<1>2. ASSUME m.type = "PrepareOk" PROVE m.op_number <= z.ack[m.view_number][m.replica_id]
  <2>1. m.view_number \in Nat /\ m.op_number \in Nat /\ m.replica_id \in ReplicaID
    BY <1>2 DEF MessageOK
  <2>2. m.op_number <= w.ack[m.view_number][m.replica_id]
    BY <1>2 DEF MessageInv
  <2>3. /\ w.ack[m.view_number][m.replica_id] \in Nat /\ z.ack[m.view_number][m.replica_id] \in Nat
        /\ w.ack[m.view_number][m.replica_id] <= z.ack[m.view_number][m.replica_id]
    BY <2>1, LaterNumbers
  <2> QED
    BY <2>1, <2>2, <2>3
<1>3. ASSUME m.type = "Commit"
      PROVE  m.view_number \in z.started /\ CommitOK(z, m.view_number, m.commit_number)
  <2>1. m.view_number \in Nat /\ m.commit_number \in Nat
    BY <1>3 DEF MessageOK
  <2>2. m.view_number \in w.started /\ CommitOK(w, m.view_number, m.commit_number)
    BY <1>3 DEF MessageInv
  <2>3. m.view_number \in z.started
    BY <2>2 DEF Later
  <2> QED
    BY <2>1, <2>2, <2>3, CommitStays
<1>4. ASSUME m.type = "GetState" PROVE GetStateInv(z, to, m)
  <2>1. m.view_number \in Nat /\ m.op_number \in Nat
    BY <1>4 DEF MessageOK
  <2>2. GetStateInv(w, to, m)
    BY <1>4 DEF MessageInv
  <2>3. m.view_number \in w.started => m.view_number \in z.started
    BY DEF Later
  <2> QED
    BY <2>1, <2>2, <2>3, TargetStays, CommitStays DEF GetStateInv
<1>5. ASSUME m.type = "NewState" PROVE StateInv(z, to, m)
  <2>1. m.view_number \in Nat /\ StateOK(m) /\ StateInv(w, to, m)
    BY <1>5 DEF MessageOK, MessageInv
  <2> QED
    BY <2>1, StateStays
<1>6. ASSUME m.type = "NewChunk" PROVE ChunkInv(z, m)
  <2>1. m.op_number \in Nat /\ ChunkInv(w, m) /\ w.known \in Nat /\ z.known \in Nat
        /\ w.known <= z.known
    BY <1>6 DEF MessageOK, MessageInv, Later, HistoryTyped
  <2>2. \A i \in 1 .. m.op_number : z.committed[i] = w.committed[i]
    BY <2>1 DEF ChunkInv, Later
  <2>3. [i \in 1 .. m.op_number |-> z.committed[i]] = [i \in 1 .. m.op_number |-> w.committed[i]]
    BY <2>2
  <2> QED
    BY <2>1, <2>3 DEF ChunkInv
<1>7. ASSUME m.type = "DoViewChange" PROVE DvcInv(z, m.view_number, m.dvc)
  <2>1. m.view_number \in Nat /\ DvcOK(m.dvc) /\ DvcInv(w, m.view_number, m.dvc)
    BY <1>7 DEF MessageOK, MessageInv
  <2> QED
    BY <2>1, DvcStays
<1>8. ASSUME m.type = "StartView" PROVE ViewLogInv(z, m.view_number, m)
  <2>1. m.view_number \in Nat /\ StateOK(m) /\ ViewLogInv(w, m.view_number, m)
    BY <1>8 DEF MessageOK, MessageInv
  <2> QED
    BY <2>1, ViewLogStays
<1>9. ASSUME m.type = "Recovery"
      PROVE  to # m.replica_id /\ m.nonce <= z.rep[m.replica_id].recovery_nonce
  <2>1. m.replica_id \in ReplicaID /\ m.nonce \in Nat
    BY <1>9 DEF MessageOK
  <2>2. to # m.replica_id /\ m.nonce <= w.rep[m.replica_id].recovery_nonce
    BY <1>9 DEF MessageInv
  <2>3. /\ w.rep[m.replica_id].recovery_nonce \in Nat /\ z.rep[m.replica_id].recovery_nonce \in Nat
        /\ w.rep[m.replica_id].recovery_nonce <= z.rep[m.replica_id].recovery_nonce
    BY <2>1 DEF Later, RepsGoOn
  <2> QED
    BY <2>1, <2>2, <2>3
<1>10. ASSUME m.type = "RecoveryResponse" PROVE ResponseInv(z, to, m)
  <2>1. m.view_number \in Nat /\ m.nonce \in Nat /\ (m.state.is => StateOK(m.state))
    BY <1>10 DEF MessageOK
  <2>2. ResponseInv(w, to, m)
    BY <1>10 DEF MessageInv
  <2>3. /\ w.rep[to].recovery_nonce \in Nat /\ z.rep[to].recovery_nonce \in Nat
        /\ w.rep[to].recovery_nonce <= z.rep[to].recovery_nonce
        /\ z.rep[to].status = "Recovering" /\ z.rep[to].recovery_nonce = w.rep[to].recovery_nonce =>
             w.rep[to].status = "Recovering" /\ \A v \in Nat : z.ack[v][to] = w.ack[v][to]
    BY DEF Later, RepsGoOn
  <2>4. m.nonce <= w.rep[to].recovery_nonce /\ m.nonce <= z.rep[to].recovery_nonce
    BY <2>1, <2>2, <2>3 DEF ResponseInv
  <2>5. ASSUME m.state.is
        PROVE  /\ Offers(z, to, m.view_number, m.state)
               /\ m.nonce = z.rep[to].recovery_nonce /\ z.rep[to].status = "Recovering" =>
                    z.ack[m.view_number][to] <= m.state.segment.end
    <3>1. /\ Offers(w, to, m.view_number, m.state)
          /\ m.nonce = w.rep[to].recovery_nonce /\ w.rep[to].status = "Recovering" =>
               w.ack[m.view_number][to] <= m.state.segment.end
      BY <2>2, <2>5 DEF ResponseInv
    <3>2. Offers(z, to, m.view_number, m.state)
      BY <2>1, <2>5, <3>1, OffersStays
    <3>3. ASSUME m.nonce = z.rep[to].recovery_nonce, z.rep[to].status = "Recovering"
          PROVE  z.ack[m.view_number][to] <= m.state.segment.end
      <4>1. m.nonce = w.rep[to].recovery_nonce
        BY <2>3, <2>4, <3>3
      <4> QED
        BY <2>1, <2>3, <3>1, <3>3, <4>1
    <3> QED
      BY <3>1, <3>2, <3>3
  <2> QED
    BY <2>4, <2>5 DEF ResponseInv
<1> QED
  BY <1>1, <1>2, <1>3, <1>4, <1>5, <1>6, <1>7, <1>8, <1>9, <1>10 DEF MessageInv

LEMMA MemberStays ==
  ASSUME NEW w, NEW z, Later(w, z), NEW v \in Nat, NEW g, NEW n \in Nat, Member(w, v, g, n)
  PROVE  Member(z, v, g, n)
<1>1. /\ v \in w.started /\ v \in z.started /\ z.base[v] = w.base[v]
      /\ w.base[v] <= n /\ n <= w.len[v]
      /\ w.len[v] \in Nat /\ z.len[v] \in Nat /\ w.len[v] <= z.len[v]
  BY DEF Member, Later, HistoryTyped
<1>2. ASSUME NEW i \in 1 .. n
      PROVE  g[i] = z.log[v][i]
  <2>1. i \in 1 .. w.len[v]
    BY <1>1
  <2>2. z.log[v][i] = w.log[v][i] /\ g[i] = w.log[v][i]
    BY <2>1 DEF Later, Member
  <2> QED
    BY <2>2
<1> QED
  BY <1>1, <1>2 DEF Member

\* Replica q took no part in what happened.
Apart(w, z, q) ==
  /\ z.view[q] = w.view[q] /\ z.rep[q] = w.rep[q]
  /\ \A v \in Nat : z.ack[v][q] = w.ack[v][q]
  /\ \A v \in Nat : PrimaryOf(v) = q =>
       /\ v \in z.started <=> v \in w.started
       /\ z.len[v] = w.len[v]

\* The log of a replica that took no part stands as it did.
LEMMA RestsStays ==
  ASSUME NEW w, NEW z, Later(w, z), NEW q \in ReplicaID, Apart(w, z, q),
         NEW s, NumbersOK(s), s.id = q, s.view_number = w.view[q], Rests(w, q, s)
  PROVE  Rests(z, q, s)
<1> DEFINE v == s.view_number
           l == s.last_normal_view
<1>1. /\ v \in Nat /\ l \in Nat /\ l <= v /\ s.op_number \in Nat /\ s.commit_number \in Nat
  BY DEF NumbersOK
<1>2. \A u \in Nat : z.ack[u][q] = w.ack[u][q]
  BY DEF Apart
<1>3. IsPrimary(s) => (v \in z.started <=> v \in w.started) /\ z.len[v] = w.len[v]
  BY <1>1 DEF IsPrimary, Apart
<1>4. \A i \in 1 .. s.commit_number : Decided(z, v, i, EntryAt(s, i))
  BY <1>1, DecidedStays DEF Rests, Stands
<1>5. ASSUME s.status # "Recovering", l = v
      PROVE  InView(z, q, s)
  <2>1. InView(w, q, s)
    BY <1>5 DEF Rests, Stands
  <2>2. z.ack[v][q] <= s.op_number
    BY <1>1, <1>2, <2>1 DEF InView
  <2>3. CASE ~IsPrimary(s)
    <3>1. Member(z, v, Value(s), s.op_number)
      BY <1>1, <2>1, <2>3, MemberStays DEF InView
    <3> QED
      BY <2>2, <2>3, <3>1 DEF InView
  <2>4. CASE IsPrimary(s)
    <3>1. Leads(w, s)
      BY <2>1, <2>4 DEF InView
    <3>2. ASSUME NEW x \in ReplicaID
          PROVE  s.acked[x] <= z.ack[v][x]
      <4>1. s.acked[x] <= w.ack[v][x] /\ s.acked[x] \in Nat
        BY <3>1 DEF Leads, NumbersOK
      <4>2. w.ack[v][x] \in Nat /\ z.ack[v][x] \in Nat /\ w.ack[v][x] <= z.ack[v][x]
        BY <1>1, LaterNumbers
      <4> QED
        BY <4>1, <4>2
    <3>3. /\ v \in w.started => w.len[v] <= s.op_number
          /\ v \in w.started => \A i \in 1 .. w.len[v] : EntryAt(s, i) = w.log[v][i]
          /\ \A i \in 1 .. w.len[v] : z.log[v][i] = w.log[v][i]
      BY <1>1, <3>1 DEF Leads, Later
    <3>4. v \notin z.started => Safe(z, v, Value(s), s.op_number)
      BY <1>1, <1>3, <2>4, <3>1, SafeStays DEF Leads
    <3>5. Leads(z, s)
      BY <1>3, <2>4, <3>1, <3>2, <3>3, <3>4 DEF Leads
    <3> QED
      BY <2>2, <2>4, <3>5 DEF InView
  <2> QED
    BY <2>3, <2>4
<1>6. ASSUME s.status # "Recovering", l < v
      PROVE  Left(z, q, s)
  <2>1. Left(w, q, s)
    BY <1>6 DEF Rests, Stands
  <2>2. z.ack[l][q] = w.ack[l][q]
    BY <1>1, <1>2
  <2>3. Carried(z, q, l, Value(s), s.op_number)
    BY <1>1, <2>1, <2>2, CarriedStays DEF Left
  <2> QED
    BY <1>3, <2>1, <2>3 DEF Left
<1>7. Stands(z, q, s)
  BY <1>2, <1>4, <1>5, <1>6 DEF Rests, Stands
<1>8. s.status # "Recovering" /\ l = v =>
        /\ z.ack[v][q] = s.op_number
        /\ IsPrimary(s) => v \in z.started /\ z.len[v] = s.op_number
  BY <1>1, <1>2, <1>3 DEF Rests
<1> QED
  BY <1>7, <1>8 DEF Rests

LEMMA ReceivedStays ==
  ASSUME NEW w, NEW z, Later(w, z), NEW q \in ReplicaID,
         NEW s, NumbersOK(s), ReceivedOK(s), ReceivedInv(w, q, s),
         s.status = "Recovering" => \A v \in Nat : z.ack[v][q] = w.ack[v][q]
  PROVE  ReceivedInv(z, q, s)
<1>1. s.view_number \in Nat
  BY DEF NumbersOK
<1>2. \A d \in s.do_view_change_from : DvcInv(z, s.view_number, d)
  BY <1>1, DvcStays DEF ReceivedInv, VotesInv, ReceivedOK
<1>3. s.catching_up # Nobody =>
       /\ s.status = "ViewChange"
       /\ IsPrimary(s) => /\ Cardinality(s.do_view_change_from) >= Quorum
                          /\ Target(z, s.view_number, s.catching_up)
       /\ ~IsPrimary(s) => /\ s.catching_up = PrimaryOf(s.view_number)
                           /\ s.view_number \in z.started
  <2> SUFFICES ASSUME s.catching_up # Nobody
               PROVE  /\ s.status = "ViewChange"
                      /\ IsPrimary(s) => /\ Cardinality(s.do_view_change_from) >= Quorum
                                         /\ Target(z, s.view_number, s.catching_up)
                      /\ ~IsPrimary(s) => /\ s.catching_up = PrimaryOf(s.view_number)
                                          /\ s.view_number \in z.started
    OBVIOUS
  <2>1. s.catching_up \in ReplicaID
    BY DEF ReceivedOK
  <2>2. s.view_number \in w.started => s.view_number \in z.started
    BY DEF Later
  <2> QED
    BY <1>1, <2>1, <2>2, TargetStays DEF ReceivedInv, CatchingInv
<1>4. ASSUME s.fetch.on
      PROVE  LET then == s.fetch.then IN
             /\ then.segment.checkpoint /\ then.segment.start <= then.commit_number
             /\ s.status = "Recovering" =>
                  /\ Offers(z, q, then.view_number, then)
                  /\ z.ack[then.view_number][q] <= then.segment.end
             /\ s.status # "Recovering" => StateInv(z, q, then)
             /\ s.status = "ViewChange" => s.catching_up # Nobody
  <2> DEFINE then == s.fetch.then
  <2>1. StateOK(then) /\ then.view_number \in Nat
    BY <1>4 DEF ReceivedOK, FetchOK
  <2>2. /\ then.segment.checkpoint /\ then.segment.start <= then.commit_number
        /\ s.status = "Recovering" =>
             /\ Offers(w, q, then.view_number, then)
             /\ w.ack[then.view_number][q] <= then.segment.end
        /\ s.status # "Recovering" => StateInv(w, q, then)
        /\ s.status = "ViewChange" => s.catching_up # Nobody
    BY <1>4 DEF ReceivedInv, FetchInv
  <2> HIDE DEF then
  <2>3. s.status = "Recovering" =>
             /\ Offers(z, q, then.view_number, then)
             /\ z.ack[then.view_number][q] <= then.segment.end
    BY <2>1, <2>2, OffersStays
  <2>4. s.status # "Recovering" => StateInv(z, q, then)
    BY <2>1, <2>2, StateStays
  <2> QED
    BY <2>2, <2>3, <2>4 DEF then
<1>5. ASSUME s.status = "Recovering", NEW x \in s.recovery_responses, x.state.is
      PROVE  /\ Offers(z, q, x.view_number, x.state)
             /\ z.ack[x.view_number][q] <= x.state.segment.end
  <2>1. x.view_number \in Nat /\ StateOK(x.state)
    BY <1>5 DEF ReceivedOK
  <2>2. /\ Offers(w, q, x.view_number, x.state)
        /\ w.ack[x.view_number][q] <= x.state.segment.end
    BY <1>5 DEF ReceivedInv, ResponsesInv
  <2> QED
    BY <1>5, <2>1, <2>2, OffersStays
<1>6. VotesInv(z, q, s)
  BY <1>2 DEF ReceivedInv, VotesInv
<1>7. CatchingInv(z, s)
  BY <1>3 DEF CatchingInv
<1>8. FetchInv(z, q, s)
  BY <1>4 DEF FetchInv
<1>9. ResponsesInv(z, q, s)
  BY <1>5 DEF ResponsesInv
<1> QED
  BY <1>6, <1>7, <1>8, <1>9 DEF ReceivedInv

-----------------------------------------------------------------------------
(* How a replica moves a history on *)

\* All that r has still to send.
Out(r) == r.early \union r.outbox \union r.outbox_waiting \union r.outbox_ready

\* A reply that a client can go on with.
Answers(x) ==
  /\ x.type = "Registered" => x.session \in Nat \ {0}
  /\ x.type = "Executed" => x.number \in Nat

\* The log has what executed, as far as it reaches back, and a checkpoint that
\* is kept is within that.
Sound(r) ==
  /\ \A x \in r.replies : Answers(x)
  /\ \A i \in r.log_start + 1 .. r.applied : r.log[i] = r.sm[i]
  /\ r.serving # Nobody => r.serving \in r.log_start .. r.applied

\* The entries c are decided.
Agreed(w, c) ==
  \E k \in Nat : DOMAIN c = 1 .. k /\ \A i \in 1 .. k : \E v \in Nat : Decided(w, v, i, c[i])

\* A replica of the history.
Known(w, x, r) ==
  /\ Ready(r) /\ r.id = x /\ r.ok /\ Sound(r)
  /\ r.view_number = w.view[x] /\ r.commit_number <= w.known
  /\ Rests(w, x, r) /\ ReceivedInv(w, x, r)
  /\ \A e \in Out(r) : MessageInv(w, e[1], e[2])

\* w is a history of the replicas rp, the messages M and the committed entries c.
World(w, rp, M, c) ==
  /\ HistoryInv(w) /\ CommittedInv(w) /\ Agreed(w, c)
  /\ DOMAIN rp = ReplicaID /\ w.rep = rp
  /\ \A x \in ReplicaID : Known(w, x, rp[x])
  /\ \A e \in M : Addressed(e) /\ MessageInv(w, e[1], e[2])

\* What a step may do to a replica, whatever it does to its log.
Succeeds(r, s) ==
  /\ r.view_number <= s.view_number
  /\ r.recovery_nonce <= s.recovery_nonce
  /\ s.status = "Recovering" /\ s.recovery_nonce = r.recovery_nonce => r.status = "Recovering"
  /\ s.view_number = r.view_number /\ s.status = "ViewChange" /\ ~IsPrimary(s) =>
       /\ r.status = "ViewChange" /\ s.op_number = r.op_number /\ Value(s) = Value(r)

\* Whether s is in a view, not between views or recovering.
InItsView(s) == s.status # "Recovering" /\ s.last_normal_view = s.view_number

\* The history once replica q is s.
Onward(w, q, s) ==
  LET v == s.view_number
      now == IF w.known <= s.commit_number THEN s.commit_number ELSE w.known
  IN  [started |-> w.started \union IF Serves(s) THEN {v} ELSE {},
       log |-> [u \in Nat |-> IF Serves(s) /\ u = v THEN Value(s) ELSE w.log[u]],
       len |-> [u \in Nat |-> IF Serves(s) /\ u = v THEN s.op_number ELSE w.len[u]],
       base |-> [u \in Nat |-> IF Serves(s) /\ u = v /\ v \notin w.started THEN s.op_number
                               ELSE w.base[u]],
       ack |-> [u \in Nat |-> [x \in ReplicaID |->
                  IF InItsView(s) /\ u = v /\ x = q THEN s.op_number ELSE w.ack[u][x]]],
       view |-> [x \in ReplicaID |-> IF x = q THEN v ELSE w.view[x]],
       rep |-> [x \in ReplicaID |-> IF x = q THEN s ELSE w.rep[x]],
       known |-> now,
       committed |-> [i \in 1 .. now |-> IF i <= w.known THEN w.committed[i] ELSE EntryAt(s, i)]]

\* What Onward does, field by field.
Moved(w, q, s, z) ==
  LET v == s.view_number IN
  /\ HistoryTyped(z)
  /\ z.started = w.started \union IF Serves(s) THEN {v} ELSE {}
  /\ \A u \in Nat : ~Serves(s) \/ u # v =>
       z.len[u] = w.len[u] /\ z.log[u] = w.log[u] /\ z.base[u] = w.base[u]
  /\ Serves(s) => z.len[v] = s.op_number /\ z.log[v] = Value(s)
  /\ Serves(s) /\ v \notin w.started => z.base[v] = s.op_number
  /\ v \in w.started => z.base[v] = w.base[v]
  /\ \A u \in Nat : \A x \in ReplicaID :
       ~(InItsView(s) /\ u = v /\ x = q) => z.ack[u][x] = w.ack[u][x]
  /\ InItsView(s) => z.ack[v][q] = s.op_number
  /\ \A x \in ReplicaID : x # q => z.view[x] = w.view[x] /\ z.rep[x] = w.rep[x]
  /\ z.view[q] = v /\ z.rep[q] = s /\ DOMAIN z.rep = ReplicaID
  /\ z.known = IF w.known <= s.commit_number THEN s.commit_number ELSE w.known
  /\ DOMAIN z.committed = 1 .. z.known
  /\ \A i \in 1 .. z.known :
       z.committed[i] = IF i <= w.known THEN w.committed[i] ELSE EntryAt(s, i)

\* Onward is what Moved says.
LEMMA OnwardIs ==
  ASSUME NEW w, HistoryTyped(w), NEW q \in ReplicaID, NEW s, NumbersOK(s),
         NEW z, z = Onward(w, q, s)
  PROVE  Moved(w, q, s, z)
<1> DEFINE v == s.view_number
<1>1. v \in Nat /\ s.op_number \in Nat /\ s.commit_number \in Nat
  BY DEF NumbersOK
<1>2. \A u \in Nat : \A x \in ReplicaID : w.ack[u][x] \in Nat
  BY HistoryNumbers
<1>3. z.ack \in [Nat -> [ReplicaID -> Nat]]
  BY <1>1, <1>2 DEF Onward
<1>4. z.len \in [Nat -> Nat] /\ z.base \in [Nat -> Nat] /\ z.view \in [ReplicaID -> Nat]
  BY <1>1 DEF Onward, HistoryTyped
<1>5. z.started \in SUBSET Nat /\ z.known \in Nat
  BY <1>1 DEF Onward, HistoryTyped
<1>6. HistoryTyped(z)
  BY <1>3, <1>4, <1>5 DEF HistoryTyped
<1>7. /\ z.started = w.started \union IF Serves(s) THEN {v} ELSE {}
      /\ \A u \in Nat : ~Serves(s) \/ u # v =>
              z.len[u] = w.len[u] /\ z.log[u] = w.log[u] /\ z.base[u] = w.base[u]
      /\ Serves(s) => z.len[v] = s.op_number /\ z.log[v] = Value(s)
      /\ Serves(s) /\ v \notin w.started => z.base[v] = s.op_number
      /\ v \in w.started => z.base[v] = w.base[v]
  BY <1>1 DEF Onward
<1>8. /\ \A u \in Nat : \A x \in ReplicaID :
              ~(InItsView(s) /\ u = v /\ x = q) => z.ack[u][x] = w.ack[u][x]
      /\ InItsView(s) => z.ack[v][q] = s.op_number
  BY <1>1 DEF Onward
<1>9. /\ \A x \in ReplicaID : x # q => z.view[x] = w.view[x] /\ z.rep[x] = w.rep[x]
      /\ z.view[q] = v /\ z.rep[q] = s /\ DOMAIN z.rep = ReplicaID
  BY DEF Onward
<1>10. /\ z.known = IF w.known <= s.commit_number THEN s.commit_number ELSE w.known
       /\ DOMAIN z.committed = 1 .. z.known
       /\ \A i \in 1 .. z.known :
              z.committed[i] = IF i <= w.known THEN w.committed[i] ELSE EntryAt(s, i)
  BY DEF Onward
<1> QED
  BY <1>6, <1>7, <1>8, <1>9, <1>10 DEF Moved

\* A primary in its view serves, and only such a replica does.
LEMMA ServesIs ==
  ASSUME NEW s, Ready(s)
  PROVE  Serves(s) <=> IsPrimary(s) /\ InItsView(s)
  BY DEF Ready, ReplicaOK, NumbersOK, Placed, Serves, InItsView, Status

\* The history that goes on is later.
LEMMA OnwardLater ==
  ASSUME NEW w, HistoryInv(w), NEW q \in ReplicaID, NEW s, Ready(s), s.id = q,
         Stands(w, q, s), w.view[q] <= s.view_number,
         \A x \in ReplicaID : w.rep[x].recovery_nonce \in Nat,
         w.view[q] = w.rep[q].view_number, Succeeds(w.rep[q], s),
         NEW z, z = Onward(w, q, s)
  PROVE  Later(w, z)
<1> DEFINE v == s.view_number
           r == w.rep[q]
<1>1. NumbersOK(s) /\ v \in Nat /\ s.op_number \in Nat
  BY DEF Ready, ReplicaOK, NumbersOK
<1>2. HistoryTyped(w)
  BY DEF HistoryInv
<1>3. /\ HistoryTyped(z)
      /\ z.started = w.started \union IF Serves(s) THEN {v} ELSE {}
      /\ \A u \in Nat : ~Serves(s) \/ u # v => z.len[u] = w.len[u] /\ z.log[u] = w.log[u] /\ z.base[u] = w.base[u]
      /\ Serves(s) => z.len[v] = s.op_number /\ z.log[v] = Value(s)
      /\ v \in w.started => z.base[v] = w.base[v]
      /\ \A u \in Nat : \A x \in ReplicaID :
              ~(InItsView(s) /\ u = v /\ x = q) => z.ack[u][x] = w.ack[u][x]
      /\ InItsView(s) => z.ack[v][q] = s.op_number
      /\ \A x \in ReplicaID : x # q => z.view[x] = w.view[x] /\ z.rep[x] = w.rep[x]
      /\ z.view[q] = v /\ z.rep[q] = s
      /\ z.known = IF w.known <= s.commit_number THEN s.commit_number ELSE w.known
      /\ \A i \in 1 .. z.known :
              z.committed[i] = IF i <= w.known THEN w.committed[i] ELSE EntryAt(s, i)
  <2>1. Moved(w, q, s, z)
    BY <1>1, <1>2, OnwardIs
  <2> QED
    BY <2>1 DEF Moved
<1>4. /\ w.known \in Nat /\ z.known \in Nat
      /\ \A x \in ReplicaID : w.view[x] \in Nat
      /\ \A u \in Nat : w.len[u] \in Nat /\ z.len[u] \in Nat
      /\ \A u \in Nat : \A x \in ReplicaID : w.ack[u][x] \in Nat
  BY <1>2, <1>3, HistoryNumbers
<1>5. InItsView(s) => InView(w, q, s)
  BY DEF Stands, InItsView
<1>6. Serves(s) => InItsView(s) /\ Leads(w, s)
  BY <1>5, ServesIs DEF InView
<1> HIDE DEF v, r
<1>7. ASSUME NEW u \in Nat
      PROVE  w.len[u] <= z.len[u] /\ \A i \in 1 .. w.len[u] : z.log[u][i] = w.log[u][i]
  <2>1. CASE ~Serves(s) \/ u # v
    BY <1>3, <1>4, <2>1
  <2>2. CASE Serves(s) /\ u = v
    <3>1. CASE u \in w.started
      <4>1. w.len[v] <= s.op_number /\ \A i \in 1 .. w.len[v] : EntryAt(s, i) = w.log[v][i]
        BY <1>6, <2>2, <3>1 DEF Leads, v
      <4>2. \A i \in 1 .. w.len[v] : i \in 1 .. s.op_number
        BY <1>1, <1>4, <2>2, <4>1
      <4>3. \A i \in 1 .. w.len[v] : Value(s)[i] = w.log[v][i]
        BY <4>1, <4>2 DEF Value
      <4> QED
        BY <1>3, <2>2, <4>1, <4>3
    <3>2. CASE u \notin w.started
      <4>1. w.len[u] = 0
        BY <3>2 DEF HistoryInv
      <4> QED
        BY <1>4, <4>1
    <3> QED
      BY <3>1, <3>2
  <2> QED
    BY <2>1, <2>2
<1>8. \A u \in w.started : z.base[u] = w.base[u]
  BY <1>2, <1>3 DEF HistoryTyped
<1>9. \A x \in ReplicaID : w.view[x] <= z.view[x]
  BY <1>3, <1>4 DEF v
<1>10. ASSUME NEW u \in Nat, NEW x \in ReplicaID
       PROVE  w.ack[u][x] <= z.ack[u][x] /\ (w.view[x] > u => z.ack[u][x] = w.ack[u][x])
  <2>1. CASE ~(InItsView(s) /\ u = v /\ x = q)
    BY <1>3, <1>4, <2>1
  <2>2. CASE InItsView(s) /\ u = v /\ x = q
    <3>1. w.ack[v][q] <= s.op_number
      BY <1>5, <2>2 DEF InView, v
    <3> QED
      BY <1>1, <1>3, <1>4, <2>2, <3>1 DEF v
  <2> QED
    BY <2>1, <2>2
<1>11. w.known <= z.known /\ \A i \in 1 .. w.known : z.committed[i] = w.committed[i]
  BY <1>1, <1>3, <1>4
<1>12. ASSUME NEW x \in ReplicaID, x # q
       PROVE  /\ w.rep[x].recovery_nonce <= z.rep[x].recovery_nonce
              /\ \A u \in Nat : z.ack[u][x] = w.ack[u][x]
              /\ z.rep[x] = w.rep[x]
  BY <1>3, <1>12
<1>13. /\ r.recovery_nonce <= s.recovery_nonce /\ s.recovery_nonce \in Nat
       /\ s.status = "Recovering" /\ s.recovery_nonce = r.recovery_nonce =>
            r.status = "Recovering" /\ \A u \in Nat : z.ack[u][q] = w.ack[u][q]
  <2>1. s.status = "Recovering" => \A u \in Nat : z.ack[u][q] = w.ack[u][q]
    BY <1>3 DEF InItsView
  <2> QED
    BY <1>1, <2>1 DEF Succeeds, r, NumbersOK
<1>14. ASSUME NEW u \in Nat, u <= w.view[q], Waits(z, u, q)
       PROVE  /\ Waits(w, u, q) /\ s.op_number = r.op_number
              /\ Value(s) = Value(r)
  <2>1. q # PrimaryOf(u) /\ v = u /\ s.status = "ViewChange"
    BY <1>3, <1>14 DEF Waits, v
  <2>2. u = r.view_number /\ v = r.view_number /\ ~IsPrimary(s)
    BY <1>1, <1>4, <1>14, <2>1 DEF v, r, IsPrimary
  <2>3. r.status = "ViewChange" /\ s.op_number = r.op_number /\ Value(s) = Value(r)
    BY <2>1, <2>2 DEF Succeeds, r, v
  <2> QED
    BY <2>1, <2>2, <2>3 DEF Waits, r
<1>15. RepsGoOn(w, z)
  <2> SUFFICES ASSUME NEW x \in ReplicaID
               PROVE  /\ w.rep[x].recovery_nonce \in Nat /\ z.rep[x].recovery_nonce \in Nat
                      /\ w.rep[x].recovery_nonce <= z.rep[x].recovery_nonce
                      /\ z.rep[x].status = "Recovering" /\ z.rep[x].recovery_nonce = w.rep[x].recovery_nonce =>
                           w.rep[x].status = "Recovering" /\ \A u \in Nat : z.ack[u][x] = w.ack[u][x]
                      /\ \A u \in Nat : u <= w.view[x] /\ Waits(z, u, x) =>
                           /\ Waits(w, u, x) /\ z.rep[x].op_number = w.rep[x].op_number
                           /\ Value(z.rep[x]) = Value(w.rep[x])
    BY DEF RepsGoOn
  <2>1. CASE x # q
    <3>1. \A u \in Nat : Waits(z, u, x) => Waits(w, u, x)
      BY <1>12, <2>1 DEF Waits
    <3> QED
      BY <1>12, <2>1, <3>1
  <2>2. CASE x = q
    BY <1>3, <1>13, <1>14, <2>2 DEF r
  <2> QED
    BY <2>1, <2>2
<1> QED
  BY <1>2, <1>3, <1>7, <1>8, <1>9, <1>10, <1>11, <1>15 DEF Later

\* The history that goes on is one.
LEMMA OnwardHistory ==
  ASSUME NEW w, HistoryInv(w), CommittedInv(w), NEW q \in ReplicaID, NEW s, Ready(s), s.id = q,
         Stands(w, q, s), NEW z, Moved(w, q, s, z), Later(w, z)
  PROVE  HistoryInv(z) /\ CommittedInv(z)
<1> DEFINE v == s.view_number
<1>1. v \in Nat /\ s.op_number \in Nat /\ s.commit_number \in Nat
  BY DEF Ready, ReplicaOK, NumbersOK
<1>2. HistoryTyped(w)
  BY DEF HistoryInv
<1>3. /\ HistoryTyped(z)
      /\ z.started = w.started \union IF Serves(s) THEN {v} ELSE {}
      /\ \A u \in Nat : ~Serves(s) \/ u # v => z.len[u] = w.len[u] /\ z.log[u] = w.log[u] /\ z.base[u] = w.base[u]
      /\ Serves(s) => z.len[v] = s.op_number /\ z.log[v] = Value(s)
      /\ Serves(s) /\ v \notin w.started => z.base[v] = s.op_number
      /\ \A u \in Nat : \A x \in ReplicaID :
              ~(InItsView(s) /\ u = v /\ x = q) => z.ack[u][x] = w.ack[u][x]
      /\ InItsView(s) => z.ack[v][q] = s.op_number
      /\ z.view[q] = v
      /\ z.known = IF w.known <= s.commit_number THEN s.commit_number ELSE w.known
      /\ DOMAIN z.committed = 1 .. z.known
      /\ \A i \in 1 .. z.known :
              z.committed[i] = IF i <= w.known THEN w.committed[i] ELSE EntryAt(s, i)
  BY DEF Moved
<1>4. InItsView(s) => InView(w, q, s)
  BY DEF Stands, InItsView
<1>5. /\ Serves(s) => InItsView(s) /\ IsPrimary(s) /\ Leads(w, s)
      /\ InItsView(s) /\ ~Serves(s) => Member(w, v, Value(s), s.op_number)
  BY <1>4, ServesIs DEF InView
<1>6. /\ \A u \in Nat : z.len[u] \in Nat /\ w.len[u] \in Nat /\ w.len[u] <= z.len[u]
      /\ \A u \in Nat : z.base[u] \in Nat /\ w.base[u] \in Nat
      /\ w.known \in Nat /\ z.known \in Nat
  <2>1. \A u \in Nat : w.len[u] <= z.len[u]
    BY DEF Later
  <2> QED
    BY <1>2, <1>3, <2>1, HistoryNumbers
<1> HIDE DEF v
<1>7. ASSUME NEW u \in Nat, u \notin z.started
      PROVE  z.len[u] = 0
  <2>1. u \notin w.started /\ (~Serves(s) \/ u # v)
    BY <1>3, <1>7
  <2> QED
    BY <1>3, <2>1 DEF HistoryInv
<1>8. ASSUME NEW u \in Nat, NEW x \in ReplicaID
      PROVE  z.ack[u][x] <= z.len[u] /\ (z.ack[u][x] > 0 => u <= z.view[x])
  <2>1. /\ w.ack[u][x] \in Nat /\ z.ack[u][x] \in Nat
        /\ w.view[x] \in Nat /\ z.view[x] \in Nat /\ w.view[x] <= z.view[x]
    BY LaterNumbers
  <2>2. w.ack[u][x] <= w.len[u] /\ (w.ack[u][x] > 0 => u <= w.view[x])
    BY DEF HistoryInv
  <2>3. CASE ~(InItsView(s) /\ u = v /\ x = q)
    <3>1. z.ack[u][x] = w.ack[u][x]
      BY <1>3, <2>3
    <3> QED
      BY <1>6, <2>1, <2>2, <3>1
  <2>4. CASE InItsView(s) /\ u = v /\ x = q
    <3>1. z.ack[u][x] = s.op_number /\ u = z.view[x]
      BY <1>3, <2>4
    <3>2. s.op_number <= z.len[u]
      <4>1. CASE Serves(s)
        BY <1>1, <1>3, <2>4, <4>1
      <4>2. CASE ~Serves(s)
        <5>1. s.op_number <= w.len[u]
          BY <1>5, <2>4, <4>2 DEF Member
        <5> QED
          BY <1>1, <1>6, <5>1
      <4> QED
        BY <4>1, <4>2
    <3> QED
      BY <2>1, <3>1, <3>2
  <2> QED
    BY <2>3, <2>4
<1>9. ASSUME NEW u \in z.started
      PROVE  /\ z.base[u] <= z.len[u] /\ Safe(z, u, z.log[u], z.base[u])
             /\ OrderedLog(z.log[u], z.len[u])
             /\ z.view[PrimaryOf(u)] >= u
  <2>0. u \in Nat
    BY <1>3 DEF HistoryTyped
  <2>1. CASE u \in w.started
    <3>1. /\ w.base[u] <= w.len[u] /\ Safe(w, u, w.log[u], w.base[u])
          /\ OrderedLog(w.log[u], w.len[u]) /\ w.view[PrimaryOf(u)] >= u
      BY <2>1 DEF HistoryInv
    <3>2. /\ z.base[u] = w.base[u] /\ \A i \in 1 .. w.len[u] : z.log[u][i] = w.log[u][i]
      BY <2>0, <2>1 DEF Later
    <3>3. Safe(z, u, w.log[u], w.base[u])
      BY <2>0, <3>1, SafeStays
    <3>4. Safe(z, u, z.log[u], w.base[u])
      <4>1. ASSUME NEW i \in Nat \ {0}, i <= w.base[u] PROVE z.log[u][i] = w.log[u][i]
        <5>1. i \in 1 .. w.len[u]
          BY <1>6, <2>0, <3>1, <4>1
        <5> QED
          BY <3>2, <5>1
      <4> QED
        BY <3>3, <4>1 DEF Safe, Holds
    <3>5. OrderedLog(z.log[u], z.len[u])
      <4>1. CASE ~Serves(s) \/ u # v
        BY <1>3, <2>0, <3>1, <4>1
      <4>2. CASE Serves(s) /\ u = v
        BY <1>3, <1>5, <4>2 DEF Leads
      <4> QED
        BY <4>1, <4>2
    <3>6. z.view[PrimaryOf(u)] >= u
      <4>1. PrimaryOf(u) \in ReplicaID
        BY <2>0, PrimaryIsReplica
      <4>2. /\ w.view[PrimaryOf(u)] \in Nat /\ z.view[PrimaryOf(u)] \in Nat
            /\ w.view[PrimaryOf(u)] <= z.view[PrimaryOf(u)]
        BY <4>1, LaterNumbers
      <4> QED
        BY <2>0, <3>1, <4>2
    <3>7. z.base[u] <= z.len[u]
      BY <1>6, <2>0, <3>1, <3>2
    <3> QED
      BY <3>2, <3>4, <3>5, <3>6, <3>7
  <2>2. CASE u \notin w.started
    <3>1. Serves(s) /\ u = v
      BY <1>3, <2>2
    <3>2. /\ z.base[u] = s.op_number /\ z.len[u] = s.op_number /\ z.log[u] = Value(s)
      BY <1>3, <2>2, <3>1
    <3>3. OrderedLog(Value(s), s.op_number) /\ Safe(w, u, Value(s), s.op_number)
      BY <1>5, <2>2, <3>1 DEF Leads, v
    <3>4. Safe(z, u, Value(s), s.op_number)
      BY <2>0, <3>3, SafeStays
    <3>5. PrimaryOf(u) = q
      BY <1>5, <3>1 DEF IsPrimary, v
    <3> QED
      BY <1>1, <1>3, <3>1, <3>2, <3>3, <3>4, <3>5 DEF v
  <2> QED
    BY <2>1, <2>2
<1>10. 0 \in z.started
  BY <1>3 DEF HistoryInv
<1>11. ASSUME NEW i \in 1 .. z.known
       PROVE  \E u \in Nat : Decided(z, u, i, z.committed[i])
  <2>1. CASE i <= w.known
    <3>1. i \in 1 .. w.known /\ z.committed[i] = w.committed[i]
      BY <1>3, <1>6, <2>1
    <3>2. PICK u \in Nat : Decided(w, u, i, w.committed[i])
      BY <3>1 DEF CommittedInv
    <3> QED
      BY <3>1, <3>2, DecidedStays
  <2>2. CASE i > w.known
    <3>1. z.committed[i] = EntryAt(s, i) /\ i \in 1 .. s.commit_number
      BY <1>1, <1>3, <1>6, <2>2
    <3>2. Decided(w, s.view_number, i, EntryAt(s, i))
      BY <3>1 DEF Stands
    <3> QED
      BY <1>1, <3>1, <3>2, DecidedStays DEF v
  <2> QED
    BY <1>6, <2>1, <2>2
<1>12. HistoryInv(z)
  BY <1>3, <1>7, <1>8, <1>9, <1>10 DEF HistoryInv
<1>13. CommittedInv(z)
  BY <1>3, <1>11 DEF CommittedInv
<1> QED
  BY <1>12, <1>13

\* The replica that moved rests in the history that goes on.
LEMMA OnwardRests ==
  ASSUME NEW w, HistoryInv(w), NEW q \in ReplicaID, NEW s, Ready(s), s.id = q,
         Stands(w, q, s), NEW z, Moved(w, q, s, z), Later(w, z)
  PROVE  Rests(z, q, s)
<1> DEFINE v == s.view_number
           l == s.last_normal_view
<1>1. /\ v \in Nat /\ l \in Nat /\ l <= v /\ s.op_number \in Nat /\ s.commit_number \in Nat
      /\ NumbersOK(s)
  BY DEF Ready, ReplicaOK, NumbersOK
<1>2. HistoryTyped(w)
  BY DEF HistoryInv
<1>3. /\ z.started = w.started \union IF Serves(s) THEN {v} ELSE {}
      /\ Serves(s) => z.len[v] = s.op_number /\ z.log[v] = Value(s)
      /\ \A u \in Nat : ~(InItsView(s) /\ u = v) => z.ack[u][q] = w.ack[u][q]
      /\ InItsView(s) => z.ack[v][q] = s.op_number
  BY DEF Moved
<1>4. \A i \in 1 .. s.commit_number : Decided(z, v, i, EntryAt(s, i))
  BY <1>1, DecidedStays DEF Stands
<1>5. ASSUME s.status # "Recovering", NEW u \in Nat, z.ack[u][q] > 0
      PROVE  u <= l
  <2>1. CASE InItsView(s) /\ u = v
    BY <1>1, <2>1 DEF InItsView
  <2>2. CASE ~(InItsView(s) /\ u = v)
    BY <1>3, <1>5, <2>2 DEF Stands
  <2> QED
    BY <2>1, <2>2
<1>6. ASSUME InItsView(s)
      PROVE  /\ InView(z, q, s)
             /\ IsPrimary(s) => v \in z.started /\ z.len[v] = s.op_number
  <2>1. InView(w, q, s)
    BY <1>6 DEF Stands, InItsView
  <2>2. z.ack[v][q] <= s.op_number
    BY <1>1, <1>3, <1>6
  <2>3. CASE ~IsPrimary(s)
    <3>1. Member(z, v, Value(s), s.op_number)
      BY <1>1, <2>1, <2>3, MemberStays DEF InView
    <3> QED
      BY <2>2, <2>3, <3>1 DEF InView
  <2>4. CASE IsPrimary(s)
    <3>0. Serves(s)
      BY <1>6, <2>4, ServesIs
    <3>1. Leads(w, s)
      BY <2>1, <2>4 DEF InView
    <3>2. ASSUME NEW x \in ReplicaID
          PROVE  s.acked[x] <= z.ack[v][x]
      <4>1. s.acked[x] <= w.ack[v][x] /\ s.acked[x] \in Nat
        BY <1>1, <3>1 DEF Leads, NumbersOK
      <4>2. w.ack[v][x] \in Nat /\ z.ack[v][x] \in Nat /\ w.ack[v][x] <= z.ack[v][x]
        BY <1>1, LaterNumbers
      <4> QED
        BY <4>1, <4>2
    <3>3. v \in z.started /\ z.len[v] = s.op_number /\ z.log[v] = Value(s)
      BY <1>3, <3>0
    <3>4. \A i \in 1 .. s.op_number : EntryAt(s, i) = Value(s)[i]
      BY DEF Value
    <3>5. Leads(z, s)
      BY <1>1, <3>1, <3>2, <3>3, <3>4 DEF Leads
    <3> QED
      BY <2>2, <2>4, <3>3, <3>5 DEF InView
  <2> QED
    BY <2>3, <2>4
<1>7. ASSUME s.status # "Recovering", l < v
      PROVE  Left(z, q, s)
  <2>1. Left(w, q, s)
    BY <1>7 DEF Stands
  <2>2. ~InItsView(s) /\ ~Serves(s)
    <3>1. ~InItsView(s)
      BY <1>1, <1>7 DEF InItsView
    <3> QED
      BY <3>1, ServesIs
  <2>3. z.ack[l][q] = w.ack[l][q]
    BY <1>1, <1>3, <2>2
  <2>4. Carried(z, q, l, Value(s), s.op_number)
    BY <1>1, <2>1, <2>3, CarriedStays DEF Left
  <2>5. z.started = w.started
    BY <1>3, <2>2
  <2> QED
    BY <2>1, <2>4, <2>5 DEF Left
<1>8. Stands(z, q, s)
  BY <1>4, <1>5, <1>6, <1>7 DEF Stands, InItsView
<1> QED
  BY <1>3, <1>6, <1>8 DEF Rests, InItsView

\* A replica moves: the history goes on, and all the others are in it as before.
LEMMA WorldGoesOn ==
  ASSUME NEW w, NEW rp, NEW M, NEW c, World(w, rp, M, c), NEW q \in ReplicaID,
         NEW s, Ready(s), s.id = q, s.ok, Sound(s), Succeeds(rp[q], s),
         Stands(w, q, s), ReceivedInv(w, q, s),
         \A e \in Out(s) : e \in Out(rp[q]) \/ MessageInv(w, e[1], e[2])
  PROVE  \E z : World(z, [rp EXCEPT ![q] = s], M, c) /\ Later(w, z)
<1> DEFINE z == Onward(w, q, s)
           now == [rp EXCEPT ![q] = s]
<1>1. /\ HistoryInv(w) /\ CommittedInv(w) /\ Agreed(w, c) /\ HistoryTyped(w)
      /\ DOMAIN rp = ReplicaID /\ w.rep = rp
      /\ \A x \in ReplicaID : Known(w, x, rp[x])
      /\ \A e \in M : Addressed(e) /\ MessageInv(w, e[1], e[2])
  BY DEF World, HistoryInv
<1>2. \A x \in ReplicaID : w.rep[x].recovery_nonce \in Nat /\ w.view[x] = w.rep[x].view_number
  BY <1>1 DEF Known, Ready, ReplicaOK, NumbersOK
<1>3. w.view[q] <= s.view_number /\ Succeeds(w.rep[q], s)
  BY <1>1, <1>2 DEF Succeeds
<1>4. Moved(w, q, s, z)
  BY <1>1, OnwardIs DEF Ready, ReplicaOK
<1>5. Later(w, z)
  <2> HIDE DEF z
  <2>1. z = Onward(w, q, s)
    BY DEF z
  <2> QED
    BY <1>1, <1>2, <1>3, <2>1, OnwardLater
<1> HIDE DEF z
<1>6. HistoryInv(z) /\ CommittedInv(z)
  BY <1>1, <1>4, <1>5, OnwardHistory
<1>7. Rests(z, q, s)
  BY <1>1, <1>4, <1>5, OnwardRests
<1>8. /\ z.view[q] = s.view_number /\ z.rep[q] = s /\ DOMAIN z.rep = ReplicaID
      /\ \A x \in ReplicaID : x # q => z.view[x] = w.view[x] /\ z.rep[x] = w.rep[x]
      /\ \A u \in Nat : \A x \in ReplicaID : x # q => z.ack[u][x] = w.ack[u][x]
      /\ s.status = "Recovering" => \A u \in Nat : z.ack[u][q] = w.ack[u][q]
      /\ z.known = IF w.known <= s.commit_number THEN s.commit_number ELSE w.known
  BY <1>4 DEF Moved, InItsView
<1>9. Agreed(z, c)
  <2>1. PICK k \in Nat : DOMAIN c = 1 .. k /\ \A i \in 1 .. k : \E v \in Nat : Decided(w, v, i, c[i])
    BY <1>1 DEF Agreed
  <2>2. \A i \in 1 .. k : \E v \in Nat : Decided(z, v, i, c[i])
    BY <1>5, <2>1, DecidedStays
  <2> QED
    BY <2>1, <2>2 DEF Agreed
<1>10. Known(z, q, s)
  <2>1. ReceivedInv(z, q, s)
    BY <1>5, <1>8, ReceivedStays DEF Ready, ReplicaOK
  <2>2. ASSUME NEW e \in Out(s) PROVE MessageInv(z, e[1], e[2])
    <3>1. Addressed(e)
      BY DEF Out, Ready, ReplicaOK, OutboxesOK
    <3>2. MessageInv(w, e[1], e[2])
      BY <1>1 DEF Known
    <3> QED
      BY <1>5, <3>1, <3>2, MessageStays DEF Addressed
  <2>3. s.commit_number <= z.known
    <3>1. s.commit_number \in Nat /\ w.known \in Nat
      BY <1>1 DEF Ready, ReplicaOK, NumbersOK, HistoryTyped
    <3> QED
      BY <1>8, <3>1
  <2> QED
    BY <1>7, <1>8, <2>1, <2>2, <2>3 DEF Known
<1>11. ASSUME NEW x \in ReplicaID, x # q
       PROVE  Known(z, x, rp[x])
  <2> DEFINE r == rp[x]
  <2>1. /\ Ready(r) /\ r.id = x /\ r.ok /\ Sound(r)
        /\ r.view_number = w.view[x] /\ r.commit_number <= w.known
        /\ Rests(w, x, r) /\ ReceivedInv(w, x, r)
        /\ \A e \in Out(r) : MessageInv(w, e[1], e[2])
    BY <1>1 DEF Known
  <2>2. r.view_number = z.view[x] /\ r.commit_number \in Nat
    BY <1>8, <1>11, <2>1 DEF Ready, ReplicaOK, NumbersOK
  <2>3. r.commit_number <= z.known
    <3>1. w.known \in Nat /\ z.known \in Nat /\ w.known <= z.known
      BY <1>5, LaterNumbers
    <3> QED
      BY <2>1, <2>2, <3>1
  <2>4. Apart(w, z, x)
    <3>1. z.view[x] = w.view[x] /\ z.rep[x] = w.rep[x] /\ \A v \in Nat : z.ack[v][x] = w.ack[v][x]
      BY <1>8, <1>11
    <3>2. ASSUME NEW v \in Nat, PrimaryOf(v) = x
          PROVE  (v \in z.started <=> v \in w.started) /\ z.len[v] = w.len[v]
      <4>1. ~Serves(s) \/ v # s.view_number
        BY <1>11, <3>2 DEF Serves, IsPrimary
      <4> QED
        BY <1>4, <4>1 DEF Moved
    <3> QED
      BY <3>1, <3>2 DEF Apart
  <2>5. NumbersOK(r) /\ ReceivedOK(r)
    BY <2>1 DEF Ready, ReplicaOK
  <2> HIDE DEF r
  <2>6. Rests(z, x, r)
    BY <1>5, <2>1, <2>4, <2>5, RestsStays
  <2>7. ReceivedInv(z, x, r)
    BY <1>5, <1>8, <1>11, <2>1, <2>5, ReceivedStays
  <2>8. ASSUME NEW e \in Out(r) PROVE MessageInv(z, e[1], e[2])
    <3>1. Addressed(e)
      BY <2>1 DEF Out, Ready, ReplicaOK, OutboxesOK
    <3> QED
      BY <1>5, <2>1, <3>1, MessageStays DEF Addressed
  <2>9. Known(z, x, r)
    BY <2>1, <2>2, <2>3, <2>6, <2>7, <2>8 DEF Known
  <2> QED
    BY <2>9 DEF r
<1>12. \A e \in M : Addressed(e) /\ MessageInv(z, e[1], e[2])
  BY <1>1, <1>5, MessageStays DEF Addressed
<1>13. DOMAIN now = ReplicaID /\ z.rep = now
  <2>1. z.rep = [x \in ReplicaID |-> IF x = q THEN s ELSE w.rep[x]]
    BY DEF z, Onward
  <2> QED
    BY <1>1, <2>1
<1>14. \A x \in ReplicaID : Known(z, x, now[x])
  BY <1>1, <1>10, <1>11
<1>15. World(z, now, M, c)
  BY <1>6, <1>9, <1>12, <1>13, <1>14 DEF World
<1> QED
  BY <1>5, <1>15

-----------------------------------------------------------------------------
(* What the operators on the log do to it *)

\* A replica with a log it can execute.
Whole(r) ==
  DOMAIN r = Fields /\ NumbersOK(r) /\ r.ok /\ Sound(r) /\ r.commit_number <= r.op_number

\* The log and what goes with it is the same, as far as executing it goes.
SameLog(r, s) ==
  /\ Whole(s) /\ s.op_number = r.op_number
  /\ \A i \in 1 .. r.op_number : EntryAt(s, i) = EntryAt(r, i)

\* The same log has the same value.
LEMMA SameValue ==
  ASSUME NEW r, NEW s, SameLog(r, s)
  PROVE  Value(s) = Value(r)
  BY DEF SameLog, Value

\* The reply to an entry of an ordered log.
LEMMA ReplyAnswers ==
  ASSUME NEW log, NEW n \in Nat, OrderedLog(log, n), NEW i \in 1 .. n
  PROVE  Answers(ReplyTo(ClientTable(log, i - 1), i, log[i]))
<1> DEFINE table == ClientTable(log, i - 1)
           e == log[i]
           c == e.client
<1>1. History(log, n) /\ i - 1 \in 0 .. n /\ i \in Nat \ {0} /\ i - 1 \in Nat
  BY OrderedLogTyped
<1>2. e \in Entries /\ c \in Client /\ e.number \in Nat
  BY <1>1 DEF History, Entries
<1>3. table \in [Client -> Records]
  BY <1>1, <1>2, TableTyped
<1>4. table[c].session \in Nat /\ (table[c].session = 0 <=> table[c] = NoRecord)
  <2>1. table[c] \in Records /\ (table[c].session = 0 <=> table[c] = NoRecord)
    BY <1>1, <1>2, TableTyped
  <2> QED
    BY <2>1 DEF Records
<1> DEFINE x == ReplyTo(table, i, e)
<1> SUFFICES Answers(x)
  OBVIOUS
<1> HIDE DEF table, e
<1>5. CASE e.session = 0
  <2>1. Registered(table, i, c)[c].session \in Nat \ {0}
    <3>1. CASE table[c] # NoRecord
      BY <1>4, <3>1 DEF Registered
    <3>2. CASE table[c] = NoRecord
      <4> DEFINE old == IF Cardinality({d \in Client : table[d] # NoRecord}) >= ClientsMax
                        THEN Evict(table) ELSE table
      <4>1. Registered(table, i, c) = [old EXCEPT ![c] = [NoRecord EXCEPT !.session = i, !.op = i]]
        BY <3>2 DEF Registered
      <4>2. DOMAIN old = Client
        BY <1>3 DEF Evict
      <4> HIDE DEF old
      <4>3. Registered(table, i, c)[c] = [NoRecord EXCEPT !.session = i, !.op = i]
        BY <1>2, <4>1, <4>2
      <4> QED
        BY <1>1, <4>3 DEF NoRecord
    <3> QED
      BY <3>1, <3>2
  <2>2. x = [type |-> "Registered", client |-> e.client, number |-> 0, result |-> 0,
             session |-> Registered(table, i, e.client)[e.client].session]
    BY <1>5 DEF ReplyTo
  <2> QED
    BY <2>1, <2>2 DEF Answers
<1>6. CASE e.session # 0 /\ InSession(table, e)
  <2>1. x = [type |-> "Executed", client |-> e.client, session |-> e.session,
             number |-> e.number, result |-> i]
    BY <1>6 DEF ReplyTo
  <2> QED
    BY <1>2, <2>1 DEF Answers
<1>7. CASE e.session # 0 /\ ~InSession(table, e)
  <2>1. x = [type |-> "Evicted", client |-> e.client, session |-> e.session,
             number |-> 0, result |-> 0]
    BY <1>7 DEF ReplyTo
  <2> QED
    BY <2>1 DEF Answers
<1> QED
  BY <1>5, <1>6, <1>7

\* What executes of an ordered log executes in order, and stays what it was.
LEMMA ApplyKeeps ==
  ASSUME NEW r, Whole(r), OrderedLog(Value(r), r.op_number), NEW op \in Nat
  PROVE  SameLog(r, ApplyCommitted(r, op)) /\ SameBut(r, ApplyCommitted(r, op), ApplyFields)
<1> DEFINE upto == Higher(r.applied, Lower(r.commit_number, op))
           ran == r.applied + 1 .. upto
           sm == [i \in 1 .. upto |-> IF i <= r.applied THEN r.sm[i] ELSE r.log[i]]
           given == {ReplyTo(ClientTable(sm, i - 1), i, sm[i]) : i \in ran \intersect r.reply_ops}
           fine == \A i \in ran : InOrder(ClientTable(sm, i - 1), sm[i])
           mid == [r EXCEPT !.applied = upto, !.sm = sm, !.replies = @ \union given,
                            !.reply_ops = @ \ (1 .. upto), !.ok = @ /\ fine]
           s == ApplyCommitted(r, op)
           g == Value(r)
<1>1. /\ DOMAIN r = Fields /\ NumbersOK(r) /\ r.ok /\ Sound(r)
      /\ r.applied \in Nat /\ r.commit_number \in Nat /\ r.op_number \in Nat /\ r.log_start \in Nat
      /\ r.log_start <= r.applied /\ r.applied <= r.commit_number /\ r.commit_number <= r.op_number
      /\ r.serving \in Nat \union {Nobody}
  BY DEF Whole, NumbersOK
<1>2. upto \in Nat /\ r.applied <= upto /\ upto <= r.commit_number
  BY <1>1 DEF Higher, Lower
<1>3. ran \subseteq r.log_start + 1 .. r.op_number
  BY <1>1, <1>2
<1>4. s = ExecuteQueries(mid)
  BY <1>3 DEF ApplyCommitted
<1> HIDE DEF upto
<1>5. \A i \in 1 .. upto : i \in 1 .. r.op_number /\ sm[i] = g[i]
  BY <1>1, <1>2 DEF Value, EntryAt
<1>6. ASSUME NEW i \in ran
      PROVE  i \in 1 .. r.op_number /\ ClientTable(sm, i - 1) = ClientTable(g, i - 1) /\ sm[i] = g[i]
  <2>1. i \in 1 .. upto /\ i - 1 \in Nat /\ \A j \in 1 .. i - 1 : sm[j] = g[j]
    BY <1>1, <1>2, <1>5
  <2> HIDE DEF sm, g
  <2>2. ClientTable(sm, i - 1) = ClientTable(g, i - 1)
    BY <2>1, ClientTablePrefix
  <2> QED
    BY <1>5, <2>1, <2>2
<1>7. fine
  <2> SUFFICES ASSUME NEW i \in ran PROVE InOrder(ClientTable(sm, i - 1), sm[i])
    OBVIOUS
  <2>1. i \in 1 .. r.op_number /\ InOrder(ClientTable(g, i - 1), g[i])
    BY <1>6 DEF OrderedLog, TableBefore
  <2> QED
    BY <1>6, <2>1
<1>8. \A x \in given : Answers(x)
  <2> SUFFICES ASSUME NEW i \in ran PROVE Answers(ReplyTo(ClientTable(sm, i - 1), i, sm[i]))
    OBVIOUS
  <2>1. Answers(ReplyTo(ClientTable(g, i - 1), i, g[i]))
    BY <1>1, <1>6, ReplyAnswers
  <2> QED
    BY <1>6, <2>1
<1> HIDE DEF given, fine, g
<1>9. /\ SameBut(r, mid, {"applied", "sm", "replies", "reply_ops", "ok"})
      /\ mid.applied = upto /\ mid.sm = sm /\ mid.replies = r.replies \union given /\ mid.ok
  BY <1>1, <1>7 DEF SameBut, Fields
<1> HIDE DEF mid, sm
<1>10. SameBut(mid, s, {"queries", "replies"}) /\ \A x \in s.replies : x \in mid.replies \/ x.type = "Queried"
  <2>1. SameBut(mid, s, {"queries", "replies"})
    BY <1>4, <1>9, ExecuteQueriesFrame DEF SameBut
  <2>2. CASE ~Serves(mid)
    BY <1>4, <2>1, <2>2 DEF ExecuteQueries
  <2>3. CASE Serves(mid)
    <3> DEFINE last == Max({k \in 0 .. Len(mid.queries) : \A i \in 1 .. k : MayGo(mid, mid.queries[i])})
    <3>1. s = [mid EXCEPT
              !.queries = SubSeq(@, last + 1, Len(@)),
              !.replies = @ \union {[type |-> "Queried", client |-> mid.queries[i].client,
                                     session |-> 0, number |-> mid.queries[i].number,
                                     result |-> mid.applied] : i \in 1 .. last}]
      BY <1>4, <2>3 DEF ExecuteQueries
    <3> HIDE DEF last
    <3>2. DOMAIN mid = Fields
      BY <1>9 DEF SameBut
    <3> QED
      BY <2>1, <3>1, <3>2 DEF Fields
  <2> QED
    BY <2>2, <2>3
<1> HIDE DEF s
<1>11. /\ s.applied = upto /\ s.sm = sm /\ s.ok /\ SameBut(r, s, ApplyFields)
       /\ \A x \in s.replies : Answers(x)
  <2>1. /\ s.applied = upto /\ s.sm = sm /\ s.ok /\ SameBut(r, s, ApplyFields)
    BY <1>9, <1>10 DEF SameBut, ApplyFields, Fields
  <2>2. ASSUME NEW x \in s.replies PROVE Answers(x)
    <3>1. x \in r.replies \/ x \in given \/ x.type = "Queried"
      BY <1>9, <1>10
    <3> QED
      BY <1>1, <1>8, <3>1 DEF Sound, Answers
  <2> QED
    BY <2>1, <2>2
<1>12. /\ s.op_number = r.op_number /\ s.commit_number = r.commit_number /\ s.log = r.log
       /\ s.log_start = r.log_start /\ s.serving = r.serving
  BY <1>11 DEF SameBut, ApplyFields, Fields
<1>13. NumbersOK(s)
  BY <1>1, <1>2, <1>11, <1>12 DEF NumbersOK, SameBut, ApplyFields, Fields
<1>14. \A i \in 1 .. upto : s.sm[i] = IF i <= r.applied THEN r.sm[i] ELSE r.log[i]
  BY <1>11 DEF sm
<1>15. \A i \in 1 .. r.op_number : EntryAt(s, i) = EntryAt(r, i)
  BY <1>1, <1>2, <1>11, <1>12, <1>14 DEF EntryAt
<1>16. Sound(s)
  <2>1. ASSUME NEW i \in s.log_start + 1 .. s.applied PROVE s.log[i] = s.sm[i]
    <3>1. i \in 1 .. upto /\ i \in r.log_start + 1 .. upto
      BY <1>1, <1>2, <1>11, <1>12
    <3>2. CASE i <= r.applied
      <4>1. r.log[i] = r.sm[i]
        BY <1>1, <1>2, <3>1, <3>2 DEF Sound
      <4> QED
        BY <1>12, <1>14, <3>1, <3>2, <4>1
    <3>3. CASE ~(i <= r.applied)
      BY <1>12, <1>14, <3>1, <3>3
    <3> QED
      BY <3>2, <3>3
  <2>2. s.serving # Nobody => s.serving \in s.log_start .. s.applied
    BY <1>1, <1>2, <1>11, <1>12 DEF Sound
  <2> QED
    BY <1>11, <2>1, <2>2 DEF Sound
<1>17. Whole(s)
  BY <1>1, <1>11, <1>12, <1>13, <1>16 DEF Whole, SameBut
<1> QED
  BY <1>11, <1>12, <1>15, <1>17 DEF SameLog, s

\* commit_up_to executes what it commits and changes no entry.
LEMMA CommitKeeps ==
  ASSUME NEW r, Whole(r), OrderedLog(Value(r), r.op_number), NEW commit \in Nat,
         commit <= r.op_number, NEW reply
  PROVE  LET s == CommitUpTo(r, commit, reply) IN
         /\ SameLog(r, s) /\ SameBut(r, s, CommitFields)
         /\ s.commit_number = Higher(r.commit_number, commit)
<1> DEFINE mid == [r EXCEPT !.commit_number = commit,
                           !.reply_ops = @ \union IF reply THEN r.commit_number + 1 .. commit
                                                            ELSE {}]
           s == CommitUpTo(r, commit, reply)
<1>0. r.commit_number \in Nat /\ NumbersOK(r) /\ DOMAIN r = Fields
  BY DEF Whole, NumbersOK
<1>1. CASE commit <= r.commit_number
  <2>1. s = r
    BY <1>1 DEF CommitUpTo
  <2> QED
    BY <1>0, <1>1, <2>1 DEF SameLog, SameBut, Whole, Higher
<1>2. CASE ~ (commit <= r.commit_number)
  <2>1. s = ApplyCommitted(mid, DurableOp(r))
    BY <1>2 DEF CommitUpTo
  <2>2. SameBut(r, mid, {"commit_number", "reply_ops"}) /\ mid.commit_number = commit
    BY <1>0 DEF SameBut, Fields
  <2> HIDE DEF mid
  <2>3. /\ mid.applied = r.applied /\ mid.sm = r.sm /\ mid.log = r.log /\ mid.op_number = r.op_number
        /\ mid.log_start = r.log_start /\ mid.serving = r.serving /\ mid.replies = r.replies
        /\ mid.ok = r.ok
    BY <2>2 DEF SameBut, Fields
  <2>4. NumbersOK(mid) /\ DOMAIN mid = Fields
    BY <1>0, <1>2, <2>2 DEF NumbersOK, SameBut, Fields
  <2>5. Whole(mid)
    BY <2>2, <2>3, <2>4 DEF Whole, Sound
  <2>6. \A i \in 1 .. r.op_number : EntryAt(mid, i) = EntryAt(r, i)
    BY <2>3 DEF EntryAt
  <2>7. Value(mid) = Value(r)
    BY <2>3, <2>6 DEF Value
  <2>8. SameLog(mid, s) /\ SameBut(mid, s, ApplyFields)
    BY <1>0, <2>1, <2>3, <2>5, <2>7, DurableOpType, ApplyKeeps
  <2> HIDE DEF s
  <2>9. SameLog(r, s)
    BY <2>3, <2>6, <2>8 DEF SameLog
  <2>10. SameBut(r, s, CommitFields)
    BY <2>2, <2>8 DEF SameBut, ApplyFields, CommitFields, Fields
  <2>11. s.commit_number = commit
    BY <2>2, <2>8 DEF SameBut, ApplyFields, CommitFields, Fields
  <2>12. s.commit_number = Higher(r.commit_number, commit)
    BY <1>0, <1>2, <2>11 DEF Higher
  <2> QED
    BY <2>9, <2>10, <2>12 DEF s
<1> QED
  BY <1>1, <1>2

\* What has changed since the disk was d is marked.
Marked(s, d) ==
  /\ s.log_changed_from = 0 => d.op_number = s.op_number
  /\ d.log_start <= s.log_start
  /\ \A i \in s.log_start + 1 .. s.op_number :
       s.log_changed_from = 0 \/ i < s.log_changed_from => d.log[i] = s.log[i]
  /\ s.log_changed_from <= Higher(d.op_number, s.log_start) + 1
  /\ s.written.is => s.written.log_start = d.log_start
  /\ d.commit_number <= s.commit_number
  /\ d.applied \in Nat /\ d.applied <= s.applied
  /\ s.log_start <= d.flushed \/ s.log_start > d.applied

\* What leaves the log alone leaves it marked.
LEMMA MarkedStays ==
  ASSUME NEW r, NEW s, NEW d, Marked(r, d), NumbersOK(r), NumbersOK(s), DiskOK(d),
         s.log_changed_from = r.log_changed_from, s.op_number = r.op_number,
         s.log_start = r.log_start, s.log = r.log, s.written = r.written,
         r.commit_number <= s.commit_number, r.applied <= s.applied
  PROVE  Marked(s, d)
  BY DEF Marked, NumbersOK, DiskOK

\* append_to_log adds one entry and marks it.
LEMMA AppendIs ==
  ASSUME NEW r, Whole(r), NEW entry, NEW s, s = AppendToLog(r, entry), NEW d, DiskOK(d)
  PROVE  /\ SameBut(r, s, LogFields) /\ Whole(s) /\ s.op_number = r.op_number + 1
         /\ \A i \in 1 .. s.op_number :
              EntryAt(s, i) = IF i = r.op_number + 1 THEN entry ELSE EntryAt(r, i)
         /\ Marked(r, d) => Marked(s, d)
<1>1. /\ DOMAIN r = Fields /\ NumbersOK(r) /\ r.ok /\ Sound(r) /\ r.commit_number <= r.op_number
      /\ r.applied \in Nat /\ r.commit_number \in Nat /\ r.op_number \in Nat /\ r.log_start \in Nat
      /\ r.applied <= r.op_number /\ r.log_start <= r.applied /\ r.log_changed_from \in Nat
      /\ r.serving \in Nat \union {Nobody}
  BY DEF Whole, NumbersOK
<1>2. SameBut(r, s, LogFields) /\ NumbersOK(s) /\ s.op_number = r.op_number + 1
  BY <1>1, AppendToLogFrame
<1>3. /\ s.applied = r.applied /\ s.sm = r.sm /\ s.commit_number = r.commit_number /\ s.ok = r.ok
      /\ s.log_start = r.log_start /\ s.serving = r.serving /\ s.replies = r.replies
      /\ s.written = r.written
  BY <1>2 DEF SameBut, LogFields, Fields
<1>4. /\ s.log = [i \in r.log_start + 1 .. r.op_number + 1 |->
                    IF i = r.op_number + 1 THEN entry ELSE r.log[i]]
      /\ s.log_changed_from = IF r.log_changed_from = 0 THEN r.op_number + 1
                              ELSE Lower(r.log_changed_from, r.op_number + 1)
  BY <1>1 DEF AppendToLog, MarkLogChanged, Fields
<1>5. \A i \in 1 .. s.op_number :
              EntryAt(s, i) = IF i = r.op_number + 1 THEN entry ELSE EntryAt(r, i)
  BY <1>1, <1>2, <1>3, <1>4 DEF EntryAt
<1>6. Sound(s)
  BY <1>1, <1>3, <1>4 DEF Sound
<1>7. Whole(s)
  BY <1>1, <1>2, <1>3, <1>6 DEF Whole, SameBut
<1>8. ASSUME Marked(r, d) PROVE Marked(s, d)
  <2>1. d.op_number \in Nat /\ d.commit_number \in Nat /\ d.log_start \in Nat
    BY DEF DiskOK
  <2>2. s.log_changed_from # 0 /\ s.log_changed_from <= r.op_number + 1
        /\ (r.log_changed_from # 0 => s.log_changed_from <= r.log_changed_from)
        /\ s.log_changed_from \in Nat
    BY <1>1, <1>4 DEF Lower
  <2>3. \A i \in s.log_start + 1 .. s.op_number :
          i < s.log_changed_from => d.log[i] = s.log[i]
    BY <1>1, <1>2, <1>3, <1>4, <1>8, <2>2 DEF Marked
  <2>4. s.log_changed_from <= Higher(d.op_number, s.log_start) + 1
    BY <1>1, <1>3, <1>8, <2>1, <2>2 DEF Marked, Higher
  <2> QED
    BY <1>3, <1>8, <2>2, <2>3, <2>4 DEF Marked
<1> QED
  BY <1>2, <1>5, <1>7, <1>8

\* merge_log keeps what is committed, takes the rest from the segment and marks it.
LEMMA MergeIs ==
  ASSUME NEW r, Whole(r), NEW segment, SegmentOK(segment),
         NEW keep, keep = Higher(segment.start, r.commit_number), keep <= r.op_number,
         NEW s, s = MergeLog(r, segment), NEW d, DiskOK(d)
  PROVE  /\ SameBut(r, s, LogFields) /\ Whole(s) /\ s.op_number = Higher(keep, segment.end)
         /\ \A i \in 1 .. s.op_number :
              EntryAt(s, i) = IF i <= keep THEN EntryAt(r, i) ELSE segment.entries[i]
         /\ Marked(r, d) => Marked(s, d)
<1>1. /\ DOMAIN r = Fields /\ NumbersOK(r) /\ r.ok /\ Sound(r) /\ r.commit_number <= r.op_number
      /\ r.applied \in Nat /\ r.commit_number \in Nat /\ r.op_number \in Nat /\ r.log_start \in Nat
      /\ r.applied <= r.op_number /\ r.log_start <= r.applied /\ r.log_changed_from \in Nat
      /\ r.applied <= r.commit_number /\ r.serving \in Nat \union {Nobody}
      /\ segment.start \in Nat /\ segment.end \in Nat
  BY DEF Whole, NumbersOK, SegmentOK
<1>2. keep \in Nat /\ r.commit_number <= keep /\ ~(keep > r.op_number)
  BY <1>1 DEF Higher
<1>3. SameBut(r, s, LogFields) /\ NumbersOK(s)
  BY <1>1, <1>2, MergeLogFrame
<1> DEFINE end == Higher(keep, segment.end)
<1>4. end \in Nat /\ keep <= end
  BY <1>1, <1>2 DEF Higher
<1>5. /\ s.op_number = end
      /\ s.log = [i \in r.log_start + 1 .. end |->
                    IF i <= keep THEN r.log[i] ELSE segment.entries[i]]
      /\ s.log_changed_from = IF r.log_changed_from = 0 THEN keep + 1
                              ELSE Lower(r.log_changed_from, keep + 1)
  BY <1>1, <1>2 DEF MergeLog, MarkLogChanged, Fields
<1> HIDE DEF end
<1>6. /\ s.applied = r.applied /\ s.sm = r.sm /\ s.commit_number = r.commit_number /\ s.ok = r.ok
      /\ s.log_start = r.log_start /\ s.serving = r.serving /\ s.replies = r.replies
      /\ s.written = r.written
  BY <1>3 DEF SameBut, LogFields, Fields
<1>7. \A i \in 1 .. s.op_number :
              EntryAt(s, i) = IF i <= keep THEN EntryAt(r, i) ELSE segment.entries[i]
  BY <1>1, <1>2, <1>4, <1>5, <1>6 DEF EntryAt
<1>8. Sound(s)
  BY <1>1, <1>2, <1>4, <1>5, <1>6 DEF Sound
<1>9. Whole(s)
  BY <1>1, <1>2, <1>3, <1>4, <1>5, <1>6, <1>8 DEF Whole, SameBut
<1>10. ASSUME Marked(r, d) PROVE Marked(s, d)
  <2>1. d.op_number \in Nat /\ d.commit_number \in Nat /\ d.log_start \in Nat
    BY DEF DiskOK
  <2>2. s.log_changed_from # 0 /\ s.log_changed_from <= keep + 1
        /\ (r.log_changed_from # 0 => s.log_changed_from <= r.log_changed_from)
        /\ s.log_changed_from \in Nat
    BY <1>1, <1>2, <1>5 DEF Lower
  <2>3. \A i \in s.log_start + 1 .. s.op_number :
          i < s.log_changed_from => d.log[i] = s.log[i]
    <3> SUFFICES ASSUME NEW i \in r.log_start + 1 .. end, i < s.log_changed_from
                 PROVE  d.log[i] = s.log[i]
      BY <1>5, <1>6
    <3>1. i <= keep /\ i \in r.log_start + 1 .. r.op_number /\ (r.log_changed_from = 0 \/ i < r.log_changed_from)
      BY <1>1, <1>2, <2>2
    <3> QED
      BY <1>5, <1>10, <3>1 DEF Marked
  <2>4. s.log_changed_from <= Higher(d.op_number, s.log_start) + 1
    BY <1>1, <1>2, <1>6, <1>10, <2>1, <2>2 DEF Marked, Higher
  <2> QED
    BY <1>6, <1>10, <2>2, <2>3, <2>4 DEF Marked
<1> QED
  BY <1>3, <1>5, <1>7, <1>9, <1>10 DEF end

\* s is r with a checkpoint at op.
Restored(r, s, op, chunk, d) ==
  /\ SameBut(r, s, RestoreFields) /\ Whole(s)
  /\ s.op_number = op /\ s.commit_number = op /\ s.log_start = op
  /\ \A i \in 1 .. op : EntryAt(s, i) = chunk[i]
  /\ Marked(s, d)

\* restore_checkpoint replaces the log by the checkpoint.
LEMMA RestoreIs ==
  ASSUME NEW r, Whole(r), NEW op \in Nat, op > r.commit_number, NEW chunk,
         NEW s, s = RestoreCheckpoint(r, op, chunk), NEW d, DiskOK(d), Marked(r, d)
  PROVE  Restored(r, s, op, chunk, d)
<1>1. /\ DOMAIN r = Fields /\ NumbersOK(r) /\ r.ok /\ Sound(r)
      /\ r.applied \in Nat /\ r.commit_number \in Nat /\ r.log_start \in Nat
      /\ r.log_start <= r.applied /\ r.applied <= r.commit_number /\ r.log_changed_from \in Nat
  BY DEF Whole, NumbersOK
<1>2. /\ SameBut(r, s, RestoreFields) /\ NumbersOK(s)
      /\ s.op_number = op /\ s.commit_number = op /\ s.log_start = op
  BY <1>1, RestoreCheckpointFrame
<1>3. s = MarkLogChanged([r EXCEPT !.serving = Nobody, !.commit_number = op, !.applied = op,
                   !.sm = chunk, !.reply_ops = {}, !.log_start = op,
                   !.op_number = op, !.log = NoEntries],
         op + 1)
  BY <1>1 DEF RestoreCheckpoint
<1>4. /\ s.applied = op /\ s.sm = chunk /\ s.serving = Nobody
      /\ s.log_changed_from = IF r.log_changed_from = 0 THEN op + 1
                              ELSE Lower(r.log_changed_from, op + 1)
  BY <1>1, <1>3 DEF MarkLogChanged, Fields
<1>5. s.ok = r.ok /\ s.replies = r.replies /\ s.written = r.written
  BY <1>2 DEF SameBut, RestoreFields, LogFields, Fields
<1>6. Sound(s)
  BY <1>1, <1>2, <1>4, <1>5 DEF Sound
<1>7. Whole(s)
  BY <1>1, <1>2, <1>5, <1>6 DEF Whole, SameBut
<1>8. \A i \in 1 .. op : EntryAt(s, i) = chunk[i]
  BY <1>4 DEF EntryAt
<1>9. Marked(s, d)
  <2>1. d.op_number \in Nat /\ d.commit_number \in Nat /\ d.log_start \in Nat
    BY DEF DiskOK
  <2>2. s.log_changed_from # 0 /\ s.log_changed_from <= op + 1 /\ s.log_changed_from \in Nat
    BY <1>1, <1>4 DEF Lower
  <2> QED
    BY <1>1, <1>2, <1>4, <1>5, <2>1, <2>2 DEF Marked, Higher
<1> QED
  BY <1>2, <1>7, <1>8, <1>9 DEF Restored

-----------------------------------------------------------------------------
(* The log a view starts with *)

\* The best vote has the latest last normal view, and of those the longest log.
LEMMA BestIsBest ==
  ASSUME NEW S, IsFiniteSet(S), S # {}, \A d \in S : DvcOK(d)
  PROVE  /\ Best(S) \in S
         /\ \A e \in S : \/ Best(S).last_normal_view > e.last_normal_view
                         \/ /\ Best(S).last_normal_view = e.last_normal_view
                            /\ Best(S).segment.end >= e.segment.end
<1>1. \A d \in S : /\ d.last_normal_view \in Nat /\ d.segment.end \in Nat
                   /\ d.replica_id \in Nat
  BY ConfigAssumption DEF DvcOK, StateOK, SegmentOK, ReplicaID
<1> DEFINE v == [d \in S |-> d.last_normal_view]
<1>2. PICK a \in S : \A e \in S : v[a] >= v[e]
  <2>1. v \in [S -> Nat]
    BY <1>1
  <2> HIDE DEF v
  <2> QED
    BY <2>1, GreatestExists
<1> DEFINE S2 == {d \in S : d.last_normal_view = a.last_normal_view}
           n == [d \in S2 |-> d.segment.end]
<1>3. PICK b \in S2 : \A e \in S2 : n[b] >= n[e]
  <2>1. n \in [S2 -> Nat]
    BY <1>1
  <2>2. IsFiniteSet(S2) /\ S2 # {}
    BY FS_Subset
  <2> HIDE DEF n, S2
  <2> QED
    BY <2>1, <2>2, GreatestExists
<1> DEFINE S3 == {d \in S2 : d.segment.end = b.segment.end}
           i == [d \in S3 |-> d.replica_id]
<1>4. PICK c \in S3 : \A e \in S3 : i[c] >= i[e]
  <2>1. i \in [S3 -> Nat]
    BY <1>1
  <2>2. IsFiniteSet(S3) /\ S3 # {}
    BY FS_Subset
  <2> HIDE DEF i, S3
  <2> QED
    BY <2>1, <2>2, GreatestExists
<1> DEFINE Over(d, e) ==
             \/ d.last_normal_view > e.last_normal_view
             \/ /\ d.last_normal_view = e.last_normal_view
                /\ \/ d.segment.end > e.segment.end
                   \/ d.segment.end = e.segment.end /\ d.replica_id >= e.replica_id
<1>5. \A e \in S : Over(c, e)
  <2> SUFFICES ASSUME NEW e \in S PROVE Over(c, e)
    OBVIOUS
  <2>1. a.last_normal_view >= e.last_normal_view /\ c.last_normal_view = a.last_normal_view
    BY <1>2
  <2>2. e \in S2 => c.segment.end >= e.segment.end
    BY <1>3
  <2>3. e \in S3 => c.replica_id >= e.replica_id
    BY <1>4
  <2> QED
    BY <1>1, <2>1, <2>2, <2>3
<1>6. c \in S
  OBVIOUS
<1>7. Best(S) = CHOOSE d \in S : \A e \in S : Over(d, e)
  BY Zenon DEF Best
<1> HIDE DEF Over
<1>8. Best(S) \in S /\ \A e \in S : Over(Best(S), e)
  BY <1>5, <1>6, <1>7, Zenon
<1> QED
  BY <1>1, <1>8 DEF Over

\* The senders of a quorum's messages are a quorum.
LEMMA SendersMeet ==
  ASSUME NEW S, IsFiniteSet(S), Cardinality(S) >= Quorum, \A d \in S : d.replica_id \in ReplicaID,
         \A d, e \in S : d.replica_id = e.replica_id => d = e
  PROVE  {d.replica_id : d \in S} \in Quorums
<1> DEFINE D == {d.replica_id : d \in S}
           f == [d \in S |-> d.replica_id]
<1>1. f \in [S -> D] /\ DOMAIN f = S
  OBVIOUS
<1>2. \A a, b \in S : f[a] = f[b] => a = b
  OBVIOUS
<1>3. \A t \in D : \E x \in S : f[x] = t
  OBVIOUS
<1>4. D \in SUBSET ReplicaID
  OBVIOUS
<1> HIDE DEF f, D
<1>5. f \in Injection(S, D)
  <2>1. IsInjective(f)
    BY <1>1, <1>2, Zenon DEF IsInjective
  <2> QED
    BY <1>1, <2>1, Zenon DEF Injection
<1>6. f \in Surjection(S, D)
  BY <1>1, <1>3, Zenon DEF Surjection
<1>7. Cardinality(D) = Cardinality(S)
  BY <1>5, <1>6, FS_Surjection
<1> QED
  BY <1>4, <1>7 DEF Quorums, D

\* A vote that replaces another of its sender, or none, leaves no fewer.
LEMMA VotesGrow ==
  ASSUME NEW S, IsFiniteSet(S), \A d, e \in S : d.replica_id = e.replica_id => d = e, NEW x
  PROVE  LET T == {d \in S : d.replica_id # x.replica_id} \union {x}
         IN  /\ IsFiniteSet(T) /\ Cardinality(T) >= Cardinality(S)
             /\ \A d, e \in T : d.replica_id = e.replica_id => d = e
<1> DEFINE R == {d \in S : d.replica_id # x.replica_id}
           T == R \union {x}
<1>1. IsFiniteSet(R) /\ Cardinality(R) \in Nat /\ Cardinality(S) \in Nat
  <2>1. R \subseteq S
    OBVIOUS
  <2> HIDE DEF R
  <2> QED
    BY <2>1, FS_Subset, FS_CardinalityType
<1>2. x \notin R
  OBVIOUS
<1>3. \A d, e \in T : d.replica_id = e.replica_id => d = e
  OBVIOUS
<1>4. IsFiniteSet(T) /\ Cardinality(T) = Cardinality(R) + 1
  <2> HIDE DEF R
  <2> QED
    BY <1>1, <1>2, FS_AddElement
<1>5. Cardinality(R) >= Cardinality(S) - 1
  <2>1. CASE \E d \in S : d.replica_id = x.replica_id
    <3>1. PICK d \in S : d.replica_id = x.replica_id
      BY <2>1
    <3>2. R = S \ {d}
      BY <3>1
    <3>3. Cardinality(S \ {d}) = Cardinality(S) - 1
      BY FS_RemoveElement
    <3> HIDE DEF R
    <3> QED
      BY <1>1, <3>2, <3>3
  <2>2. CASE ~ \E d \in S : d.replica_id = x.replica_id
    <3>1. R = S
      BY <2>2
    <3> HIDE DEF R
    <3> QED
      BY <1>1, <3>1
  <2> QED
    BY <2>1, <2>2
<1> HIDE DEF R
<1>6. Cardinality(T) >= Cardinality(S)
  <2> HIDE DEF T
  <2> QED
    BY <1>1, <1>4, <1>5
<1> QED
  BY <1>3, <1>4, <1>6 DEF R

\* The best of a quorum's logs has all that the views before may choose.
LEMMA ViewStart ==
  ASSUME NEW w, HistoryInv(w), NEW v \in Nat, NEW S, IsFiniteSet(S), Cardinality(S) >= Quorum,
         \A d \in S : DvcOK(d) /\ DvcInv(w, v, d),
         \A d, e \in S : d.replica_id = e.replica_id => d = e
  PROVE  /\ Best(S) \in S
         /\ Safe(w, v, SegmentValue(w, Best(S).segment), Best(S).segment.end)
<1> DEFINE b == Best(S)
           l == b.last_normal_view
           n == b.segment.end
           g == SegmentValue(w, b.segment)
           D == {d.replica_id : d \in S}
<1>1. S # {}
  BY QuorumNotEmpty
<1>2. /\ b \in S /\ \A e \in S : \/ l > e.last_normal_view
                                 \/ l = e.last_normal_view /\ n >= e.segment.end
  BY <1>1, BestIsBest
<1>3. D \in Quorums
  <2>1. \A d \in S : d.replica_id \in ReplicaID
    BY DEF DvcOK
  <2> QED
    BY <2>1, SendersMeet
<1>4. \A u \in Nat : \A q \in ReplicaID : w.ack[u][q] \in Nat /\ w.view[q] \in Nat
  BY HistoryNumbers DEF HistoryInv
<1>5. \A d \in S : /\ d.replica_id \in ReplicaID /\ d.last_normal_view \in Nat
                   /\ d.segment.end \in Nat /\ d.replica_id \in D
  BY DEF DvcOK, StateOK, SegmentOK
<1>6. \A d \in S : /\ w.view[d.replica_id] >= v /\ d.last_normal_view < v
                   /\ Carried(w, d.replica_id, d.last_normal_view, SegmentValue(w, d.segment), d.segment.end)
                   /\ \A u \in 0 .. v - 1 : w.ack[u][d.replica_id] > 0 => u <= d.last_normal_view
  BY DEF DvcInv
<1>7. /\ Safe(w, l, g, n) /\ Own(w, b.replica_id, l, g, n) /\ l \in Nat /\ n \in Nat /\ l < v
  BY <1>2, <1>5, <1>6 DEF Carried
<1>8. ASSUME NEW u \in 0 .. v - 1, NEW i \in Nat \ {0},
             \A d \in S : w.ack[u][d.replica_id] < i
      PROVE  Blocked(w, u, i)
  <2>1. \A q \in D : w.view[q] > u /\ w.ack[u][q] < i
    BY <1>4, <1>5, <1>6, <1>8
  <2> QED
    BY <1>3, <2>1 DEF Blocked
<1> HIDE DEF b, l, n, g, D
<1>9. Safe(w, v, g, n)
  <2> SUFFICES ASSUME NEW u \in 0 .. v - 1, NEW i \in Nat \ {0}
               PROVE  Blocked(w, u, i) \/ Holds(w, u, i, g, n)
    BY DEF Safe
  <2>1. CASE u < l
    <3>1. u \in 0 .. l - 1
      BY <1>7, <2>1
    <3> QED
      BY <1>7, <3>1 DEF Safe
  <2>2. CASE u = l /\ i <= n
    BY <1>7, <2>2 DEF Own
  <2>3. CASE u = l /\ ~(i <= n)
    <3> SUFFICES ASSUME ~Blocked(w, u, i) PROVE Blocked(w, u, i)
      OBVIOUS
    <3>1. ASSUME NEW d \in S PROVE w.ack[u][d.replica_id] < i
      <4>1. w.ack[u][d.replica_id] \in Nat
        BY <1>4, <1>5
      <4>2. CASE d.last_normal_view = l
        <5>1. Own(w, d.replica_id, l, SegmentValue(w, d.segment), d.segment.end)
          BY <1>6, <4>2 DEF Carried
        <5>2. i <= w.ack[l][d.replica_id] => i <= d.segment.end
          BY <2>3, <5>1 DEF Own
        <5>3. n >= d.segment.end
          BY <1>2, <1>5, <1>7, <4>2
        <5> QED
          BY <1>5, <1>7, <2>3, <4>1, <5>2, <5>3
      <4>3. CASE d.last_normal_view # l
        <5>1. ~(u <= d.last_normal_view)
          BY <1>2, <1>5, <1>7, <2>3, <4>3
        <5> QED
          BY <1>6, <4>1, <5>1
      <4> QED
        BY <4>2, <4>3
    <3> QED
      BY <1>8, <3>1
  <2>4. CASE u > l
    <3>1. ASSUME NEW d \in S PROVE w.ack[u][d.replica_id] < i
      <4>1. w.ack[u][d.replica_id] \in Nat
        BY <1>4, <1>5
      <4>2. ~(u <= d.last_normal_view)
        BY <1>2, <1>5, <1>7, <2>4
      <4> QED
        BY <1>6, <4>1, <4>2
    <3> QED
      BY <1>8, <3>1
  <2> QED
    BY <1>7, <2>1, <2>2, <2>3, <2>4
<1> QED
  BY <1>2, <1>9 DEF b, g, n

-----------------------------------------------------------------------------
(* What a replica of the history holds *)

\* A log copied from that of a view is in order.
LEMMA CopiedOrdered ==
  ASSUME NEW w, HistoryInv(w), NEW g, NEW n \in Nat, Copied(w, g, n), DOMAIN g = 1 .. n,
         g = [i \in 1 .. n |-> g[i]]
  PROVE  OrderedLog(g, n)
<1>1. PICK v \in w.started : n <= w.len[v] /\ \A i \in 1 .. n : g[i] = w.log[v][i]
  BY DEF Copied
<1>2. OrderedLog(w.log[v], w.len[v]) /\ w.len[v] \in Nat
  BY DEF HistoryInv, HistoryTyped
<1>3. n \in 0 .. w.len[v] /\ g = [i \in 1 .. n |-> w.log[v][i]]
  BY <1>1, <1>2
<1> QED
  BY <1>2, <1>3, LogPrefix

\* So is the log of any replica.
LEMMA StandsOrdered ==
  ASSUME NEW w, HistoryInv(w), NEW q, NEW s, Ready(s), Stands(w, q, s)
  PROVE  OrderedLog(Value(s), s.op_number)
<1>1. /\ s.op_number \in Nat /\ s.last_normal_view \in Nat /\ s.view_number \in Nat
      /\ s.last_normal_view <= s.view_number
  BY DEF Ready, ReplicaOK, NumbersOK
<1>2. DOMAIN Value(s) = 1 .. s.op_number /\ Value(s) = [i \in 1 .. s.op_number |-> Value(s)[i]]
  BY DEF Value
<1>3. CASE s.status = "Recovering"
  <2>1. s.op_number = 0
    BY <1>3 DEF Stands
  <2>2. 0 \in w.started /\ w.len[0] \in Nat
    BY DEF HistoryInv, HistoryTyped
  <2>3. Copied(w, Value(s), s.op_number)
    BY <2>1, <2>2 DEF Copied
  <2> QED
    BY <1>1, <1>2, <2>3, CopiedOrdered
<1>4. CASE s.status # "Recovering" /\ s.last_normal_view = s.view_number /\ IsPrimary(s)
  BY <1>4 DEF Stands, InView, Leads
<1>5. CASE s.status # "Recovering" /\ s.last_normal_view = s.view_number /\ ~IsPrimary(s)
  <2>1. Copied(w, Value(s), s.op_number)
    BY <1>5 DEF Stands, InView, Member, Copied
  <2> QED
    BY <1>1, <1>2, <2>1, CopiedOrdered
<1>6. CASE s.status # "Recovering" /\ s.last_normal_view < s.view_number
  <2>1. Copied(w, Value(s), s.op_number)
    BY <1>6 DEF Stands, Left, Carried
  <2> QED
    BY <1>1, <1>2, <2>1, CopiedOrdered
<1> QED
  BY <1>1, <1>3, <1>4, <1>5, <1>6

\* What a replica of the history holds, in one place.
LEMMA KnownIs ==
  ASSUME NEW w, HistoryInv(w), CommittedInv(w), NEW x, NEW r, Known(w, x, r)
  PROVE  /\ Whole(r) /\ OrderedLog(Value(r), r.op_number) /\ Stands(w, x, r)
         /\ \A i \in 1 .. r.commit_number : EntryAt(r, i) = w.committed[i]
         /\ CommitOK(w, r.view_number, r.commit_number)
         /\ \A i \in r.log_start + 1 .. r.op_number : r.log[i] = EntryAt(r, i)
<1>1. /\ Ready(r) /\ NumbersOK(r) /\ r.ok /\ Sound(r) /\ Stands(w, x, r) /\ r.commit_number <= r.op_number
      /\ r.commit_number <= w.known
  BY DEF Known, Rests, Stands, Ready, ReplicaOK
<1>2. Whole(r)
  BY <1>1 DEF Whole, Ready, ReplicaOK
<1>3. OrderedLog(Value(r), r.op_number)
  BY <1>1, StandsOrdered
<1>4. ASSUME NEW i \in 1 .. r.commit_number
      PROVE  EntryAt(r, i) = w.committed[i] /\ Decided(w, r.view_number, i, w.committed[i])
  <2>1. Decided(w, r.view_number, i, EntryAt(r, i))
    BY <1>1 DEF Stands
  <2>2. i \in 1 .. w.known /\ r.view_number \in Nat
    <3>1. w.known \in Nat /\ r.commit_number \in Nat /\ r.view_number \in Nat
      BY <1>1 DEF HistoryInv, HistoryTyped, NumbersOK
    <3> QED
      BY <1>1, <3>1
  <2>3. PICK v \in Nat : Decided(w, v, i, w.committed[i])
    BY <2>2 DEF CommittedInv
  <2>4. EntryAt(r, i) = w.committed[i]
    BY <2>1, <2>2, <2>3, DecidedOnce
  <2> QED
    BY <2>1, <2>4
<1>5. CommitOK(w, r.view_number, r.commit_number)
  BY <1>1, <1>4 DEF CommitOK
<1>6. \A i \in r.log_start + 1 .. r.op_number : r.log[i] = EntryAt(r, i)
  BY <1>1 DEF EntryAt, Sound, NumbersOK
<1> QED
  BY <1>1, <1>2, <1>3, <1>4, <1>5, <1>6

-----------------------------------------------------------------------------
(* Steps of a replica in a history *)

\* w is a history of the cluster with replica q as r and d on its disk.
At(w, q, r, d) == World(w, [rep EXCEPT ![q] = r], msgs, committed) /\ Marked(r, d)

\* It goes on with replica q as s.
GoesOn(w, q, s, d) == \E z : At(z, q, s, d) /\ Later(w, z)

\* What holds of the replica that steps.
LEMMA AtIs ==
  ASSUME NEW w, NEW q \in ReplicaID, NEW r, NEW d, At(w, q, r, d)
  PROVE  /\ HistoryInv(w) /\ CommittedInv(w) /\ HistoryTyped(w)
         /\ Known(w, q, r) /\ w.rep[q] = r /\ w.view[q] = r.view_number /\ Marked(r, d)
         /\ Ready(r) /\ NumbersOK(r) /\ DOMAIN r = Fields /\ r.ok /\ Sound(r)
         /\ Rests(w, q, r) /\ ReceivedInv(w, q, r)
         /\ \A e \in msgs : Addressed(e) /\ MessageInv(w, e[1], e[2])
<1> DEFINE rp == [rep EXCEPT ![q] = r]
<1>1. /\ HistoryInv(w) /\ CommittedInv(w) /\ DOMAIN rp = ReplicaID /\ w.rep = rp
      /\ Known(w, q, rp[q]) /\ Marked(r, d)
      /\ \A e \in msgs : Addressed(e) /\ MessageInv(w, e[1], e[2])
  BY DEF At, World
<1>2. rp[q] = r
  BY <1>1
<1>3. Known(w, q, r) /\ w.rep[q] = r
  BY <1>1, <1>2
<1> QED
  BY <1>1, <1>3 DEF Known, Ready, ReplicaOK, HistoryInv

\* A replica that stands in the history moves it on.
LEMMA Moves ==
  ASSUME NEW w, NEW q \in ReplicaID, NEW r, NEW d, At(w, q, r, d), NEW s, Ready(s), s.id = q, s.ok,
         Sound(s), Succeeds(r, s), Stands(w, q, s), ReceivedInv(w, q, s), Marked(s, d),
         \A e \in Out(s) : e \in Out(r) \/ MessageInv(w, e[1], e[2])
  PROVE  GoesOn(w, q, s, d)
<1> DEFINE rp == [rep EXCEPT ![q] = r]
<1>1. World(w, rp, msgs, committed)
  BY DEF At
<1>2. rp[q] = r /\ [rp EXCEPT ![q] = s] = [rep EXCEPT ![q] = s]
  <2>1. DOMAIN rp = ReplicaID
    BY <1>1 DEF World
  <2> QED
    BY <2>1
<1> HIDE DEF rp
<1>3. \E z : World(z, [rp EXCEPT ![q] = s], msgs, committed) /\ Later(w, z)
  BY <1>1, <1>2, WorldGoesOn
<1> QED
  BY <1>2, <1>3 DEF GoesOn, At

\* Later histories follow one another.
LEMMA LaterThrough ==
  ASSUME NEW w, NEW y, NEW z, Later(w, y), Later(y, z)
  PROVE  Later(w, z)
<1>1. HistoryTyped(w) /\ HistoryTyped(y) /\ HistoryTyped(z) /\ w.started \subseteq z.started
  BY DEF Later
<1>2. /\ \A v \in Nat : w.len[v] \in Nat /\ y.len[v] \in Nat /\ z.len[v] \in Nat
      /\ \A x \in ReplicaID : w.view[x] \in Nat /\ y.view[x] \in Nat /\ z.view[x] \in Nat
      /\ \A v \in Nat : \A x \in ReplicaID :
           w.ack[v][x] \in Nat /\ y.ack[v][x] \in Nat /\ z.ack[v][x] \in Nat
      /\ w.known \in Nat /\ y.known \in Nat /\ z.known \in Nat
  BY <1>1, HistoryNumbers
<1>3. ASSUME NEW v \in Nat
      PROVE  w.len[v] <= z.len[v] /\ \A i \in 1 .. w.len[v] : z.log[v][i] = w.log[v][i]
  <2>1. /\ w.len[v] <= y.len[v] /\ y.len[v] <= z.len[v]
        /\ \A i \in 1 .. w.len[v] : y.log[v][i] = w.log[v][i]
        /\ \A i \in 1 .. y.len[v] : z.log[v][i] = y.log[v][i]
    BY DEF Later
  <2> QED
    BY <1>2, <2>1
<1>4. \A v \in w.started : z.base[v] = w.base[v]
  BY DEF Later
<1>5. \A x \in ReplicaID : w.view[x] <= y.view[x] /\ y.view[x] <= z.view[x]
  BY DEF Later
<1>6. \A x \in ReplicaID : w.view[x] <= z.view[x]
  BY <1>2, <1>5
<1>7. ASSUME NEW v \in Nat, NEW x \in ReplicaID
      PROVE  w.ack[v][x] <= z.ack[v][x] /\ (w.view[x] > v => z.ack[v][x] = w.ack[v][x])
  <2>1. /\ w.ack[v][x] <= y.ack[v][x] /\ (w.view[x] > v => y.ack[v][x] = w.ack[v][x])
        /\ y.ack[v][x] <= z.ack[v][x] /\ (y.view[x] > v => z.ack[v][x] = y.ack[v][x])
    BY DEF Later
  <2> QED
    BY <1>2, <1>5, <2>1
<1>8. w.known <= z.known /\ \A i \in 1 .. w.known : z.committed[i] = w.committed[i]
  <2>1. /\ w.known <= y.known /\ \A i \in 1 .. w.known : y.committed[i] = w.committed[i]
        /\ y.known <= z.known /\ \A i \in 1 .. y.known : z.committed[i] = y.committed[i]
    BY DEF Later
  <2> QED
    BY <1>2, <2>1
<1>9. RepsGoOn(w, z)
  <2>0. RepsGoOn(w, y) /\ RepsGoOn(y, z)
    BY DEF Later
  <2> SUFFICES ASSUME NEW x \in ReplicaID
               PROVE  /\ w.rep[x].recovery_nonce \in Nat /\ z.rep[x].recovery_nonce \in Nat
                      /\ w.rep[x].recovery_nonce <= z.rep[x].recovery_nonce
                      /\ z.rep[x].status = "Recovering" /\ z.rep[x].recovery_nonce = w.rep[x].recovery_nonce =>
                           w.rep[x].status = "Recovering" /\ \A u \in Nat : z.ack[u][x] = w.ack[u][x]
                      /\ \A u \in Nat : u <= w.view[x] /\ Waits(z, u, x) =>
                           /\ Waits(w, u, x) /\ z.rep[x].op_number = w.rep[x].op_number
                           /\ Value(z.rep[x]) = Value(w.rep[x])
    BY DEF RepsGoOn
  <2>1. /\ w.rep[x].recovery_nonce \in Nat /\ y.rep[x].recovery_nonce \in Nat
        /\ z.rep[x].recovery_nonce \in Nat
        /\ w.rep[x].recovery_nonce <= y.rep[x].recovery_nonce
        /\ y.rep[x].recovery_nonce <= z.rep[x].recovery_nonce
    BY <2>0 DEF RepsGoOn
  <2>2. ASSUME z.rep[x].status = "Recovering", z.rep[x].recovery_nonce = w.rep[x].recovery_nonce
        PROVE  w.rep[x].status = "Recovering" /\ \A u \in Nat : z.ack[u][x] = w.ack[u][x]
    <3>1. y.rep[x].recovery_nonce = z.rep[x].recovery_nonce
      BY <2>1, <2>2
    <3>2. y.rep[x].status = "Recovering" /\ \A u \in Nat : z.ack[u][x] = y.ack[u][x]
      BY <2>0, <2>2, <3>1 DEF RepsGoOn
    <3>3. w.rep[x].status = "Recovering" /\ \A u \in Nat : y.ack[u][x] = w.ack[u][x]
      BY <2>0, <2>2, <3>1, <3>2 DEF RepsGoOn
    <3> QED
      BY <3>2, <3>3
  <2>3. ASSUME NEW u \in Nat, u <= w.view[x], Waits(z, u, x)
        PROVE  /\ Waits(w, u, x) /\ z.rep[x].op_number = w.rep[x].op_number
               /\ Value(z.rep[x]) = Value(w.rep[x])
    <3>1. u <= y.view[x]
      BY <1>2, <1>5, <2>3
    <3>2. /\ Waits(y, u, x) /\ z.rep[x].op_number = y.rep[x].op_number
          /\ Value(z.rep[x]) = Value(y.rep[x])
      BY <2>0, <2>3, <3>1 DEF RepsGoOn
    <3>3. /\ Waits(w, u, x) /\ y.rep[x].op_number = w.rep[x].op_number
          /\ Value(y.rep[x]) = Value(w.rep[x])
      BY <2>0, <2>3, <3>2 DEF RepsGoOn
    <3> QED
      BY <3>2, <3>3
  <2> QED
    BY <2>1, <2>2, <2>3
<1> QED
  BY <1>1, <1>3, <1>4, <1>6, <1>7, <1>8, <1>9 DEF Later

\* So do the steps of a replica.
LEMMA GoesThrough ==
  ASSUME NEW w, NEW z, Later(w, z), NEW q, NEW s, NEW d, GoesOn(z, q, s, d)
  PROVE  GoesOn(w, q, s, d)
  BY LaterThrough DEF GoesOn

\* A replica may do nothing.
LEMMA StaysAt ==
  ASSUME NEW w, NEW q \in ReplicaID, NEW r, NEW d, At(w, q, r, d)
  PROVE  GoesOn(w, q, r, d)
<1>1. World(w, [rep EXCEPT ![q] = r], msgs, committed)
  BY DEF At
<1>2. Later(w, w)
  <2>1. HistoryTyped(w) /\ \A x \in ReplicaID : w.rep[x].recovery_nonce \in Nat
    BY <1>1 DEF World, HistoryInv, Known, Ready, ReplicaOK, NumbersOK
  <2>2. /\ \A x \in ReplicaID : w.view[x] \in Nat
        /\ \A v \in Nat : w.len[v] \in Nat /\ w.base[v] \in Nat
        /\ \A v \in Nat : \A x \in ReplicaID : w.ack[v][x] \in Nat
        /\ w.known \in Nat
    BY <2>1, HistoryNumbers
  <2>3. RepsGoOn(w, w)
    BY <2>1 DEF RepsGoOn
  <2> QED
    BY <2>1, <2>2, <2>3 DEF Later
<1> QED
  BY <1>2 DEF GoesOn

\* A replica with the same log in the same view stands as before.
LEMMA StandsSame ==
  ASSUME NEW w, HistoryTyped(w), NEW q, NEW r, NEW s, Ready(r), Ready(s), Stands(w, q, r),
         SameLog(r, s), s.id = r.id,
         s.view_number = r.view_number, s.last_normal_view = r.last_normal_view,
         s.status = "Recovering" <=> r.status = "Recovering",
         \A x \in ReplicaID : s.acked[x] = r.acked[x] \/ s.acked[x] <= w.ack[r.view_number][x],
         \A i \in 1 .. s.commit_number : Decided(w, r.view_number, i, EntryAt(r, i))
  PROVE  Stands(w, q, s)
<1>1. Value(s) = Value(r) /\ s.op_number = r.op_number /\ Whole(s)
  BY SameValue DEF SameLog
<1>2. /\ s.commit_number <= s.op_number /\ s.commit_number \in Nat /\ s.op_number \in Nat
  BY <1>1 DEF Whole, NumbersOK
<1>3. \A i \in 1 .. s.op_number : EntryAt(s, i) = EntryAt(r, i)
  BY DEF SameLog
<1>4. \A i \in 1 .. s.commit_number : Decided(w, s.view_number, i, EntryAt(s, i))
  BY <1>2, <1>3
<1>5. IsPrimary(s) <=> IsPrimary(r)
  BY DEF IsPrimary
<1>6. ASSUME Leads(w, r) PROVE Leads(w, s)
  <2>1. \A x \in ReplicaID : s.acked[x] <= w.ack[s.view_number][x]
    BY <1>6 DEF Leads
  <2>2. ASSUME s.view_number \in w.started
        PROVE  /\ w.len[s.view_number] <= s.op_number
               /\ \A i \in 1 .. w.len[s.view_number] : EntryAt(s, i) = w.log[s.view_number][i]
    <3>1. \A i \in 1 .. r.op_number : EntryAt(s, i) = Value(s)[i] /\ EntryAt(r, i) = Value(r)[i]
      BY <1>1 DEF Value
    <3>2. /\ w.len[r.view_number] <= r.op_number
          /\ \A i \in 1 .. w.len[r.view_number] : EntryAt(r, i) = w.log[r.view_number][i]
      BY <1>6, <2>2 DEF Leads
    <3>3. w.len[r.view_number] \in Nat
      BY HistoryNumbers DEF Ready, ReplicaOK, NumbersOK
    <3>4. \A i \in 1 .. w.len[r.view_number] : i \in 1 .. s.op_number
      BY <1>1, <1>2, <3>2, <3>3
    <3> QED
      BY <1>1, <1>3, <3>2, <3>4
  <2>3. s.view_number \notin w.started => Safe(w, s.view_number, Value(s), s.op_number)
    BY <1>1, <1>6 DEF Leads
  <2>4. OrderedLog(Value(s), s.op_number)
    BY <1>1, <1>6 DEF Leads
  <2> QED
    BY <2>1, <2>2, <2>3, <2>4 DEF Leads
<1>7. InView(w, q, r) => InView(w, q, s)
  BY <1>1, <1>5, <1>6 DEF InView
<1>8. Left(w, q, r) => Left(w, q, s)
  BY <1>1, <1>5 DEF Left
<1>9. s.status = "Recovering" => s.op_number = 0
  BY <1>1 DEF Stands
<1>10. s.status # "Recovering" =>
         /\ \A v \in Nat : w.ack[v][q] > 0 => v <= s.last_normal_view
         /\ s.last_normal_view = s.view_number => InView(w, q, s)
         /\ s.last_normal_view < s.view_number => Left(w, q, s)
  BY <1>7, <1>8 DEF Stands
<1> QED
  BY <1>2, <1>4, <1>9, <1>10 DEF Stands

\* What was received does not depend on the rest.
LEMMA ReceivedSame ==
  ASSUME NEW w, NEW q, NEW r, NEW s, ReceivedInv(w, q, r), s.id = r.id,
         s.view_number = r.view_number, s.status = r.status,
         s.do_view_change_from = r.do_view_change_from, s.catching_up = r.catching_up,
         s.fetch = r.fetch, s.recovery_responses = r.recovery_responses,
         r.commit_number \in Nat, s.commit_number \in Nat, r.commit_number <= s.commit_number,
         ReceivedOK(r)
  PROVE  ReceivedInv(w, q, s)
<1>1. IsPrimary(s) <=> IsPrimary(r)
  BY DEF IsPrimary
<1>2. VotesInv(w, q, s)
  <2>1. \A d \in r.do_view_change_from : d.segment.start \in Nat
    BY DEF ReceivedOK, DvcOK, StateOK, SegmentOK
  <2> QED
    BY <1>1, <2>1 DEF ReceivedInv, VotesInv
<1>3. CatchingInv(w, s) /\ FetchInv(w, q, s) /\ ResponsesInv(w, q, s)
  BY <1>1 DEF ReceivedInv, CatchingInv, FetchInv, ResponsesInv
<1> QED
  BY <1>2, <1>3 DEF ReceivedInv

\* The fields of queries, replies and outboxes.
SendingFields ==
  {"queries", "round", "round_confirmed", "confirmed", "round_unsent", "start_view_change_from",
   "do_view_change_sent", "view_start_op", "reply_ops", "early", "outbox"}

\* The fields the history says nothing of.
StillFields == SendingFields \union {"replies", "serving", "fetch", "catching_up",
                                     "do_view_change_from", "recovery_responses"}

\* A step that leaves the log, the commit number and the view alone.
LEMMA StillMoves ==
  ASSUME NEW w, NEW q \in ReplicaID, NEW r, NEW d, At(w, q, r, d), DiskOK(d),
         NEW s, Ready(s), SameBut(r, s, StillFields), Sound(s), ReceivedInv(w, q, s),
         \A e \in Out(s) : e \in Out(r) \/ MessageInv(w, e[1], e[2])
  PROVE  GoesOn(w, q, s, d)
<1>1. /\ HistoryInv(w) /\ CommittedInv(w) /\ Known(w, q, r) /\ Marked(r, d)
      /\ HistoryTyped(w) /\ Ready(r) /\ NumbersOK(r) /\ r.id = q /\ r.ok
  <2>1. /\ HistoryInv(w) /\ CommittedInv(w) /\ Known(w, q, r) /\ Marked(r, d)
        /\ HistoryTyped(w) /\ Ready(r) /\ NumbersOK(r)
    BY AtIs
  <2> QED
    BY <2>1 DEF Known
<1>2. Whole(r) /\ Stands(w, q, r)
  BY <1>1, KnownIs
<1>3. /\ s.id = q /\ s.ok /\ s.status = r.status /\ s.view_number = r.view_number
      /\ s.last_normal_view = r.last_normal_view /\ s.acked = r.acked
      /\ s.commit_number = r.commit_number /\ s.op_number = r.op_number /\ s.applied = r.applied
      /\ s.sm = r.sm /\ s.log = r.log /\ s.log_start = r.log_start
      /\ s.log_changed_from = r.log_changed_from /\ s.written = r.written
      /\ s.recovery_nonce = r.recovery_nonce /\ DOMAIN s = Fields /\ NumbersOK(s)
  BY <1>1 DEF SameBut, Fields, StillFields, SendingFields, Ready, ReplicaOK
<1>4. \A i : EntryAt(s, i) = EntryAt(r, i)
  BY <1>3 DEF EntryAt
<1>5. SameLog(r, s)
  BY <1>2, <1>3, <1>4 DEF SameLog, Whole
<1>6. Stands(w, q, s)
  <2>1. \A i \in 1 .. s.commit_number : Decided(w, r.view_number, i, EntryAt(r, i))
    BY <1>2, <1>3 DEF Stands
  <2> QED
    BY <1>1, <1>2, <1>3, <1>5, <2>1, StandsSame
<1>7. Succeeds(r, s)
  <2>1. Value(s) = Value(r)
    BY <1>5, SameValue
  <2> QED
    BY <1>3, <2>1 DEF Succeeds, NumbersOK
<1>8. Marked(s, d)
  BY <1>1, <1>3, MarkedStays DEF NumbersOK
<1> QED
  BY <1>3, <1>6, <1>7, <1>8, Moves

\* A replica sends what the history bears out.
LEMMA SendingMoves ==
  ASSUME NEW w, NEW q \in ReplicaID, NEW r, NEW d, At(w, q, r, d), DiskOK(d),
         NEW s, Ready(s), SameBut(r, s, SendingFields),
         \A e \in Out(s) : e \in Out(r) \/ MessageInv(w, e[1], e[2])
  PROVE  GoesOn(w, q, s, d)
<1>1. /\ Ready(r) /\ NumbersOK(r) /\ Sound(r) /\ ReceivedInv(w, q, r)
  BY AtIs
<1>2. SameBut(r, s, StillFields)
  BY DEF SameBut, StillFields
<1>3. /\ s.id = r.id /\ s.status = r.status /\ s.view_number = r.view_number
      /\ s.commit_number = r.commit_number /\ s.applied = r.applied /\ s.serving = r.serving
      /\ s.sm = r.sm /\ s.log = r.log /\ s.log_start = r.log_start /\ s.replies = r.replies
      /\ s.do_view_change_from = r.do_view_change_from /\ s.catching_up = r.catching_up
      /\ s.fetch = r.fetch /\ s.recovery_responses = r.recovery_responses
  BY DEF SameBut, Fields, SendingFields
<1>4. Sound(s)
  BY <1>1, <1>3 DEF Sound
<1>5. ReceivedInv(w, q, s)
  <2>1. r.commit_number \in Nat /\ ReceivedOK(r)
    BY <1>1 DEF NumbersOK, Ready, ReplicaOK
  <2> QED
    BY <1>1, <1>3, <2>1, ReceivedSame
<1> QED
  BY <1>2, <1>4, <1>5, StillMoves

\* A message that says what is so leaves.
LEMMA SendMoves ==
  ASSUME NEW w, NEW q \in ReplicaID, NEW r, NEW d, At(w, q, r, d), DiskOK(d),
         NEW S, \A x \in S : x \in ReplicaID, NEW m, MessageOK(m),
         m.type \in EarlyTypes \/ Signed(r, m),
         \A x \in S : MessageInv(w, x, m)
  PROVE  GoesOn(w, q, SendTo(r, S, m), d)
<1> DEFINE s == SendTo(r, S, m)
<1>1. Ready(r) /\ DOMAIN r = Fields
  BY AtIs
<1>2. Ready(s)
  BY <1>1, SendToFollows DEF Follows
<1>3. SameBut(r, s, SendingFields)
  BY <1>1 DEF SendTo, SameBut, Fields, SendingFields
<1>4. /\ s.early \subseteq r.early \union (S \X {m}) /\ s.outbox \subseteq r.outbox \union (S \X {m})
      /\ s.outbox_waiting = r.outbox_waiting /\ s.outbox_ready = r.outbox_ready
  BY <1>1 DEF SendTo, Fields
<1>5. ASSUME NEW e \in Out(s), e \notin Out(r) PROVE MessageInv(w, e[1], e[2])
  <2>1. e \in S \X {m}
    BY <1>4, <1>5 DEF Out
  <2> QED
    BY <2>1
<1> HIDE DEF s
<1> QED
  BY <1>2, <1>3, <1>5, SendingMoves DEF s

\* It sends one such message.
LEMMA SendOneMoves ==
  ASSUME NEW w, NEW q \in ReplicaID, NEW r, NEW d, At(w, q, r, d), DiskOK(d),
         NEW to \in ReplicaID, NEW m, MessageOK(m), m.type \in EarlyTypes \/ Signed(r, m),
         MessageInv(w, to, m)
  PROVE  GoesOn(w, q, Send(r, to, m), d)
<1>1. Send(r, to, m) = SendTo(r, {to}, m)
  <2>1. {<<to, m>>} = {to} \X {m}
    OBVIOUS
  <2> QED
    BY <2>1 DEF Send, SendTo
<1> QED
  BY <1>1, SendMoves

\* What there is to know of a replica of a history.
LEMMA AtHolds ==
  ASSUME NEW w, NEW q \in ReplicaID, NEW r, NEW d, At(w, q, r, d)
  PROVE  /\ HistoryInv(w) /\ CommittedInv(w) /\ HistoryTyped(w)
         /\ Ready(r) /\ NumbersOK(r) /\ ReceivedOK(r) /\ DOMAIN r = Fields /\ r.ok
         /\ Sound(r) /\ Whole(r) /\ OrderedLog(Value(r), r.op_number)
         /\ Stands(w, q, r) /\ Rests(w, q, r) /\ ReceivedInv(w, q, r) /\ Marked(r, d)
         /\ \A i \in 1 .. r.commit_number : EntryAt(r, i) = w.committed[i]
         /\ CommitOK(w, r.view_number, r.commit_number)
         /\ \A i \in r.log_start + 1 .. r.op_number : r.log[i] = EntryAt(r, i)
<1>1. /\ HistoryInv(w) /\ CommittedInv(w) /\ HistoryTyped(w) /\ Known(w, q, r) /\ Marked(r, d)
      /\ Ready(r)
  BY AtIs
<1>2. /\ Whole(r) /\ OrderedLog(Value(r), r.op_number) /\ Stands(w, q, r)
      /\ \A i \in 1 .. r.commit_number : EntryAt(r, i) = w.committed[i]
      /\ CommitOK(w, r.view_number, r.commit_number)
      /\ \A i \in r.log_start + 1 .. r.op_number : r.log[i] = EntryAt(r, i)
  BY <1>1, KnownIs
<1>3. /\ r.ok /\ Sound(r) /\ Rests(w, q, r) /\ ReceivedInv(w, q, r)
  BY <1>1 DEF Known
<1>4. NumbersOK(r) /\ ReceivedOK(r) /\ DOMAIN r = Fields
  BY <1>1 DEF Ready, ReplicaOK
<1> QED
  BY <1>1, <1>2, <1>3, <1>4

\* The replica that steps is the one of its place.
LEMMA AtId ==
  ASSUME NEW w, NEW q \in ReplicaID, NEW r, NEW d, At(w, q, r, d)
  PROVE  r.id = q
<1>1. Known(w, q, r)
  BY AtIs
<1> QED
  BY <1>1 DEF Known

\* A step that commits, or counts acknowledgements.
LEMMA QuietMoves ==
  ASSUME NEW w, NEW q \in ReplicaID, NEW r, NEW d, At(w, q, r, d), DiskOK(d),
         NEW s, Ready(s), SameBut(r, s, CommitFields \union {"acked"}), SameLog(r, s),
         r.commit_number <= s.commit_number, r.applied <= s.applied,
         \A x \in ReplicaID : s.acked[x] = r.acked[x] \/ s.acked[x] <= w.ack[r.view_number][x],
         \A i \in 1 .. s.commit_number : Decided(w, r.view_number, i, EntryAt(r, i))
  PROVE  GoesOn(w, q, s, d)
<1>0. r.id = q
  BY AtId
<1>1. /\ HistoryTyped(w) /\ Ready(r) /\ NumbersOK(r) /\ ReceivedOK(r) /\ r.id = q
      /\ Stands(w, q, r) /\ ReceivedInv(w, q, r) /\ Marked(r, d)
  BY <1>0, AtHolds
<1>2. /\ s.id = q /\ s.status = r.status /\ s.view_number = r.view_number
      /\ s.last_normal_view = r.last_normal_view
      /\ s.op_number = r.op_number
      /\ s.log = r.log /\ s.log_start = r.log_start
      /\ s.log_changed_from = r.log_changed_from /\ s.written = r.written
      /\ s.recovery_nonce = r.recovery_nonce /\ NumbersOK(s)
      /\ s.do_view_change_from = r.do_view_change_from /\ s.catching_up = r.catching_up
      /\ s.fetch = r.fetch /\ s.recovery_responses = r.recovery_responses
      /\ s.early = r.early /\ s.outbox = r.outbox /\ s.outbox_waiting = r.outbox_waiting
      /\ s.outbox_ready = r.outbox_ready
  BY <1>1 DEF SameBut, Fields, CommitFields, ApplyFields, Ready, ReplicaOK
<1>3. s.ok /\ Sound(s)
  BY DEF SameLog, Whole
<1>4. Stands(w, q, s)
  BY <1>1, <1>2, StandsSame
<1>5. Succeeds(r, s)
  <2>1. Value(s) = Value(r)
    BY SameValue
  <2> QED
    BY <1>2, <2>1 DEF Succeeds, NumbersOK
<1>6. Marked(s, d)
  BY <1>1, <1>2, MarkedStays
<1>7. ReceivedInv(w, q, s)
  <2>1. r.commit_number \in Nat /\ s.commit_number \in Nat
    BY <1>1, <1>2 DEF NumbersOK
  <2> QED
    BY <1>1, <1>2, <2>1, ReceivedSame
<1>8. Out(s) = Out(r)
  BY <1>2 DEF Out
<1> QED
  BY <1>2, <1>3, <1>4, <1>5, <1>6, <1>7, <1>8, Moves

\* A replica commits what is decided.
LEMMA CommitMoves ==
  ASSUME NEW w, NEW q \in ReplicaID, NEW r, NEW d, At(w, q, r, d), DiskOK(d),
         NEW k \in Nat, k <= r.op_number, NEW reply,
         \A i \in 1 .. k : Decided(w, r.view_number, i, EntryAt(r, i))
  PROVE  GoesOn(w, q, CommitUpTo(r, k, reply), d)
<1> DEFINE s == CommitUpTo(r, k, reply)
<1>1. /\ Ready(r) /\ NumbersOK(r) /\ Whole(r) /\ OrderedLog(Value(r), r.op_number) /\ Stands(w, q, r)
  BY AtHolds
<1>2. /\ SameLog(r, s) /\ SameBut(r, s, CommitFields) /\ s.commit_number = Higher(r.commit_number, k)
  BY <1>1, CommitKeeps
<1>3. Ready(s) /\ r.applied <= s.applied
  BY <1>1, CommitUpToFollows, CommitUpToFrame DEF Follows, Whole
<1> HIDE DEF s
<1>4. SameBut(r, s, CommitFields \union {"acked"}) /\ s.acked = r.acked
  BY <1>2 DEF SameBut, Fields, CommitFields, ApplyFields
<1>5. r.commit_number <= s.commit_number
  BY <1>1, <1>2 DEF Higher, NumbersOK
<1>6. \A i \in 1 .. s.commit_number : Decided(w, r.view_number, i, EntryAt(r, i))
  BY <1>1, <1>2 DEF Higher, NumbersOK, Stands
<1>7. GoesOn(w, q, s, d)
  BY <1>2, <1>3, <1>4, <1>5, <1>6, QuietMoves
<1> QED
  BY <1>7 DEF s

\* In its view, a replica may commit what the view says is committed.
LEMMA ViewDecides ==
  ASSUME NEW w, NEW q \in ReplicaID, NEW r, NEW d, At(w, q, r, d), InItsView(r),
         NEW k \in Nat, CommitOK(w, r.view_number, k), k <= r.op_number
  PROVE  \A i \in 1 .. k : Decided(w, r.view_number, i, EntryAt(r, i))
<1> SUFFICES ASSUME NEW i \in 1 .. k PROVE Decided(w, r.view_number, i, EntryAt(r, i))
  OBVIOUS
<1> DEFINE v == r.view_number
<1>1. HistoryInv(w) /\ NumbersOK(r) /\ Rests(w, q, r) /\ Stands(w, q, r) /\ HistoryTyped(w)
  BY AtHolds
<1>2. v \in Nat /\ r.op_number \in Nat /\ i \in 1 .. r.op_number
  BY <1>1 DEF NumbersOK
<1>3. Decided(w, v, i, w.committed[i])
  BY DEF CommitOK
<1>4. InView(w, q, r)
  BY <1>1 DEF Stands, InItsView
<1>5. v \in w.started
  BY <1>1, <1>4 DEF Rests, InItsView, InView, Member
<1>6. i \in 1 .. w.len[v] /\ w.log[v][i] = w.committed[i]
  BY <1>1, <1>3, <1>5, DecidedInView
<1>7. CASE IsPrimary(r)
  BY <1>3, <1>4, <1>5, <1>6, <1>7 DEF InView, Leads
<1>8. CASE ~IsPrimary(r)
  <2>1. Value(r)[i] = w.log[v][i]
    BY <1>2, <1>4, <1>8 DEF InView, Member
  <2>2. Value(r)[i] = EntryAt(r, i)
    BY <1>2 DEF Value
  <2> QED
    BY <1>3, <1>6, <2>1, <2>2
<1> QED
  BY <1>7, <1>8

\* A primary counts an acknowledgement, and commits what a quorum has.
LEMMA RegisterAckMoves ==
  ASSUME NEW w, NEW q \in ReplicaID, NEW r, NEW d, At(w, q, r, d), DiskOK(d), Serves(r),
         NEW id \in ReplicaID, NEW op \in Nat, op <= w.ack[r.view_number][id]
  PROVE  GoesOn(w, q, RegisterAck(r, id, op), d)
<1> DEFINE z == RegisterAck(r, id, op)
           mark == Lower(op, r.op_number)
           acked == [r.acked EXCEPT ![id] = mark]
           reached == {a \in {acked[x] : x \in ReplicaID} :
                         Cardinality({x \in ReplicaID : acked[x] >= a}) >= Quorum}
           s == [r EXCEPT !.acked = acked]
           commit == Max(reached \union {0})
           v == r.view_number
<1>1. /\ HistoryInv(w) /\ HistoryTyped(w) /\ Ready(r) /\ NumbersOK(r) /\ DOMAIN r = Fields
      /\ Whole(r) /\ OrderedLog(Value(r), r.op_number) /\ Stands(w, q, r) /\ Rests(w, q, r)
  BY AtHolds
<1>2. z = r \/ z = CommitUpTo(s, commit, TRUE)
  BY Zenon DEF RegisterAck
<1>3. Ready(z) /\ SameBut(r, z, CommitFields \union {"acked"})
  BY <1>1, RegisterAckFollows DEF Follows
<1>4. mark \in Nat /\ mark <= op /\ v \in Nat /\ r.op_number \in Nat
  BY <1>1 DEF Lower, NumbersOK
<1>5. acked \in [ReplicaID -> Nat] /\ r.acked \in [ReplicaID -> Nat]
  BY <1>1, <1>4 DEF NumbersOK
<1>6. /\ Leads(w, r) /\ v \in w.started /\ w.len[v] = r.op_number
  BY <1>1, ServesIs DEF Rests, Stands, InView, InItsView
<1>7. \A x \in ReplicaID : acked[x] <= w.ack[v][x]
  <2> SUFFICES ASSUME NEW x \in ReplicaID PROVE acked[x] <= w.ack[v][x]
    OBVIOUS
  <2>1. r.acked[x] <= w.ack[v][x]
    BY <1>6 DEF Leads
  <2>2. w.ack[v][x] \in Nat /\ w.ack[v][id] \in Nat
    BY <1>1, <1>4, HistoryNumbers
  <2>3. CASE x = id
    BY <1>4, <1>5, <2>2, <2>3
  <2>4. CASE x # id
    BY <1>5, <2>1, <2>4
  <2> QED
    BY <2>3, <2>4
<1> HIDE DEF mark, acked, z
<1>8. SameBut(r, s, {"acked"}) /\ s.acked = acked
  BY <1>1 DEF SameBut, Fields
<1> HIDE DEF s
<1>9. commit \in Nat
  BY <1>5, ReachedIsNumber
<1>10. commit = 0 \/ commit \in reached
  <2>1. \A x \in ReplicaID : acked[x] <= w.len[v]
    <3>1. \A x \in ReplicaID : w.ack[v][x] <= w.len[v] /\ w.ack[v][x] \in Nat
      BY <1>1, <1>4, HistoryNumbers DEF HistoryInv
    <3> QED
      BY <1>4, <1>5, <1>6, <1>7, <3>1
  <2>2. w.len[v] \in Nat /\ reached \union {0} \in SUBSET (0 .. w.len[v]) /\ reached \union {0} # {}
    BY <1>4, <1>5, <1>6, <2>1
  <2> HIDE DEF reached
  <2>3. Max(reached \union {0}) \in reached \union {0}
    BY <2>2, MaxIsGreatest
  <2> QED
    BY <2>3
<1> HIDE DEF commit
<1>11. \A i \in 1 .. commit : i <= r.op_number /\ Decided(w, v, i, EntryAt(r, i))
  <2> SUFFICES ASSUME NEW i \in 1 .. commit
               PROVE  i <= r.op_number /\ Decided(w, v, i, EntryAt(r, i))
    OBVIOUS
  <2> DEFINE D == {x \in ReplicaID : acked[x] >= commit}
  <2>1. commit \in reached
    BY <1>9, <1>10
  <2>2. PICK x \in ReplicaID : commit = acked[x]
    BY <2>1
  <2>3. D \in Quorums
    BY <2>1 DEF Quorums
  <2>4. \A y \in D : w.ack[v][y] >= i
    <3> SUFFICES ASSUME NEW y \in D PROVE w.ack[v][y] >= i
      OBVIOUS
    <3>1. y \in ReplicaID /\ acked[y] >= commit /\ acked[y] <= w.ack[v][y]
      BY <1>7
    <3>2. w.ack[v][y] \in Nat /\ acked[y] \in Nat
      BY <1>1, <1>4, <1>5, HistoryNumbers
    <3> QED
      BY <1>9, <3>1, <3>2
  <2>5. i <= w.len[v]
    <3>1. acked[x] <= w.ack[v][x] /\ w.ack[v][x] <= w.len[v] /\ w.ack[v][x] \in Nat
      BY <1>1, <1>4, <1>7, HistoryNumbers DEF HistoryInv
    <3> QED
      BY <1>4, <1>5, <1>6, <1>9, <2>2, <3>1
  <2>6. Chosen(w, v, i)
    BY <1>4, <1>6, <1>9, <2>3, <2>4, <2>5 DEF Chosen
  <2>7. EntryAt(r, i) = w.log[v][i]
    BY <1>4, <1>6, <1>9, <2>5 DEF Leads
  <2>8. Decided(w, v, i, EntryAt(r, i))
    BY <1>4, <2>6, <2>7 DEF Decided
  <2> QED
    BY <1>6, <2>5, <2>8
<1>12. commit <= r.op_number
  BY <1>4, <1>9, <1>11
<1>13. CASE z = r
  BY <1>13, StaysAt DEF z
<1>14. CASE z = CommitUpTo(s, commit, TRUE)
  <2>1. /\ s.log_start = r.log_start /\ s.applied = r.applied /\ s.sm = r.sm /\ s.log = r.log
        /\ s.op_number = r.op_number /\ s.commit_number = r.commit_number /\ s.ok = r.ok
        /\ s.replies = r.replies /\ s.serving = r.serving
    BY <1>8 DEF SameBut, Fields
  <2>2. Whole(s)
    <3>1. NumbersOK(s)
      BY <1>1, <1>5, <1>8 DEF SameBut, Fields, NumbersOK
    <3> QED
      BY <1>1, <1>8, <2>1, <3>1 DEF Whole, Sound, SameBut
  <2>3. \A i : EntryAt(s, i) = EntryAt(r, i)
    BY <2>1 DEF EntryAt
  <2>4. Value(s) = Value(r)
    BY <2>1, <2>3 DEF Value
  <2>5. /\ SameLog(s, z) /\ SameBut(s, z, CommitFields) /\ z.commit_number = Higher(s.commit_number, commit)
    BY <1>1, <1>9, <1>12, <1>14, <2>1, <2>2, <2>4, CommitKeeps
  <2>6. SameLog(r, z)
    BY <2>1, <2>3, <2>5 DEF SameLog
  <2>7. z.acked = acked
    BY <1>8, <2>5 DEF SameBut, Fields, CommitFields, ApplyFields
  <2>8. r.commit_number <= z.commit_number
    BY <1>1, <1>9, <2>1, <2>5 DEF Higher, NumbersOK
  <2>9. \A i \in 1 .. z.commit_number : Decided(w, v, i, EntryAt(r, i))
    BY <1>1, <1>9, <1>11, <2>1, <2>5 DEF Higher, Stands, NumbersOK
  <2>10. r.applied <= z.applied
    BY <1>9, <1>14, <2>1, <2>2, CommitUpToFrame DEF Whole
  <2>11. GoesOn(w, q, z, d)
    BY <1>3, <1>7, <2>6, <2>7, <2>8, <2>9, <2>10, QuietMoves
  <2> QED
    BY <2>11 DEF z
<1> QED
  BY <1>2, <1>13, <1>14

-----------------------------------------------------------------------------
(* Normal operation *)

\* A replica with the whole log of its view.
Heads(w, q, r) ==
  /\ r.view_number \in w.started /\ w.len[r.view_number] = r.op_number
  /\ w.base[r.view_number] <= r.op_number /\ w.ack[r.view_number][q] = r.op_number
  /\ \A i \in 1 .. r.op_number : EntryAt(r, i) = w.log[r.view_number][i]

\* A primary is one, and a backup has what it has of that log.
LEMMA PrimaryHolds ==
  ASSUME NEW w, NEW q \in ReplicaID, NEW r, NEW d, At(w, q, r, d), Serves(r)
  PROVE  Heads(w, q, r)
<1>1. Ready(r) /\ HistoryInv(w) /\ Stands(w, q, r) /\ Rests(w, q, r)
  BY AtHolds
<1>2. IsPrimary(r) /\ InItsView(r)
  BY <1>1, ServesIs
<1>3. /\ r.view_number \in w.started /\ w.len[r.view_number] = r.op_number
      /\ w.ack[r.view_number][q] = r.op_number
  BY <1>1, <1>2 DEF Rests, InItsView
<1>4. Leads(w, r)
  BY <1>1, <1>2 DEF Stands, InView, InItsView
<1>5. w.base[r.view_number] <= w.len[r.view_number]
  BY <1>1, <1>3 DEF HistoryInv
<1> QED
  BY <1>3, <1>4, <1>5 DEF Leads, Heads

\* A backup holds the log of its view.
LEMMA BackupHolds ==
  ASSUME NEW w, NEW q \in ReplicaID, NEW r, NEW d, At(w, q, r, d), InItsView(r), ~IsPrimary(r)
  PROVE  /\ Member(w, r.view_number, Value(r), r.op_number)
         /\ w.ack[r.view_number][q] = r.op_number
<1>1. Stands(w, q, r) /\ Rests(w, q, r)
  BY AtHolds
<1> QED
  BY <1>1 DEF Stands, InView, InItsView, Rests

\* The log grows by an entry, and what stands stands.
LEMMA AppendMoves ==
  ASSUME NEW w, NEW q \in ReplicaID, NEW r, NEW d, At(w, q, r, d), DiskOK(d), r.status = "Normal",
         NEW entry,
         Serves(r) => OrderedLog([i \in 1 .. r.op_number + 1 |->
                                    IF i = r.op_number + 1 THEN entry ELSE Value(r)[i]],
                                 r.op_number + 1),
         ~IsPrimary(r) => /\ r.op_number + 1 <= w.len[r.view_number]
                          /\ entry = w.log[r.view_number][r.op_number + 1]
  PROVE  GoesOn(w, q, AppendToLog(r, entry), d)
<1> DEFINE s == AppendToLog(r, entry)
           n == r.op_number
           v == r.view_number
<1>1. /\ HistoryInv(w) /\ HistoryTyped(w) /\ Ready(r) /\ NumbersOK(r) /\ ReceivedOK(r) /\ Whole(r)
      /\ Stands(w, q, r) /\ ReceivedInv(w, q, r) /\ Marked(r, d)
  BY AtHolds
<1>2. r.id = q
  BY AtId
<1>3. Ready(s)
  BY <1>1, AppendToLogFollows DEF Follows
<1>4. /\ SameBut(r, s, LogFields) /\ Whole(s) /\ s.op_number = n + 1 /\ Marked(s, d)
      /\ \A i \in 1 .. s.op_number : EntryAt(s, i) = IF i = n + 1 THEN entry ELSE EntryAt(r, i)
  BY <1>1, AppendIs
<1> HIDE DEF s
<1>5. /\ s.id = q /\ s.status = "Normal" /\ s.view_number = v
      /\ s.last_normal_view = r.last_normal_view /\ s.commit_number = r.commit_number
      /\ s.recovery_nonce = r.recovery_nonce /\ s.acked = r.acked
      /\ s.do_view_change_from = r.do_view_change_from /\ s.catching_up = r.catching_up
      /\ s.fetch = r.fetch /\ s.recovery_responses = r.recovery_responses
      /\ s.early = r.early /\ s.outbox = r.outbox /\ s.outbox_waiting = r.outbox_waiting
      /\ s.outbox_ready = r.outbox_ready
  BY <1>2, <1>4 DEF SameBut, Fields, LogFields
<1>6. n \in Nat /\ v \in Nat /\ r.commit_number \in Nat /\ r.commit_number <= n
  BY <1>1 DEF NumbersOK, Whole
<1>7. s.ok /\ Sound(s)
  BY <1>4 DEF Whole
<1>8. InItsView(r) /\ r.last_normal_view = v
  BY <1>1 DEF Ready, Placed, InItsView
<1>9. (IsPrimary(s) <=> IsPrimary(r)) /\ (Serves(r) <=> IsPrimary(r))
  BY <1>2, <1>5 DEF IsPrimary, Serves
<1>10. \A i \in 1 .. n : i \in 1 .. s.op_number /\ EntryAt(s, i) = EntryAt(r, i) /\ EntryAt(r, i) = Value(r)[i]
  BY <1>4, <1>6 DEF Value
<1>11. InView(w, q, s)
  <2>1. w.ack[v][q] <= s.op_number
    <3>1. w.ack[v][q] <= n /\ w.ack[v][q] \in Nat
      BY <1>1, <1>6, <1>8, HistoryNumbers DEF Stands, InView, InItsView
    <3> QED
      BY <1>4, <1>6, <3>1
  <2>2. CASE IsPrimary(r)
    <3>1. /\ v \in w.started /\ w.len[v] = n /\ \A i \in 1 .. n : EntryAt(r, i) = w.log[v][i]
      <4>1. Heads(w, q, r)
        BY <1>9, <2>2, PrimaryHolds
      <4> QED
        BY <4>1 DEF Heads
    <3>2. Value(s) = [i \in 1 .. n + 1 |-> IF i = n + 1 THEN entry ELSE Value(r)[i]]
      BY <1>4, <1>6, <1>10 DEF Value
    <3>3. OrderedLog(Value(s), s.op_number)
      BY <1>4, <1>9, <2>2, <3>2
    <3>4. \A x \in ReplicaID : s.acked[x] <= w.ack[v][x]
      BY <1>1, <1>5, <1>8, <2>2 DEF Stands, InView, InItsView, Leads
    <3>5. Leads(w, s)
      BY <1>4, <1>5, <1>6, <1>10, <3>1, <3>3, <3>4 DEF Leads
    <3> QED
      BY <1>5, <1>9, <2>1, <2>2, <3>5 DEF InView
  <2>3. CASE ~IsPrimary(r)
    <3>1. Member(w, v, Value(r), n)
      BY <1>8, <2>3, BackupHolds
    <3>2. \A i \in 1 .. n + 1 : Value(s)[i] = w.log[v][i]
      <4> SUFFICES ASSUME NEW i \in 1 .. n + 1 PROVE Value(s)[i] = w.log[v][i]
        OBVIOUS
      <4>1. Value(s)[i] = EntryAt(s, i)
        BY <1>4 DEF Value
      <4>2. CASE i = n + 1
        BY <1>4, <2>3, <4>1, <4>2
      <4>3. CASE i # n + 1
        <5>1. i \in 1 .. n
          BY <1>6, <4>3
        <5> QED
          BY <1>10, <3>1, <4>1, <5>1 DEF Member
      <4> QED
        BY <4>2, <4>3
    <3>3. v \in w.started /\ w.base[v] <= n /\ w.base[v] \in Nat
      BY <1>1, <1>6, <3>1, HistoryNumbers DEF Member
    <3>4. w.base[v] <= n + 1
      BY <1>6, <3>3
    <3>5. Member(w, v, Value(s), s.op_number)
      BY <1>4, <2>3, <3>2, <3>3, <3>4 DEF Member
    <3> QED
      BY <1>5, <1>9, <2>1, <2>3, <3>5 DEF InView
  <2> QED
    BY <2>2, <2>3
<1>12. \A i \in 1 .. s.commit_number : Decided(w, v, i, EntryAt(s, i))
  BY <1>1, <1>5, <1>6, <1>10 DEF Stands
<1>13. Stands(w, q, s)
  BY <1>1, <1>4, <1>5, <1>6, <1>8, <1>11, <1>12 DEF Stands
<1>14. Succeeds(r, s)
  BY <1>1, <1>5 DEF Succeeds, NumbersOK
<1>15. ReceivedInv(w, q, s)
  BY <1>1, <1>2, <1>5, <1>6, ReceivedSame
<1>16. Out(s) = Out(r)
  BY <1>5 DEF Out
<1>17. GoesOn(w, q, s, d)
  BY <1>3, <1>4, <1>5, <1>7, <1>13, <1>14, <1>15, <1>16, Moves
<1> QED
  BY <1>17 DEF s

\* The primary prepares an entry.
LEMMA PrepareMoves ==
  ASSUME NEW w, NEW q \in ReplicaID, NEW r, NEW d, At(w, q, r, d), DiskOK(d), Serves(r), NEW entry,
         OrderedLog([i \in 1 .. r.op_number + 1 |->
                       IF i = r.op_number + 1 THEN entry ELSE Value(r)[i]], r.op_number + 1)
  PROVE  GoesOn(w, q, Prepare(r, entry), d)
<1> DEFINE s == AppendToLog(r, entry)
           m == [type |-> "Prepare", view_number |-> s.view_number,
                 op_number |-> s.op_number, entry |-> entry, commit_number |-> s.commit_number]
<1>1. Prepare(r, entry) = SendTo(s, Others(s.id), m)
  BY DEF Prepare, SendToOthers
<1>2. /\ Ready(r) /\ Whole(r) /\ NumbersOK(r) /\ r.status = "Normal" /\ IsPrimary(r)
  BY AtHolds DEF Serves
<1>3. GoesOn(w, q, s, d)
  BY <1>2, AppendMoves
<1>4. PICK z : At(z, q, s, d) /\ Later(w, z)
  BY <1>3 DEF GoesOn
<1>5. /\ SameBut(r, s, LogFields) /\ s.op_number = r.op_number + 1
      /\ \A i \in 1 .. s.op_number : EntryAt(s, i) = IF i = r.op_number + 1 THEN entry ELSE EntryAt(r, i)
  BY <1>2, AppendIs
<1> HIDE DEF s
<1>6. Serves(s)
  BY <1>2, <1>5 DEF Serves, IsPrimary, SameBut, Fields, LogFields
<1>7. /\ s.view_number \in z.started /\ z.len[s.view_number] = s.op_number
      /\ \A i \in 1 .. s.op_number : EntryAt(s, i) = z.log[s.view_number][i]
  <2>1. Heads(z, q, s)
    BY <1>4, <1>6, PrimaryHolds
  <2> QED
    BY <2>1 DEF Heads
<1>8. CommitOK(z, s.view_number, s.commit_number) /\ NumbersOK(s)
  BY <1>4, AtHolds
<1>9. s.op_number \in 1 .. s.op_number /\ EntryAt(s, s.op_number) = entry
  BY <1>2, <1>5 DEF NumbersOK
<1>10. PrepareInv(z, m)
  BY <1>7, <1>8, <1>9 DEF PrepareInv
<1>11. MessageOK(m) /\ m.type = "Prepare" /\ m.type \in EarlyTypes
  BY <1>8 DEF MessageOK, EarlyTypes, NumbersOK
<1>12. \A x \in Others(s.id) : x \in ReplicaID
  BY DEF Others
<1> HIDE DEF m
<1>13. \A x \in Others(s.id) : MessageInv(z, x, m)
  BY <1>10, <1>11 DEF MessageInv
<1>14. GoesOn(z, q, SendTo(s, Others(s.id), m), d)
  BY <1>4, <1>11, <1>12, <1>13, SendMoves
<1> QED
  BY <1>1, <1>4, <1>14, GoesThrough

-----------------------------------------------------------------------------
(* Clients and queries *)

\* A reply leaves.
LEMMA ReplyMoves ==
  ASSUME NEW w, NEW q \in ReplicaID, NEW r, NEW d, At(w, q, r, d), DiskOK(d),
         NEW new, \A x \in new : Answers(x)
  PROVE  GoesOn(w, q, [r EXCEPT !.replies = @ \union new], d)
<1> DEFINE s == [r EXCEPT !.replies = @ \union new]
<1>1. /\ Ready(r) /\ NumbersOK(r) /\ Sound(r) /\ ReceivedInv(w, q, r) /\ DOMAIN r = Fields /\ ReceivedOK(r)
  BY AtHolds
<1>2. Ready(s)
  BY <1>1, RepliesFollow DEF Follows
<1>3. SameBut(r, s, {"replies"}) /\ s.replies = r.replies \union new
  BY <1>1 DEF SameBut, Fields
<1> HIDE DEF s
<1>4. /\ s.id = r.id /\ s.status = r.status /\ s.view_number = r.view_number
      /\ s.commit_number = r.commit_number /\ s.applied = r.applied /\ s.serving = r.serving
      /\ s.sm = r.sm /\ s.log = r.log /\ s.log_start = r.log_start
      /\ s.do_view_change_from = r.do_view_change_from /\ s.catching_up = r.catching_up
      /\ s.fetch = r.fetch /\ s.recovery_responses = r.recovery_responses
      /\ s.early = r.early /\ s.outbox = r.outbox /\ s.outbox_waiting = r.outbox_waiting
      /\ s.outbox_ready = r.outbox_ready
  BY <1>3 DEF SameBut, Fields
<1>5. Sound(s)
  BY <1>1, <1>3, <1>4 DEF Sound
<1>6. ReceivedInv(w, q, s)
  <2>1. r.commit_number \in Nat
    BY <1>1 DEF NumbersOK
  <2> QED
    BY <1>1, <1>4, <2>1, ReceivedSame
<1>7. SameBut(r, s, StillFields)
  BY <1>3 DEF SameBut, StillFields
<1>8. Out(s) = Out(r)
  BY <1>4 DEF Out
<1>9. GoesOn(w, q, s, d)
  BY <1>2, <1>5, <1>6, <1>7, <1>8, StillMoves
<1> QED
  BY <1>9 DEF s

\* The client table of a replica is that of its log.
LEMMA AtReads ==
  ASSUME NEW w, NEW q \in ReplicaID, NEW r, NEW d, At(w, q, r, d)
  PROVE  /\ Reads(r, Value(r)) /\ ClientTable(r.sm, r.applied) = ClientTable(Value(r), r.applied)
         /\ History(Value(r), r.op_number) /\ r.applied \in 0 .. r.op_number /\ r.op_number \in Nat
<1>1. NumbersOK(r) /\ OrderedLog(Value(r), r.op_number)
  BY AtHolds
<1>2. r.applied \in Nat /\ r.op_number \in Nat /\ r.applied <= r.op_number
  BY <1>1 DEF NumbersOK
<1>3. \A i \in 1 .. r.applied : r.sm[i] = Value(r)[i]
  BY <1>2 DEF Value, EntryAt
<1>4. \A i \in r.applied + 1 .. r.op_number : r.log[i] = Value(r)[i]
  BY <1>2 DEF Value, EntryAt
<1> QED
  BY <1>1, <1>2, <1>3, <1>4, ClientTablePrefix, OrderedLogTyped DEF Reads

\* on_register.
LEMMA OnRegisterMoves ==
  ASSUME NEW w, NEW q \in ReplicaID, NEW r, NEW d, At(w, q, r, d), DiskOK(d), Serves(r),
         NEW c \in Client
  PROVE  GoesOn(w, q, OnRegister(r, c), d)
<1> DEFINE record == ClientTable(r.sm, r.applied)[c]
           x == [type |-> "Registered", client |-> c, session |-> record.session,
                 number |-> 0, result |-> 0]
           log == Value(r)
<1>1. \/ OnRegister(r, c) = r
      \/ record # NoRecord /\ OnRegister(r, c) = [r EXCEPT !.replies = @ \union {x}]
      \/ OnRegister(r, c) = Prepare(r, Registration(c))
  BY Zenon DEF OnRegister
<1>2. /\ Reads(r, log) /\ ClientTable(r.sm, r.applied) = ClientTable(log, r.applied)
      /\ History(log, r.op_number) /\ r.applied \in 0 .. r.op_number /\ r.op_number \in Nat
  BY AtReads
<1> HIDE DEF log
<1>3. GoesOn(w, q, Prepare(r, Registration(c)), d)
  <2>1. OrderedLog([i \in 1 .. r.op_number + 1 |->
                      IF i = r.op_number + 1 THEN Registration(c) ELSE log[i]], r.op_number + 1)
    BY <1>2, RegistrationInOrder
  <2> QED
    BY <2>1, PrepareMoves DEF log
<1>4. ASSUME record # NoRecord
      PROVE  GoesOn(w, q, [r EXCEPT !.replies = @ \union {x}], d)
  <2>1. record.session \in Nat \ {0}
    BY <1>2, <1>4, TableTyped DEF Records
  <2> HIDE DEF record
  <2>2. Answers(x)
    BY <2>1 DEF Answers
  <2> QED
    BY <2>2, ReplyMoves
<1>5. GoesOn(w, q, r, d)
  BY StaysAt
<1> QED
  BY <1>1, <1>3, <1>4, <1>5

\* on_request.
LEMMA OnRequestMoves ==
  ASSUME NEW w, NEW q \in ReplicaID, NEW r, NEW d, At(w, q, r, d), DiskOK(d), Serves(r),
         NEW c, NEW session, NEW number, NEW answered,
         c \in Client, session \in Nat \ {0}, number \in Nat \ {0}, answered \in Nat
  PROVE  GoesOn(w, q, OnRequest(r, c, session, number, answered), d)
<1> DEFINE record == ClientTable(r.sm, r.applied)[c]
           last == Pending(r, c)
           latest == IF last # NoPending /\ last.session = session
                     THEN last.number ELSE record.number
           place == Len(record.replies) - (record.number - number)
           evicted == [type |-> "Evicted", client |-> c, session |-> session,
                       number |-> 0, result |-> 0]
           executed == [type |-> "Executed", client |-> c, session |-> session,
                        number |-> number, result |-> record.replies[place]]
           e == Request(c, session, number, answered)
           log == Value(r)
<1>1. \/ OnRequest(r, c, session, number, answered) = r
      \/ OnRequest(r, c, session, number, answered) = [r EXCEPT !.replies = @ \union {evicted}]
      \/ OnRequest(r, c, session, number, answered) = [r EXCEPT !.replies = @ \union {executed}]
      \/ /\ record.session = session /\ ~(last # NoPending /\ last.session > session)
         /\ number = latest + 1
         /\ OnRequest(r, c, session, number, answered) = Prepare(r, e)
  BY Zenon DEF OnRequest
<1>2. /\ Reads(r, log) /\ ClientTable(r.sm, r.applied) = ClientTable(log, r.applied)
      /\ History(log, r.op_number) /\ r.applied \in 0 .. r.op_number /\ r.op_number \in Nat
  BY AtReads
<1> HIDE DEF log
<1>3. ASSUME record.session = session, ~(last # NoPending /\ last.session > session),
             number = latest + 1
      PROVE  GoesOn(w, q, Prepare(r, e), d)
  <2>1. NextOf(r, log, c, session, number)
    BY <1>2, <1>3 DEF NextOf
  <2>2. e = Request(c, session, number, answered)
    OBVIOUS
  <2> DEFINE g == [i \in 1 .. r.op_number + 1 |-> IF i = r.op_number + 1 THEN e ELSE log[i]]
  <2>3. g = [i \in 1 .. r.op_number + 1 |-> IF i = r.op_number + 1 THEN e ELSE log[i]]
    OBVIOUS
  <2>4. /\ c \in Client /\ session \in Nat \ {0} /\ number \in Nat \ {0} /\ answered \in Nat
        /\ Reads(r, log)
    BY <1>2
  <2> HIDE DEF e, g
  <2>5. OrderedLog(g, r.op_number + 1)
    BY ONLY <2>1, <2>2, <2>3, <2>4, NextInOrder
  <2> QED
    BY <2>5, PrepareMoves DEF g, log
<1>4. Answers(evicted) /\ Answers(executed)
  BY DEF Answers
<1> HIDE DEF evicted, executed, e
<1>5. GoesOn(w, q, [r EXCEPT !.replies = @ \union {evicted}], d)
  BY <1>4, ReplyMoves
<1>6. GoesOn(w, q, [r EXCEPT !.replies = @ \union {executed}], d)
  BY <1>4, ReplyMoves
<1>7. GoesOn(w, q, r, d)
  BY StaysAt
<1> QED
  BY <1>1, <1>3, <1>5, <1>6, <1>7

\* Queries promise nothing about the log.
LEMMA StartRoundMoves ==
  ASSUME NEW w, NEW q \in ReplicaID, NEW r, NEW d, At(w, q, r, d), DiskOK(d)
  PROVE  GoesOn(w, q, StartRound(r), d)
<1> DEFINE m == [type |-> "ConfirmView", view_number |-> r.view_number, round |-> r.round + 1]
           s == [r EXCEPT !.round = @ + 1, !.round_unsent = TRUE,
                          !.confirmed = [@ EXCEPT ![r.id] = r.round + 1]]
           t == StartRound(r)
<1>1. /\ Ready(r) /\ NumbersOK(r) /\ DOMAIN r = Fields
  BY AtHolds
<1>2. Ready(t)
  BY <1>1, StartRoundFollows DEF Follows
<1>3. SameBut(r, s, RoundFields)
  BY <1>1 DEF SameBut, Fields, RoundFields
<1>4. t = SendTo(s, Others(s.id), m)
  BY DEF StartRound, SendToOthers
<1> HIDE DEF s
<1>5. SameBut(s, t, {"early"}) /\ t.early = s.early \union (Others(s.id) \X {m})
  BY <1>3, <1>4 DEF SendTo, EarlyTypes, SameBut, Fields
<1> HIDE DEF t
<1>6. SameBut(r, t, SendingFields) /\ t.early = r.early \union (Others(s.id) \X {m})
      /\ t.outbox = r.outbox /\ t.outbox_waiting = r.outbox_waiting
      /\ t.outbox_ready = r.outbox_ready
  BY <1>3, <1>5 DEF SameBut, Fields, RoundFields, SendingFields
<1>7. \A x : MessageInv(w, x, m)
  BY DEF MessageInv
<1>8. \A e \in Out(t) : e \in Out(r) \/ MessageInv(w, e[1], e[2])
  <2> HIDE DEF m
  <2> QED
    BY <1>6, <1>7 DEF Out
<1>9. GoesOn(w, q, t, d)
  BY <1>2, <1>6, <1>8, SendingMoves
<1> QED
  BY <1>9 DEF t

\* on_query.
LEMMA OnQueryMoves ==
  ASSUME NEW w, NEW q \in ReplicaID, NEW r, NEW d, At(w, q, r, d), DiskOK(d), NEW c, NEW number
  PROVE  GoesOn(w, q, OnQuery(r, c, number), d)
<1> DEFINE round == RoundFor(r)
           starts == round > r.round /\ r.round - r.round_confirmed < RoundsOut
           query == [client |-> c, number |-> number, round |-> round,
                     op_number |-> Higher(r.commit_number, r.view_start_op)]
           s == IF starts THEN StartRound(r) ELSE r
           t == [s EXCEPT !.queries = Append(@, query)]
<1>1. OnQuery(r, c, number) = r \/ OnQuery(r, c, number) = t
  BY DEF OnQuery
<1>2. GoesOn(w, q, r, d)
  BY StaysAt
<1>3. GoesOn(w, q, s, d)
  BY <1>2, StartRoundMoves
<1> HIDE DEF s, query
<1>4. PICK z : At(z, q, s, d) /\ Later(w, z)
  BY <1>3 DEF GoesOn
<1>5. Ready(s) /\ DOMAIN s = Fields
  BY <1>4, AtHolds
<1>6. SameBut(s, t, {"queries"})
  BY <1>5 DEF SameBut, Fields
<1> HIDE DEF t
<1>7. /\ SameBut(s, t, SendingFields) /\ t.early = s.early /\ t.outbox = s.outbox
      /\ t.outbox_waiting = s.outbox_waiting /\ t.outbox_ready = s.outbox_ready
  BY <1>6 DEF SameBut, Fields, SendingFields
<1>8. Ready(t)
  BY <1>5, <1>6, QuietStep DEF Follows, QuietFields, CommitFields, ApplyFields
<1>9. Out(t) = Out(s)
  BY <1>7 DEF Out
<1>10. GoesOn(z, q, t, d)
  BY <1>4, <1>7, <1>8, <1>9, SendingMoves
<1> QED
  BY <1>1, <1>2, <1>4, <1>10, GoesThrough

\* on_confirm_view.
LEMMA OnConfirmViewMoves ==
  ASSUME NEW w, NEW q \in ReplicaID, NEW r, NEW d, At(w, q, r, d), DiskOK(d), NEW m,
         MessageOK(m), m.type = "ConfirmView"
  PROVE  GoesOn(w, q, OnConfirmView(r, m), d)
<1> DEFINE o == [type |-> "ConfirmViewOk", view_number |-> m.view_number, round |-> m.round,
                 replica_id |-> r.id]
<1>1. OnConfirmView(r, m) = r \/ OnConfirmView(r, m) = Send(r, PrimaryOf(r.view_number), o)
  BY DEF OnConfirmView
<1>2. NumbersOK(r)
  BY AtHolds
<1>3. r.id = q
  BY AtId
<1>4. PrimaryOf(r.view_number) \in ReplicaID
  BY <1>2, PrimaryIsReplica DEF NumbersOK
<1>5. MessageOK(o) /\ o.type \in EarlyTypes
  BY <1>3 DEF MessageOK, EarlyTypes
<1>6. MessageInv(w, PrimaryOf(r.view_number), o)
  BY DEF MessageInv
<1> HIDE DEF o
<1>7. GoesOn(w, q, Send(r, PrimaryOf(r.view_number), o), d)
  BY <1>4, <1>5, <1>6, SendOneMoves
<1> QED
  BY <1>1, <1>7, StaysAt

\* execute_queries.
LEMMA ExecuteQueriesMoves ==
  ASSUME NEW w, NEW q \in ReplicaID, NEW r, NEW d, At(w, q, r, d), DiskOK(d)
  PROVE  GoesOn(w, q, ExecuteQueries(r), d)
<1> DEFINE s == ExecuteQueries(r)
<1>1. /\ Ready(r) /\ NumbersOK(r) /\ Sound(r) /\ ReceivedInv(w, q, r) /\ DOMAIN r = Fields /\ ReceivedOK(r)
  BY AtHolds
<1>2. Ready(s)
  BY <1>1, ExecuteQueriesFollows DEF Follows
<1>3. SameBut(r, s, {"queries", "replies"})
  BY <1>1, ExecuteQueriesFrame
<1>4. \A x \in s.replies : x \in r.replies \/ Answers(x)
  <2>1. CASE ~Serves(r)
    BY <2>1 DEF ExecuteQueries
  <2>2. CASE Serves(r)
    <3> DEFINE last == Max({k \in 0 .. Len(r.queries) : \A i \in 1 .. k : MayGo(r, r.queries[i])})
    <3>1. s = [r EXCEPT
              !.queries = SubSeq(@, last + 1, Len(@)),
              !.replies = @ \union {[type |-> "Queried", client |-> r.queries[i].client,
                                     session |-> 0, number |-> r.queries[i].number,
                                     result |-> r.applied] : i \in 1 .. last}]
      BY <2>2 DEF ExecuteQueries
    <3> HIDE DEF last, s
    <3>2. \A x \in s.replies : x \in r.replies \/ x.type = "Queried"
      BY <1>1, <3>1 DEF Fields
    <3> QED
      BY <3>2 DEF Answers
  <2> QED
    BY <2>1, <2>2
<1> HIDE DEF s
<1>5. /\ s.id = r.id /\ s.status = r.status /\ s.view_number = r.view_number
      /\ s.commit_number = r.commit_number /\ s.applied = r.applied /\ s.serving = r.serving
      /\ s.sm = r.sm /\ s.log = r.log /\ s.log_start = r.log_start
      /\ s.do_view_change_from = r.do_view_change_from /\ s.catching_up = r.catching_up
      /\ s.fetch = r.fetch /\ s.recovery_responses = r.recovery_responses
      /\ s.early = r.early /\ s.outbox = r.outbox /\ s.outbox_waiting = r.outbox_waiting
      /\ s.outbox_ready = r.outbox_ready
  BY <1>3 DEF SameBut, Fields
<1>6. Sound(s)
  BY <1>1, <1>4, <1>5 DEF Sound
<1>7. ReceivedInv(w, q, s)
  <2>1. r.commit_number \in Nat
    BY <1>1 DEF NumbersOK
  <2> QED
    BY <1>1, <1>5, <2>1, ReceivedSame
<1>8. SameBut(r, s, StillFields)
  BY <1>3 DEF SameBut, StillFields, SendingFields
<1>9. Out(s) = Out(r)
  BY <1>5 DEF Out
<1>10. GoesOn(w, q, s, d)
  BY <1>2, <1>6, <1>7, <1>8, <1>9, StillMoves
<1> QED
  BY <1>10 DEF s

\* on_confirm_view_ok.
LEMMA OnConfirmViewOkMoves ==
  ASSUME NEW w, NEW q \in ReplicaID, NEW r, NEW d, At(w, q, r, d), DiskOK(d), NEW m
  PROVE  GoesOn(w, q, OnConfirmViewOk(r, m), d)
<1> DEFINE confirmed == [r.confirmed EXCEPT ![m.replica_id] = m.round]
           reached == Max({0} \union
                          {n \in {confirmed[x] : x \in ReplicaID} :
                             Cardinality({x \in ReplicaID : confirmed[x] >= n}) >= Quorum})
           s == [r EXCEPT !.confirmed = confirmed]
           t == [s EXCEPT !.round_confirmed = reached]
           more == t.queries # <<>> /\ t.queries[Len(t.queries)].round > t.round
           u == IF more THEN StartRound(t) ELSE t
<1>1. OnConfirmViewOk(r, m) \in {r, s, ExecuteQueries(u)}
  BY Zenon DEF OnConfirmViewOk
<1>2. Ready(r) /\ DOMAIN r = Fields
  BY AtHolds
<1> HIDE DEF confirmed, reached
<1>3. SameBut(r, s, {"confirmed", "round_confirmed"}) /\ SameBut(r, t, {"confirmed", "round_confirmed"})
  BY <1>2 DEF SameBut, Fields
<1> HIDE DEF s, t
<1>4. ASSUME NEW y, SameBut(r, y, {"confirmed", "round_confirmed"})
      PROVE  GoesOn(w, q, y, d)
  <2>1. Ready(y)
    BY <1>2, <1>4, QuietStep DEF Follows, QuietFields, CommitFields, ApplyFields
  <2>2. /\ SameBut(r, y, SendingFields) /\ y.early = r.early /\ y.outbox = r.outbox
        /\ y.outbox_waiting = r.outbox_waiting /\ y.outbox_ready = r.outbox_ready
    BY <1>4 DEF SameBut, Fields, SendingFields
  <2>3. Out(y) = Out(r)
    BY <2>2 DEF Out
  <2> QED
    BY <2>1, <2>2, <2>3, SendingMoves
<1>5. PICK z : At(z, q, t, d) /\ Later(w, z)
  BY <1>3, <1>4 DEF GoesOn
<1>6. GoesOn(z, q, u, d)
  BY <1>5, StartRoundMoves, StaysAt
<1> HIDE DEF u
<1>7. PICK y : At(y, q, u, d) /\ Later(z, y)
  BY <1>6 DEF GoesOn
<1>8. GoesOn(y, q, ExecuteQueries(u), d)
  BY <1>7, ExecuteQueriesMoves
<1>9. GoesOn(w, q, ExecuteQueries(u), d)
  BY <1>5, <1>7, <1>8, GoesThrough
<1>10. GoesOn(w, q, s, d) /\ GoesOn(w, q, r, d)
  BY <1>3, <1>4, StaysAt
<1> QED
  BY <1>1, <1>9, <1>10

-----------------------------------------------------------------------------
(* Acknowledgements *)

\* What a replica holds of its view, it acknowledges.
LEMMA SendPrepareOkMoves ==
  ASSUME NEW w, NEW q \in ReplicaID, NEW r, NEW d, At(w, q, r, d), DiskOK(d), InItsView(r)
  PROVE  GoesOn(w, q, SendPrepareOk(r), d)
<1> DEFINE s == SendPrepareOk(r)
           m == [type |-> "PrepareOk", view_number |-> r.view_number,
                 op_number |-> r.op_number, replica_id |-> r.id]
           p == PrimaryOf(r.view_number)
<1>1. /\ Ready(r) /\ DOMAIN r = Fields /\ Rests(w, q, r) /\ NumbersOK(r) /\ HistoryTyped(w)
  BY AtHolds
<1>2. Ready(s)
  BY <1>1, SendPrepareOkFollows DEF Follows, InItsView
<1>3. /\ SameBut(r, s, {"outbox"}) /\ s.outbox \subseteq r.outbox \union {<<p, m>>}
  BY <1>1 DEF SendPrepareOk, Send, EarlyTypes, SameBut, Fields
<1> HIDE DEF s
<1>4. w.ack[r.view_number][q] = r.op_number
  BY <1>1 DEF Rests, InItsView
<1>5. r.id = q
  BY AtId
<1>6. m.op_number <= w.ack[m.view_number][m.replica_id]
  BY <1>1, <1>4, <1>5 DEF NumbersOK
<1>7. MessageInv(w, p, m)
  BY <1>6 DEF MessageInv
<1>8. /\ SameBut(r, s, SendingFields) /\ s.early = r.early
      /\ s.outbox_waiting = r.outbox_waiting /\ s.outbox_ready = r.outbox_ready
  BY <1>3 DEF SameBut, Fields, SendingFields
<1>9. ASSUME NEW e \in Out(s), e \notin Out(r) PROVE MessageInv(w, e[1], e[2])
  <2>1. e = <<p, m>>
    BY <1>3, <1>8, <1>9 DEF Out
  <2> QED
    BY <1>7, <2>1
<1>10. GoesOn(w, q, s, d)
  BY <1>2, <1>8, <1>9, SendingMoves
<1> QED
  BY <1>10 DEF s

\* on_prepare_ok: a quorum of acknowledgements is a quorum of the history.
LEMMA OnPrepareOkMoves ==
  ASSUME NEW w, NEW q \in ReplicaID, NEW r, NEW d, At(w, q, r, d), DiskOK(d), NEW m,
         MessageOK(m), m.type = "PrepareOk", MessageInv(w, q, m)
  PROVE  GoesOn(w, q, OnPrepareOk(r, m), d)
<1>1. CASE m.view_number # r.view_number \/ ~Serves(r)
  BY <1>1, StaysAt DEF OnPrepareOk
<1>2. CASE m.view_number = r.view_number /\ Serves(r)
  <2>1. OnPrepareOk(r, m) = RegisterAck(r, m.replica_id, m.op_number)
    BY <1>2 DEF OnPrepareOk
  <2>2. m.replica_id \in ReplicaID /\ m.op_number \in Nat /\ m.op_number <= w.ack[r.view_number][m.replica_id]
    BY <1>2 DEF MessageOK, MessageInv
  <2> QED
    BY <1>2, <2>1, <2>2, RegisterAckMoves
<1> QED
  BY <1>1, <1>2

-----------------------------------------------------------------------------
(* A gap in the log of a view *)

\* A replica in its view waits for state, or no longer does.
LEMMA TurnMoves ==
  ASSUME NEW w, NEW q \in ReplicaID, NEW r, NEW d, At(w, q, r, d), DiskOK(d),
         NEW s, Ready(s), SameBut(r, s, SendingFields \union {"status", "fetch"}),
         r.status \in {"Normal", "StateTransfer"}, s.status \in {"Normal", "StateTransfer"},
         FetchInv(w, q, s), \A e \in Out(s) : e \in Out(r) \/ MessageInv(w, e[1], e[2]),
         s.status = "Normal" => ~IsPrimary(r) \/ r.status = "Normal"
  PROVE  GoesOn(w, q, s, d)
<1>1. /\ Ready(r) /\ NumbersOK(r) /\ Sound(r) /\ ReceivedInv(w, q, r) /\ DOMAIN r = Fields
      /\ ReceivedOK(r) /\ Whole(r) /\ HistoryTyped(w) /\ Stands(w, q, r) /\ Marked(r, d)
  BY AtHolds
<1>2. r.id = q
  BY AtId
<1>3. /\ s.id = q /\ s.ok = r.ok /\ s.view_number = r.view_number
      /\ s.last_normal_view = r.last_normal_view /\ s.acked = r.acked
      /\ s.commit_number = r.commit_number /\ s.op_number = r.op_number /\ s.applied = r.applied
      /\ s.sm = r.sm /\ s.log = r.log /\ s.log_start = r.log_start /\ s.serving = r.serving
      /\ s.log_changed_from = r.log_changed_from /\ s.written = r.written
      /\ s.recovery_nonce = r.recovery_nonce /\ DOMAIN s = Fields /\ s.replies = r.replies
      /\ s.do_view_change_from = r.do_view_change_from /\ s.catching_up = r.catching_up
      /\ s.recovery_responses = r.recovery_responses
  BY <1>2 DEF SameBut, Fields, SendingFields
<1>4. NumbersOK(s) /\ s.ok
  BY <1>1, <1>3 DEF Ready, ReplicaOK, Whole
<1>5. Sound(s)
  BY <1>1, <1>3 DEF Sound
<1>6. \A i : EntryAt(s, i) = EntryAt(r, i)
  BY <1>3 DEF EntryAt
<1>7. SameLog(r, s)
  BY <1>1, <1>3, <1>4, <1>5, <1>6 DEF SameLog, Whole
<1>8. Stands(w, q, s)
  <2>1. \A i \in 1 .. s.commit_number : Decided(w, r.view_number, i, EntryAt(r, i))
    BY <1>1, <1>3 DEF Stands
  <2>2. s.status = "Recovering" <=> r.status = "Recovering"
    OBVIOUS
  <2> QED
    BY <1>1, <1>2, <1>3, <1>7, <2>1, <2>2, StandsSame
<1>9. Succeeds(r, s)
  BY <1>1, <1>3 DEF Succeeds, NumbersOK
<1>10. Marked(s, d)
  BY <1>1, <1>3, <1>4, MarkedStays DEF NumbersOK
<1>11. ReceivedInv(w, q, s)
  <2>1. r.do_view_change_from = {} /\ r.catching_up = Nobody
    BY <1>1 DEF ReceivedInv, VotesInv, CatchingInv
  <2>2. VotesInv(w, q, s) /\ CatchingInv(w, s) /\ ResponsesInv(w, q, s)
    BY <1>3, <2>1 DEF VotesInv, CatchingInv, ResponsesInv
  <2> QED
    BY <2>2 DEF ReceivedInv
<1> QED
  BY <1>3, <1>4, <1>5, <1>8, <1>9, <1>10, <1>11, Moves

\* A backup that misses entries asks the primary for them.
LEMMA StateTransferMoves ==
  ASSUME NEW w, NEW q \in ReplicaID, NEW r, NEW d, At(w, q, r, d), DiskOK(d),
         r.status \in {"Normal", "StateTransfer"}, ~IsPrimary(r)
  PROVE  GoesOn(w, q, StateTransfer(r), d)
<1> DEFINE s == StateTransfer(r)
           p == PrimaryOf(r.view_number)
           m == [type |-> "GetState", replica_id |-> r.id,
                 view_number |-> r.view_number, op_number |-> r.op_number]
<1>1. /\ Ready(r) /\ DOMAIN r = Fields /\ NumbersOK(r) /\ ReceivedInv(w, q, r)
  BY AtHolds
<1>2. r.id = q
  BY AtId
<1>3. Ready(s)
  BY <1>1, StateTransferFollows DEF Follows
<1>4. /\ SameBut(r, s, {"status", "early"}) /\ s.status = "StateTransfer"
      /\ s.early = r.early \union {<<p, m>>}
  BY <1>1 DEF StateTransfer, SendGetStateTo, Send, EarlyTypes, SameBut, Fields
<1> HIDE DEF s
<1>5. /\ SameBut(r, s, SendingFields \union {"status", "fetch"}) /\ s.fetch = r.fetch
      /\ s.outbox = r.outbox /\ s.outbox_waiting = r.outbox_waiting
      /\ s.outbox_ready = r.outbox_ready
  BY <1>4 DEF SameBut, Fields, SendingFields
<1>6. InItsView(r)
  BY <1>1 DEF Ready, Placed, InItsView
<1>7. r.view_number \in w.started
  <2>1. Member(w, r.view_number, Value(r), r.op_number)
    BY <1>6, BackupHolds
  <2> QED
    BY <2>1 DEF Member
<1>8. GetStateInv(w, p, m)
  BY <1>2, <1>7 DEF GetStateInv, IsPrimary
<1>9. MessageInv(w, p, m)
  BY <1>8 DEF MessageInv
<1>10. ASSUME NEW e \in Out(s), e \notin Out(r) PROVE MessageInv(w, e[1], e[2])
  <2>1. e = <<p, m>>
    BY <1>4, <1>5, <1>10 DEF Out
  <2> QED
    BY <1>9, <2>1
<1>11. FetchInv(w, q, s)
  BY <1>1, <1>4, <1>5 DEF ReceivedInv, FetchInv
<1>12. GoesOn(w, q, s, d)
  BY <1>3, <1>4, <1>5, <1>10, <1>11, TurnMoves
<1> QED
  BY <1>12 DEF s

-----------------------------------------------------------------------------
(* A replica leaves its view *)

\* It holds the log of the view, as far as it goes.
LEMMA HoldsView ==
  ASSUME NEW w, NEW q \in ReplicaID, NEW r, NEW d, At(w, q, r, d), InItsView(r)
  PROVE  /\ Member(w, r.view_number, Value(r), r.op_number)
         /\ w.ack[r.view_number][q] = r.op_number
<1>1. CASE IsPrimary(r)
  <2>1. Ready(r) /\ NumbersOK(r)
    BY AtHolds
  <2>2. Serves(r)
    BY <1>1, <2>1, ServesIs
  <2>3. Heads(w, q, r)
    BY <2>2, PrimaryHolds
  <2>4. \A i \in 1 .. r.op_number : Value(r)[i] = EntryAt(r, i)
    BY DEF Value
  <2> QED
    BY <2>1, <2>3, <2>4 DEF Heads, Member, NumbersOK
<1>2. CASE ~IsPrimary(r)
  BY <1>2, BackupHolds
<1> QED
  BY <1>1, <1>2

\* What a log of a view has is what the view started with, and more.
LEMMA MemberSafe ==
  ASSUME NEW w, HistoryInv(w), NEW v \in Nat, NEW g, NEW n \in Nat, Member(w, v, g, n)
  PROVE  Safe(w, v, g, n)
<1>1. HistoryTyped(w) /\ v \in w.started /\ w.base[v] <= n
  BY DEF HistoryInv, Member
<1>2. Safe(w, v, w.log[v], w.base[v]) /\ \A i \in 1 .. n : g[i] = w.log[v][i]
  BY <1>1 DEF HistoryInv, Member
<1>3. w.base[v] \in Nat
  BY <1>1, HistoryNumbers
<1> SUFFICES ASSUME NEW u \in 0 .. v - 1, NEW i \in Nat \ {0}, ~Blocked(w, u, i)
             PROVE  Holds(w, u, i, g, n)
  BY DEF Safe
<1>4. Holds(w, u, i, w.log[v], w.base[v])
  BY <1>2 DEF Safe
<1>5. i \in 1 .. n
  BY <1>1, <1>3, <1>4 DEF Holds
<1> QED
  BY <1>2, <1>4, <1>5 DEF Holds

\* The log of a view is one to leave it with.
LEMMA MemberCarried ==
  ASSUME NEW w, HistoryInv(w), NEW q \in ReplicaID, NEW v \in Nat, NEW g, NEW n \in Nat,
         Member(w, v, g, n), w.ack[v][q] <= n
  PROVE  Carried(w, q, v, g, n)
<1>1. Safe(w, v, g, n)
  BY MemberSafe
<1>2. Copied(w, g, n)
  BY DEF Copied, Member
<1>3. HistoryTyped(w)
  BY DEF HistoryInv
<1>4. w.ack[v][q] \in Nat /\ w.len[v] \in Nat
  BY <1>3, HistoryNumbers
<1>5. Own(w, q, v, g, n)
  <2> SUFFICES ASSUME NEW i \in Nat \ {0}
               PROVE  (i <= n => Holds(w, v, i, g, n)) /\ (i <= w.ack[v][q] => i <= n)
    BY DEF Own
  <2>1. i <= n => Holds(w, v, i, g, n)
    <3> HAVE i <= n
    <3>1. i \in 1 .. n
      OBVIOUS
    <3> QED
      BY <1>4, <3>1 DEF Holds, Member
  <2> QED
    BY <1>4, <2>1
<1> QED
  BY <1>1, <1>2, <1>5 DEF Carried

\* What a replica takes with it.
LEMMA AtCarries ==
  ASSUME NEW w, NEW q \in ReplicaID, NEW r, NEW d, At(w, q, r, d), r.status # "Recovering"
  PROVE  /\ Carried(w, q, r.last_normal_view, Value(r), r.op_number)
         /\ \A v \in Nat : w.ack[v][q] > 0 => v <= r.last_normal_view
<1>1. HistoryInv(w) /\ NumbersOK(r) /\ Stands(w, q, r)
  BY AtHolds
<1>2. r.view_number \in Nat /\ r.last_normal_view \in Nat /\ r.op_number \in Nat /\ r.last_normal_view <= r.view_number
  BY <1>1 DEF NumbersOK
<1>3. CASE r.last_normal_view = r.view_number
  <2>1. Member(w, r.view_number, Value(r), r.op_number) /\ w.ack[r.view_number][q] = r.op_number
    BY <1>3, HoldsView DEF InItsView
  <2>2. Carried(w, q, r.view_number, Value(r), r.op_number)
    BY <1>1, <1>2, <2>1, MemberCarried
  <2> QED
    BY <1>1, <1>3, <2>2 DEF Stands
<1>4. CASE r.last_normal_view < r.view_number
  BY <1>1, <1>4 DEF Stands, Left
<1> QED
  BY <1>2, <1>3, <1>4

\* A replica leaves its view with its log.
LEMMA LeaveMoves ==
  ASSUME NEW w, NEW q \in ReplicaID, NEW r, NEW d, At(w, q, r, d), DiskOK(d),
         r.status # "Recovering",
         NEW s, SameBut(r, s, ClearFields \union {"view_number", "status"}),
         s.status = "ViewChange", s.view_number \in Nat,
         r.view_number <= s.view_number, r.last_normal_view < s.view_number, Cleared(s),
         \/ s.catching_up = Nobody
         \/ /\ s.catching_up = PrimaryOf(s.view_number) /\ PrimaryOf(s.view_number) # q
            /\ s.view_number \in w.started
  PROVE  GoesOn(w, q, s, d)
<1>1. /\ Ready(r) /\ NumbersOK(r) /\ Sound(r) /\ DOMAIN r = Fields
      /\ Whole(r) /\ HistoryTyped(w) /\ HistoryInv(w) /\ Stands(w, q, r) /\ Marked(r, d)
  BY AtHolds
<1>2. r.id = q
  BY AtId
<1>3. /\ s.id = q /\ s.ok = r.ok
      /\ s.last_normal_view = r.last_normal_view /\ s.acked = r.acked
      /\ s.commit_number = r.commit_number /\ s.op_number = r.op_number /\ s.applied = r.applied
      /\ s.sm = r.sm /\ s.log = r.log /\ s.log_start = r.log_start /\ s.serving = r.serving
      /\ s.log_changed_from = r.log_changed_from /\ s.written = r.written
      /\ s.recovery_nonce = r.recovery_nonce /\ DOMAIN s = Fields /\ s.replies = r.replies
      /\ s.early = r.early /\ s.outbox = r.outbox /\ s.outbox_waiting = r.outbox_waiting
      /\ s.outbox_ready = r.outbox_ready
  BY <1>2 DEF SameBut, Fields, ClearFields
<1>4. Ready(s)
  <2>1. s.catching_up \in ReplicaID \union {Nobody}
    BY PrimaryIsReplica
  <2> QED
    BY <1>1, <2>1, ViewChangeFollows DEF Follows
<1>5. NumbersOK(s) /\ s.ok
  BY <1>1, <1>3, <1>4 DEF Ready, ReplicaOK, Whole
<1>6. Sound(s)
  BY <1>1, <1>3 DEF Sound
<1>7. \A i : EntryAt(s, i) = EntryAt(r, i)
  BY <1>3 DEF EntryAt
<1>8. Value(s) = Value(r)
  BY <1>3, <1>7 DEF Value
<1>9. /\ r.view_number \in Nat /\ r.last_normal_view \in Nat /\ r.last_normal_view <= r.view_number
      /\ r.commit_number \in Nat /\ r.commit_number <= r.op_number
  BY <1>1 DEF NumbersOK, Whole
<1>10. \A i \in 1 .. s.commit_number : Decided(w, s.view_number, i, EntryAt(s, i))
  <2> SUFFICES ASSUME NEW i \in 1 .. s.commit_number
               PROVE  Decided(w, s.view_number, i, EntryAt(s, i))
    OBVIOUS
  <2>1. Decided(w, r.view_number, i, EntryAt(r, i))
    BY <1>1, <1>3 DEF Stands
  <2> QED
    BY <1>7, <1>9, <2>1, DecidedLater
<1>11. IsPrimary(s) => s.view_number \notin w.started
  <2> SUFFICES ASSUME IsPrimary(s), s.view_number \in w.started PROVE FALSE
    OBVIOUS
  <2>1. w.view[q] >= s.view_number
    BY <1>1, <1>3 DEF HistoryInv, IsPrimary
  <2>2. w.view[q] = r.view_number
    BY AtIs
  <2>3. r.view_number = s.view_number
    BY <1>9, <2>1, <2>2
  <2>4. Left(w, q, r) /\ IsPrimary(r)
    BY <1>1, <1>2, <1>3, <2>3 DEF Stands, IsPrimary
  <2> QED
    BY <2>3, <2>4 DEF Left
<1>12. /\ Carried(w, q, r.last_normal_view, Value(r), r.op_number)
       /\ \A v \in Nat : w.ack[v][q] > 0 => v <= r.last_normal_view
  BY AtCarries
<1>13. Left(w, q, s)
  BY <1>3, <1>8, <1>11, <1>12 DEF Left
<1>14. Stands(w, q, s)
  BY <1>3, <1>9, <1>10, <1>12, <1>13 DEF Stands
<1>15. Succeeds(r, s)
  <2>1. s.view_number = r.view_number => r.status = "ViewChange"
    BY <1>1, <1>9 DEF Ready, ReplicaOK, Placed, Status
  <2> QED
    BY <1>1, <1>3, <1>8, <1>9, <2>1 DEF Succeeds, NumbersOK
<1>16. Marked(s, d)
  BY <1>1, <1>3, <1>5, MarkedStays DEF NumbersOK
<1>17. ReceivedInv(w, q, s)
  <2>1. VotesInv(w, q, s) /\ FetchInv(w, q, s) /\ ResponsesInv(w, q, s)
    BY DEF VotesInv, FetchInv, ResponsesInv, Cleared, NoFetch
  <2>2. CatchingInv(w, s)
    BY <1>3 DEF CatchingInv, IsPrimary
  <2> QED
    BY <2>1, <2>2 DEF ReceivedInv
<1>18. Out(s) = Out(r)
  BY <1>3 DEF Out
<1> QED
  BY <1>3, <1>4, <1>5, <1>6, <1>14, <1>15, <1>16, <1>17, <1>18, Moves

\* A StartViewChange says nothing of the log.
LEMMA SendStartViewChangeMoves ==
  ASSUME NEW w, NEW q \in ReplicaID, NEW r, NEW d, At(w, q, r, d), DiskOK(d)
  PROVE  GoesOn(w, q, SendStartViewChange(r), d)
<1> DEFINE m == [type |-> "StartViewChange", view_number |-> r.view_number, replica_id |-> r.id]
<1>1. SendStartViewChange(r) = SendTo(r, Others(r.id), m)
  BY DEF SendStartViewChange, SendToOthers
<1>2. NumbersOK(r)
  BY AtHolds
<1>3. r.id = q
  BY AtId
<1>4. MessageOK(m)
  BY <1>2, <1>3 DEF MessageOK, EarlyTypes, Votes, NumbersOK
<1>5. Signed(r, m)
  BY <1>2 DEF Signed, IsPromise, Signer, KeepsNow, Keeps, NumbersOK
<1>6. \A x \in Others(r.id) : x \in ReplicaID /\ MessageInv(w, x, m)
  BY DEF Others, MessageInv
<1> HIDE DEF m
<1> QED
  BY <1>1, <1>4, <1>5, <1>6, SendMoves

\* start_view_change.
LEMMA StartViewChangeMoves ==
  ASSUME NEW w, NEW q \in ReplicaID, NEW r, NEW d, At(w, q, r, d), DiskOK(d),
         r.status # "Recovering", NEW view \in Nat,
         r.view_number <= view, r.last_normal_view < view
  PROVE  GoesOn(w, q, StartViewChange(r, view), d)
<1> DEFINE s == [ClearViewChangeState(r) EXCEPT !.view_number = view, !.status = "ViewChange"]
<1>1. DOMAIN r = Fields
  BY AtHolds
<1>2. /\ StartViewChange(r, view) = SendStartViewChange(s)
      /\ SameBut(r, s, ClearFields \union {"view_number", "status"})
      /\ s.view_number = view /\ s.status = "ViewChange"
      /\ Cleared(s) /\ s.catching_up = Nobody
  BY <1>1, StartViewChangeIs
<1> HIDE DEF s
<1>3. GoesOn(w, q, s, d)
  BY <1>2, LeaveMoves
<1>4. PICK z : At(z, q, s, d) /\ Later(w, z)
  BY <1>3 DEF GoesOn
<1>5. GoesOn(z, q, SendStartViewChange(s), d)
  BY <1>4, SendStartViewChangeMoves
<1> QED
  BY <1>2, <1>4, <1>5, GoesThrough

\* A replica catches up with a view that started.
LEMMA CatchUpWithViewMoves ==
  ASSUME NEW w, NEW q \in ReplicaID, NEW r, NEW d, At(w, q, r, d), DiskOK(d),
         r.status # "Recovering", NEW view \in w.started,
         r.view_number < view \/ (r.view_number = view /\ r.status = "ViewChange")
  PROVE  GoesOn(w, q, CatchUpWithView(r, view), d)
<1>1. /\ Ready(r) /\ NumbersOK(r) /\ DOMAIN r = Fields /\ HistoryTyped(w) /\ HistoryInv(w) /\ Stands(w, q, r)
  BY AtHolds
<1>2. r.id = q
  BY AtId
<1>3. CASE r.view_number = view /\ r.catching_up = PrimaryOf(view)
  BY <1>3, StaysAt DEF CatchUpWithView
<1>4. CASE ~(r.view_number = view /\ r.catching_up = PrimaryOf(view))
  <2> DEFINE s == [ClearViewChangeState(r) EXCEPT
                     !.view_number = view, !.status = "ViewChange",
                     !.catching_up = PrimaryOf(view)]
             p == PrimaryOf(view)
             m == [type |-> "GetState", replica_id |-> s.id,
                   view_number |-> s.view_number, op_number |-> s.commit_number]
  <2>1. CatchUpWithView(r, view) = Send(s, p, m)
    BY <1>4 DEF CatchUpWithView, SendGetStateTo
  <2>2. /\ SameBut(r, s, ClearFields \union {"view_number", "status"})
        /\ s.view_number = view /\ s.status = "ViewChange" /\ s.catching_up = p /\ Cleared(s)
    BY <1>1 DEF ClearViewChangeState, SameBut, Fields, ClearFields, Cleared
  <2> HIDE DEF s
  <2>3. view \in Nat /\ r.view_number \in Nat /\ r.last_normal_view \in Nat /\ r.last_normal_view <= r.view_number
    BY <1>1 DEF HistoryTyped, NumbersOK
  <2>4. p # q
    <3> SUFFICES ASSUME p = q PROVE FALSE
      OBVIOUS
    <3>1. w.view[q] >= view /\ w.view[q] = r.view_number
      BY <1>1, AtIs DEF HistoryInv
    <3>2. r.view_number = view /\ r.status = "ViewChange" /\ IsPrimary(r)
      BY <1>2, <2>3, <3>1 DEF IsPrimary
    <3>3. Left(w, q, r)
      BY <1>1, <3>2 DEF Ready, Placed, Stands
    <3> QED
      BY <3>2, <3>3 DEF Left
  <2>5. r.last_normal_view < view /\ r.view_number <= view
    BY <1>1, <2>3 DEF Ready, Placed
  <2>6. GoesOn(w, q, s, d)
    BY <2>2, <2>3, <2>4, <2>5, LeaveMoves
  <2>7. PICK z : At(z, q, s, d) /\ Later(w, z)
    BY <2>6 DEF GoesOn
  <2>8. s.id = q
    BY <2>7, AtId
  <2>9. NumbersOK(s)
    BY <2>7, AtHolds
  <2>10. view \in z.started /\ p \in ReplicaID
    BY <2>3, <2>7, PrimaryIsReplica DEF Later
  <2>11. GetStateInv(z, p, m)
    BY <2>2, <2>4, <2>8, <2>10 DEF GetStateInv
  <2>12. MessageOK(m) /\ m.type \in EarlyTypes
    BY <2>8, <2>9 DEF MessageOK, EarlyTypes, NumbersOK
  <2>13. MessageInv(z, p, m)
    BY <2>11 DEF MessageInv
  <2> HIDE DEF m
  <2>14. GoesOn(z, q, Send(s, p, m), d)
    BY <2>7, <2>10, <2>12, <2>13, SendOneMoves
  <2> QED
    BY <2>1, <2>7, <2>14, GoesThrough
<1> QED
  BY <1>3, <1>4

-----------------------------------------------------------------------------
(* Prepare and Commit *)

\* A message of another view is ignored, or the replica catches up with the view.
LEMMA NotAcceptedMoves ==
  ASSUME NEW w, NEW q \in ReplicaID, NEW r, NEW d, At(w, q, r, d), DiskOK(d),
         r.status # "Recovering", NEW view \in w.started
  PROVE  GoesOn(w, q, NotAccepted(r, view), d)
  BY CatchUpWithViewMoves, StaysAt DEF NotAccepted

\* Less is committed than all that is.
LEMMA CommitLess ==
  ASSUME NEW w, HistoryTyped(w), NEW v, NEW k \in Nat, CommitOK(w, v, k), NEW j \in Nat, j <= k
  PROVE  CommitOK(w, v, j)
<1>1. w.known \in Nat
  BY HistoryNumbers
<1> QED
  BY <1>1 DEF CommitOK

\* A replica in its view commits what the view says is committed.
LEMMA CommitInView ==
  ASSUME NEW w, NEW q \in ReplicaID, NEW r, NEW d, At(w, q, r, d), DiskOK(d), InItsView(r),
         NEW k \in Nat, CommitOK(w, r.view_number, k), k <= r.op_number, NEW reply
  PROVE  GoesOn(w, q, CommitUpTo(r, k, reply), d)
<1>1. \A i \in 1 .. k : Decided(w, r.view_number, i, EntryAt(r, i))
  BY ViewDecides
<1> QED
  BY <1>1, CommitMoves

\* on_prepare.
LEMMA OnPrepareMoves ==
  ASSUME NEW w, NEW q \in ReplicaID, NEW r, NEW d, At(w, q, r, d), DiskOK(d),
         r.status # "Recovering", NEW m, MessageOK(m), m.type = "Prepare", MessageInv(w, q, m)
  PROVE  GoesOn(w, q, OnPrepare(r, m), d)
<1> DEFINE s == IF m.op_number = r.op_number + 1 THEN AppendToLog(r, m.entry) ELSE r
           k == Lower(m.commit_number, s.op_number)
           c == CommitUpTo(s, k, FALSE)
<1>1. \/ ~Accepts(r, m.view_number) /\ OnPrepare(r, m) = NotAccepted(r, m.view_number)
      \/ Accepts(r, m.view_number) /\ OnPrepare(r, m) = StateTransfer(r)
      \/ Accepts(r, m.view_number) /\ OnPrepare(r, m) = SendPrepareOk(c)
  BY Zenon DEF OnPrepare
<1>2. /\ m.view_number \in w.started /\ m.op_number \in 1 .. w.len[m.view_number]
      /\ m.entry = w.log[m.view_number][m.op_number]
      /\ CommitOK(w, m.view_number, m.commit_number)
  BY DEF MessageInv, PrepareInv
<1>3. m.commit_number \in Nat /\ m.view_number \in Nat /\ m.op_number \in Nat
  BY DEF MessageOK
<1>4. GoesOn(w, q, NotAccepted(r, m.view_number), d)
  BY <1>2, NotAcceptedMoves
<1>5. ASSUME Accepts(r, m.view_number)
      PROVE  GoesOn(w, q, StateTransfer(r), d)
  BY <1>5, StateTransferMoves DEF Accepts
<1>6. ASSUME Accepts(r, m.view_number)
      PROVE  GoesOn(w, q, SendPrepareOk(c), d)
  <2>1. m.view_number = r.view_number /\ r.status = "Normal" /\ ~IsPrimary(r)
    BY <1>6 DEF Accepts
  <2>2. Ready(r) /\ NumbersOK(r) /\ Whole(r) /\ DOMAIN r = Fields /\ HistoryTyped(w)
    BY AtHolds
  <2>3. GoesOn(w, q, s, d) /\ SameBut(r, s, LogFields)
    <3>1. CASE m.op_number = r.op_number + 1
      <4>1. r.op_number + 1 <= w.len[r.view_number] /\ w.len[r.view_number] \in Nat
        BY <1>2, <1>3, <2>1, <2>2, <3>1, HistoryNumbers DEF NumbersOK
      <4>2. ~Serves(r)
        BY <2>1 DEF Serves
      <4>3. GoesOn(w, q, AppendToLog(r, m.entry), d)
        BY <1>2, <2>1, <3>1, <4>1, <4>2, AppendMoves
      <4> QED
        BY <2>2, <3>1, <4>3, AppendIs
    <3>2. CASE m.op_number # r.op_number + 1
      BY <2>2, <3>2, StaysAt DEF SameBut
    <3> QED
      BY <3>1, <3>2
  <2> HIDE DEF s
  <2>4. s.view_number = r.view_number /\ s.status = "Normal" /\ s.last_normal_view = r.last_normal_view
    BY <2>1, <2>3 DEF SameBut, Fields, LogFields
  <2>5. PICK z : At(z, q, s, d) /\ Later(w, z)
    BY <2>3 DEF GoesOn
  <2>6. Ready(s) /\ NumbersOK(s) /\ HistoryTyped(z)
    BY <2>5, AtHolds
  <2>7. InItsView(s)
    BY <2>4, <2>6 DEF InItsView, Ready, Placed
  <2>8. k \in Nat /\ k <= m.commit_number /\ k <= s.op_number
    BY <1>3, <2>6 DEF Lower, NumbersOK
  <2> HIDE DEF k
  <2>9. CommitOK(z, s.view_number, m.commit_number)
    BY <1>2, <1>3, <2>1, <2>4, <2>5, CommitStays
  <2>10. CommitOK(z, s.view_number, k)
    BY <1>3, <2>6, <2>8, <2>9, CommitLess
  <2>11. GoesOn(z, q, c, d)
    BY <2>5, <2>7, <2>8, <2>10, CommitInView
  <2>12. SameBut(s, c, CommitFields)
    BY <2>6, <2>8, CommitUpToFollows
  <2> HIDE DEF c
  <2>13. InItsView(c)
    BY <2>7, <2>12 DEF InItsView, SameBut, Fields, CommitFields, ApplyFields
  <2>14. PICK y : At(y, q, c, d) /\ Later(z, y)
    BY <2>11 DEF GoesOn
  <2>15. GoesOn(y, q, SendPrepareOk(c), d)
    BY <2>13, <2>14, SendPrepareOkMoves
  <2> QED
    BY <2>5, <2>14, <2>15, GoesThrough
<1> QED
  BY <1>1, <1>4, <1>5, <1>6

\* on_commit.
LEMMA OnCommitMoves ==
  ASSUME NEW w, NEW q \in ReplicaID, NEW r, NEW d, At(w, q, r, d), DiskOK(d),
         r.status # "Recovering", NEW m, MessageOK(m), m.type = "Commit", MessageInv(w, q, m)
  PROVE  GoesOn(w, q, OnCommit(r, m), d)
<1>1. m.view_number \in w.started /\ CommitOK(w, m.view_number, m.commit_number)
  BY DEF MessageInv
<1>2. m.commit_number \in Nat /\ m.view_number \in Nat
  BY DEF MessageOK
<1>3. Ready(r) /\ NumbersOK(r)
  BY AtHolds
<1>4. \/ ~Accepts(r, m.view_number) /\ OnCommit(r, m) = NotAccepted(r, m.view_number)
      \/ Accepts(r, m.view_number) /\ OnCommit(r, m) = StateTransfer(r)
      \/ /\ Accepts(r, m.view_number) /\ ~(m.commit_number > r.op_number)
         /\ OnCommit(r, m) = CommitUpTo(r, m.commit_number, FALSE)
  BY Zenon DEF OnCommit
<1>5. GoesOn(w, q, NotAccepted(r, m.view_number), d)
  BY <1>1, NotAcceptedMoves
<1>6. ASSUME Accepts(r, m.view_number)
      PROVE  GoesOn(w, q, StateTransfer(r), d)
  BY <1>6, StateTransferMoves DEF Accepts
<1>7. ASSUME Accepts(r, m.view_number), ~(m.commit_number > r.op_number)
      PROVE  GoesOn(w, q, CommitUpTo(r, m.commit_number, FALSE), d)
  <2>1. InItsView(r) /\ m.view_number = r.view_number
    BY <1>3, <1>7 DEF Accepts, InItsView, Ready, Placed
  <2>2. m.commit_number <= r.op_number
    BY <1>2, <1>3, <1>7 DEF NumbersOK
  <2> QED
    BY <1>1, <1>2, <2>1, <2>2, CommitInView
<1> QED
  BY <1>4, <1>5, <1>6, <1>7

=============================================================================
