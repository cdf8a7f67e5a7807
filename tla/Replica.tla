------------------------------ MODULE Replica ------------------------------
(***************************************************************************)
(* The replica of src/lib.rs as functions on its state.                    *)
(*                                                                         *)
(* A replica is a record with the fields of struct Replica.  Every method  *)
(* that changes it is an operator from the record, and the method's        *)
(* arguments, to the record it leaves.  Module Cluster makes actions of    *)
(* the handlers.                                                           *)
(*                                                                         *)
(* The log is a function from op numbers.  The state machine is the        *)
(* history of entries it executed, sm, from which the client table         *)
(* follows; the result of a request is the op number that executed it, so  *)
(* two executions of one request never have the same result.  The answer   *)
(* to a query is the number of ops it reflects.  Timers are left to the    *)
(* caller, who says whether one fired.                                     *)
(***************************************************************************)
EXTENDS Config, Sequences, FiniteSets, FiniteSetsExt

CONSTANTS Client,
          RoundsOut,    \* ROUNDS_OUT
          ChunkCount    \* the chunks a checkpoint comes in

ASSUME ReplicaAssumption ==
  /\ RoundsOut \in Nat \ {0}
  /\ ChunkCount \in Nat \ {0}

Nobody == -1        \* no replica, for catching_up; no checkpoint, for serving

IsPrimary(r) == PrimaryOf(r.view_number) = r.id

-----------------------------------------------------------------------------
(* Log entries, the client table, and replies.                             *)

\* A registration has session 0.  A request says up to which number its client
\* had the replies when it sent it.
Registration(c) == [client |-> c, session |-> 0, number |-> 0, answered |-> 0]
Request(c, s, n, answered) ==
  [client |-> c, session |-> s, number |-> n, answered |-> answered]

Entries == [client : Client, session : Nat, number : Nat, answered : Nat]

\* No ClientRecord.  replies are the results kept, the last that of request
\* number.
NoRecord == [session |-> 0, number |-> 0, op |-> 0, replies |-> <<>>]

\* evict: the session whose latest entry executed earliest goes.
Evict(table) ==
  LET held == {c \in Client : table[c] # NoRecord}
      oldest == CHOOSE c \in held : \A d \in held : table[c].op <= table[d].op
  IN  [table EXCEPT ![oldest] = NoRecord]

\* register
Registered(table, op, c) ==
  IF table[c] # NoRecord THEN table
  ELSE LET full == Cardinality({d \in Client : table[d] # NoRecord}) >= ClientsMax
       IN  [(IF full THEN Evict(table) ELSE table)
              EXCEPT ![c] = [NoRecord EXCEPT !.session = op, !.op = op]]

InSession(table, e) == table[e.client].session = e.session

\* Mutant: the record keeps the number of the request before.
ExecutedForgetsNumber(table, op, e) ==
  IF e.session = 0 THEN Registered(table, op, e.client)
  ELSE IF InSession(table, e) THEN [table EXCEPT ![e.client] = [@ EXCEPT !.op = op]] ELSE table

\* Mutant: only the latest result is kept.
KeptLatest(replies, op, e) == <<op>>

\* The results kept once e has executed as op: those its client had no reply
\* to when it sent e.
Kept(replies, op, e) ==
  LET all == Append(replies, op)
      kept == Lower(Higher(e.number - e.answered, 1), InFlightMax)
  IN  SubSeq(all, Higher(Len(all) - kept, 0) + 1, Len(all))

\* A session's record once its request e has executed as op.
RecordAfter(record, op, e) ==
  [record EXCEPT !.number = e.number, !.op = op, !.replies = Kept(@, op, e)]

\* What executing entry e as op leaves of the client table.
Executed(table, op, e) ==
  IF e.session = 0 THEN Registered(table, op, e.client)
  ELSE IF InSession(table, e) THEN [table EXCEPT ![e.client] = RecordAfter(@, op, e)]
       ELSE table

\* The client table after the first n ops of the history h.
ClientTable(h, n) ==
  LET table[i \in 0 .. n] ==
        IF i = 0 THEN [c \in Client |-> NoRecord]
        ELSE Executed(table[i - 1], i, h[i])
  IN  table[n]

\* The reply to entry e executed as op on the client table.
ReplyTo(table, op, e) ==
  CASE e.session = 0 ->
         [type |-> "Registered", client |-> e.client, number |-> 0, result |-> 0,
          session |-> Registered(table, op, e.client)[e.client].session]
    [] e.session # 0 /\ InSession(table, e) ->
         [type |-> "Executed", client |-> e.client, session |-> e.session,
          number |-> e.number, result |-> op]
    [] OTHER ->
         [type |-> "Evicted", client |-> e.client, session |-> e.session,
          number |-> 0, result |-> 0]

\* The assertion of execute: a session skips no request.
InOrder(table, e) ==
  e.session # 0 /\ InSession(table, e) => table[e.client].number + 1 = e.number

NoPending == [session |-> 0, number |-> 0]

\* ClientState::pending of client c: the last entry of c in the log that has
\* not executed, as its session and request number.  append_to_log and
\* rebuild_pending set it, execute clears it.
Pending(r, c) ==
  LET waiting == {i \in r.applied + 1 .. r.op_number : r.log[i].client = c}
      last == Max(waiting)
  IN  IF waiting = {} THEN NoPending
      ELSE [session |-> IF r.log[last].session = 0 THEN last ELSE r.log[last].session,
            number |-> r.log[last].number]

-----------------------------------------------------------------------------
(* The replica's state.                                                    *)

NoEntries == [i \in {} |-> 0]

\* No write is out.
NoWrite == [out |-> FALSE]

NoFetch == [on |-> FALSE]

\* Replica::new
New(id) ==
  [id |-> id, status |-> "Normal", view_number |-> 0, last_normal_view |-> 0,
   commit_number |-> 0, applied |-> 0, sm |-> NoEntries, reply_ops |-> {},
   log_start |-> 0, op_number |-> 0, log |-> NoEntries, log_changed_from |-> 0,
   written |-> [is |-> FALSE], outstanding |-> NoWrite, durable |-> 0,
   acked |-> [q \in ReplicaID |-> 0],
   view_start_op |-> 0, queries |-> <<>>, round |-> 0, round_confirmed |-> 0,
   confirmed |-> [q \in ReplicaID |-> 0], round_unsent |-> FALSE,
   start_view_change_from |-> {}, do_view_change_sent |-> FALSE,
   do_view_change_from |-> {}, catching_up |-> Nobody,
   serving |-> Nobody, fetch |-> NoFetch,
   recovery_nonce |-> 0, recovery_responses |-> {},
   early |-> {}, outbox |-> {}, outbox_waiting |-> {}, outbox_ready |-> {},
   replies |-> {},
   ok |-> TRUE]   \* no assertion has failed

Fail(r) == [r EXCEPT !.ok = FALSE]

\* send: what promises nothing about the disk need not wait for a write.
EarlyTypes ==
  {"Prepare", "Commit", "ConfirmView", "ConfirmViewOk",
   "GetState", "NewState", "GetChunk", "NewChunk"}

Send(r, to, m) ==
  IF m.type \in EarlyTypes THEN [r EXCEPT !.early = @ \union {<<to, m>>}]
                           ELSE [r EXCEPT !.outbox = @ \union {<<to, m>>}]

SendTo(r, S, m) ==
  IF m.type \in EarlyTypes THEN [r EXCEPT !.early = @ \union (S \X {m})]
                           ELSE [r EXCEPT !.outbox = @ \union (S \X {m})]

SendToOthers(r, m) == SendTo(r, Others(r.id), m)

\* send_prepare_ok: drops one for this view that still waits in the outbox.
SendPrepareOk(r) ==
  LET superseded == {e \in r.outbox : /\ e[1] = PrimaryOf(r.view_number)
                                      /\ e[2].type = "PrepareOk"
                                      /\ e[2].view_number = r.view_number}
  IN  Send([r EXCEPT !.outbox = @ \ superseded], PrimaryOf(r.view_number),
           [type |-> "PrepareOk", view_number |-> r.view_number,
            op_number |-> r.op_number, replica_id |-> r.id])

SendGetStateTo(r, to, op) ==
  Send(r, to, [type |-> "GetState", replica_id |-> r.id,
               view_number |-> r.view_number, op_number |-> op])

-----------------------------------------------------------------------------
(* The log and the commit number.                                          *)

MarkLogChanged(r, op) ==
  [r EXCEPT !.log_changed_from = IF @ = 0 THEN op ELSE Lower(@, op)]

\* durable_op
DurableOp(r) ==
  IF r.log_changed_from = 0 THEN r.durable
  ELSE Lower(r.durable, r.log_changed_from - 1)

AppendToLog(r, entry) ==
  LET op == r.op_number + 1
  IN  [MarkLogChanged(r, op) EXCEPT
         !.op_number = op,
         !.log = [i \in r.log_start + 1 .. op |-> IF i = op THEN entry ELSE r.log[i]]]

\* Mutant: the log keeps the entries it has and takes those it lacks.
MergeLogKeepsOwn(r, segment) ==
  LET end == Higher(r.op_number, segment.end)
  IN  MarkLogChanged(
        [r EXCEPT !.op_number = end,
                  !.log = [i \in r.log_start + 1 .. end |->
                             IF i <= r.op_number THEN r.log[i] ELSE segment.entries[i]]],
        r.op_number + 1)

\* merge_log: the entries of the segment replace the log after its start, and
\* nothing committed.
MergeLog(r, segment) ==
  LET keep == Higher(segment.start, r.commit_number)
      end == Higher(keep, segment.end)
  IN  IF keep > r.op_number THEN Fail(r)
      ELSE MarkLogChanged(
             [r EXCEPT !.op_number = end,
                       !.log = [i \in r.log_start + 1 .. end |->
                                  IF i <= keep THEN r.log[i] ELSE segment.entries[i]]],
             keep + 1)

Serves(r) == IsPrimary(r) /\ r.status = "Normal"

\* Mutant: a query does not wait for the ops committed before it.
MayGoUnapplied(r, q) == q.round <= r.round_confirmed

\* Whether a waiting query may execute.
MayGo(r, q) == q.round <= r.round_confirmed /\ q.op_number <= r.applied

\* execute_queries
ExecuteQueries(r) ==
  LET ready == {k \in 0 .. Len(r.queries) : \A i \in 1 .. k : MayGo(r, r.queries[i])}
      last == Max(ready)
  IN  IF ~Serves(r) THEN r
      ELSE [r EXCEPT
              !.queries = SubSeq(@, last + 1, Len(@)),
              !.replies = @ \union {[type |-> "Queried", client |-> r.queries[i].client,
                                     session |-> 0, number |-> r.queries[i].number,
                                     result |-> r.applied] : i \in 1 .. last}]

\* apply_committed up to op, and execute for each entry.
ApplyCommitted(r, op) ==
  LET upto == Higher(r.applied, Lower(r.commit_number, op))
      ran == r.applied + 1 .. upto
      sm == [i \in 1 .. upto |-> IF i <= r.applied THEN r.sm[i] ELSE r.log[i]]
  IN  IF ~ (ran \subseteq r.log_start + 1 .. r.op_number) THEN Fail(r)
      ELSE ExecuteQueries(
             [r EXCEPT
                !.applied = upto,
                !.sm = sm,
                !.replies = @ \union {ReplyTo(ClientTable(sm, i - 1), i, sm[i]) :
                                        i \in ran \intersect r.reply_ops},
                !.reply_ops = @ \ (1 .. upto),
                !.ok = @ /\ \A i \in ran : InOrder(ClientTable(sm, i - 1), sm[i])])

\* Mutant: what commits executes before it is durable.
CommitUpToAtOnce(r, commit, reply) ==
  IF commit <= r.commit_number THEN r
  ELSE ApplyCommitted(
         [r EXCEPT !.commit_number = commit,
                   !.reply_ops = @ \union IF reply THEN r.commit_number + 1 .. commit ELSE {}],
         r.op_number)

\* commit_up_to; reply is set for the ops this replica commits as the primary.
CommitUpTo(r, commit, reply) ==
  IF commit <= r.commit_number THEN r
  ELSE ApplyCommitted(
         [r EXCEPT !.commit_number = commit,
                   !.reply_ops = @ \union IF reply THEN r.commit_number + 1 .. commit ELSE {}],
         DurableOp(r))

\* The entries after op, with the checkpoint they follow if checkpoint is set.
Segment(r, op, checkpoint) ==
  [checkpoint |-> checkpoint, start |-> op, end |-> r.op_number,
   entries |-> [i \in op + 1 .. r.op_number |-> r.log[i]]]

WholeLog(r) == Segment(r, r.log_start, FALSE)

\* keep_checkpoint: the state machine keeps a checkpoint at op.
KeepCheckpoint(r, op) ==
  IF r.serving # Nobody THEN r
  ELSE IF op \in r.log_start .. r.applied THEN [r EXCEPT !.serving = op] ELSE Fail(r)

\* segment_from needs a checkpoint: the entries after op are compacted.
NeedsCheckpoint(r, op) == op < r.log_start

\* What a segment received does to a log whose first upto ops are settled: it
\* is merged, waits for the checkpoint it follows, or is of no use.
Installs(segment, upto) ==
  CASE segment.checkpoint /\ segment.start > upto -> "Checkpoint"
    [] ~segment.checkpoint /\ segment.start > upto -> "Nothing"
    [] OTHER -> "Log"

\* install_segment_in_view, whose result is also Nothing for a segment that
\* reaches no further than the log.
InstallsInView(r, segment) ==
  IF segment.end <= r.op_number THEN "Nothing" ELSE Installs(segment, r.op_number)

\* install_segment_from_commit
InstallsFromCommit(r, segment) == Installs(segment, r.commit_number)

-----------------------------------------------------------------------------
(* View changes.                                                           *)

ClearViewChangeState(r) ==
  [r EXCEPT !.start_view_change_from = {}, !.do_view_change_sent = FALSE,
            !.do_view_change_from = {}, !.catching_up = Nobody, !.fetch = NoFetch,
            !.queries = <<>>, !.round = 0, !.round_confirmed = 0,
            !.confirmed = [q \in ReplicaID |-> 0], !.round_unsent = FALSE]

EnterNormal(r) ==
  ClearViewChangeState(
    [r EXCEPT !.status = "Normal", !.last_normal_view = r.view_number,
              !.acked = [q \in ReplicaID |-> 0], !.view_start_op = r.op_number])

SendStartView(r, S) ==
  SendTo(r, S, [type |-> "StartView", view_number |-> r.view_number,
                segment |-> WholeLog(r), commit_number |-> r.commit_number])

\* catch_up_with_view
CatchUpWithView(r, view) ==
  IF r.view_number = view /\ r.catching_up = PrimaryOf(view) THEN r
  ELSE LET s == [ClearViewChangeState(r) EXCEPT
                   !.view_number = view, !.status = "ViewChange",
                   !.catching_up = PrimaryOf(view)]
       IN  SendGetStateTo(s, PrimaryOf(view), s.commit_number)

\* Mutant: the first DoViewChange, whatever it holds.
BestIsFirst(dvcs) == CHOOSE d \in dvcs : \A e \in dvcs : d.replica_id <= e.replica_id

\* The DoViewChange whose log the view starts with: the latest normal view,
\* then the longest log, then the highest replica id.
Best(dvcs) ==
  CHOOSE d \in dvcs : \A e \in dvcs :
    \/ d.last_normal_view > e.last_normal_view
    \/ /\ d.last_normal_view = e.last_normal_view
       /\ \/ d.segment.end > e.segment.end
          \/ d.segment.end = e.segment.end /\ d.replica_id >= e.replica_id

\* try_start_view
TryStartView(r) ==
  LET best == Best(r.do_view_change_from)
      merged == MergeLog(r, best.segment)
      commit == Max({d.commit_number : d \in r.do_view_change_from})
      started == EnterNormal(CommitUpTo(merged, commit, TRUE))
  IN  IF InstallsFromCommit(r, best.segment) # "Log"
      THEN SendGetStateTo([r EXCEPT !.catching_up = best.replica_id],
                          best.replica_id, r.commit_number)
      ELSE IF ~merged.ok THEN merged
      ELSE SendStartView(started, Others(r.id))

\* record_do_view_change
RecordDoViewChange(r, dvc) ==
  LET s == [r EXCEPT !.do_view_change_from =
              {d \in @ : d.replica_id # dvc.replica_id} \union {dvc}]
  IN  IF Cardinality(s.do_view_change_from) < Quorum THEN s ELSE TryStartView(s)

\* send_do_view_change
SendDoViewChange(r) ==
  LET dvc == [replica_id |-> r.id, last_normal_view |-> r.last_normal_view,
              segment |-> WholeLog(r), commit_number |-> r.commit_number]
  IN  IF IsPrimary(r) THEN RecordDoViewChange(r, dvc)
      ELSE Send(r, PrimaryOf(r.view_number),
                [type |-> "DoViewChange", view_number |-> r.view_number, dvc |-> dvc])

\* maybe_send_do_view_change
MaybeSendDoViewChange(r) ==
  IF \/ r.status # "ViewChange" \/ r.catching_up # Nobody \/ r.do_view_change_sent
     \/ Cardinality(r.start_view_change_from) < N \div 2
  THEN r
  ELSE SendDoViewChange([r EXCEPT !.do_view_change_sent = TRUE])

SendStartViewChange(r) ==
  SendToOthers(r, [type |-> "StartViewChange", view_number |-> r.view_number,
                   replica_id |-> r.id])

\* start_view_change
StartViewChange(r, view) ==
  MaybeSendDoViewChange(SendStartViewChange(
    [ClearViewChangeState(r) EXCEPT !.view_number = view, !.status = "ViewChange"]))

-----------------------------------------------------------------------------
(* Normal operation.                                                       *)

\* prepare
Prepare(r, entry) ==
  LET s == AppendToLog(r, entry)
  IN  SendToOthers(s, [type |-> "Prepare", view_number |-> s.view_number,
                       op_number |-> s.op_number, entry |-> entry,
                       commit_number |-> s.commit_number])

OnRegister(r, c) ==
  LET record == ClientTable(r.sm, r.applied)[c]
      pending == Pending(r, c)
  IN  CASE ~Serves(r) -> r
        [] Serves(r) /\ record # NoRecord ->
             [r EXCEPT !.replies = @ \union
                {[type |-> "Registered", client |-> c, session |-> record.session,
                  number |-> 0, result |-> 0]}]
        [] Serves(r) /\ record = NoRecord /\ pending # NoPending /\ pending.number = 0 -> r
        [] OTHER -> Prepare(r, Registration(c))

OnRequest(r, c, session, number, answered) ==
  LET record == ClientTable(r.sm, r.applied)[c]
      pending == Pending(r, c)
      latest == IF pending # NoPending /\ pending.session = session
                THEN pending.number ELSE record.number
      place == Len(record.replies) - (record.number - number)
  IN  CASE ~Serves(r) -> r
        [] Serves(r) /\ record.session # session ->
             \* The session was evicted, unless its registration is still to
             \* execute here.
             IF session > r.applied THEN r
             ELSE [r EXCEPT !.replies = @ \union
                     {[type |-> "Evicted", client |-> c, session |-> session,
                       number |-> 0, result |-> 0]}]
        [] Serves(r) /\ record.session = session /\ number <= record.number ->
             \* A re-send, answered while the table keeps its result.
             IF place < 1 THEN r
             ELSE [r EXCEPT !.replies = @ \union
                     {[type |-> "Executed", client |-> c, session |-> session,
                       number |-> number, result |-> record.replies[place]]}]
        [] OTHER ->
             IF \/ pending # NoPending /\ pending.session > session
                \/ number # latest + 1
                \/ number > record.number + InFlightMax
             THEN r ELSE Prepare(r, Request(c, session, number, answered))

-----------------------------------------------------------------------------
(* Queries.                                                                *)

\* start_round
StartRound(r) ==
  SendToOthers([r EXCEPT !.round = @ + 1, !.round_unsent = TRUE,
                         !.confirmed = [@ EXCEPT ![r.id] = r.round + 1]],
               [type |-> "ConfirmView", view_number |-> r.view_number, round |-> r.round + 1])

\* Mutant: a query joins the last round, though its ConfirmView has left.
RoundForJoinsSent(r) == IF r.round > r.round_confirmed THEN r.round ELSE r.round + 1

\* The round a query that arrives waits for: one whose ConfirmView has not left.
RoundFor(r) == IF r.round_unsent THEN r.round ELSE r.round + 1

\* on_query; a query that waits already is not queued again.
OnQuery(r, c, number) ==
  LET round == RoundFor(r)
      starts == round > r.round /\ r.round - r.round_confirmed < RoundsOut
      query == [client |-> c, number |-> number, round |-> round,
                op_number |-> Higher(r.commit_number, r.view_start_op)]
  IN  IF \/ ~Serves(r)
         \/ \E i \in DOMAIN r.queries : r.queries[i].client = c /\ r.queries[i].number = number
      THEN r
      ELSE [(IF starts THEN StartRound(r) ELSE r) EXCEPT !.queries = Append(@, query)]

\* on_confirm_view
OnConfirmView(r, m) ==
  IF m.view_number # r.view_number \/ IsPrimary(r) THEN r
  ELSE Send(r, PrimaryOf(r.view_number),
            [type |-> "ConfirmViewOk", view_number |-> m.view_number, round |-> m.round,
             replica_id |-> r.id])

\* on_confirm_view_ok: the last round a quorum has confirmed counts, and makes
\* room for the round that queries wait for.
OnConfirmViewOk(r, m) ==
  LET confirmed == [r.confirmed EXCEPT ![m.replica_id] = m.round]
      reached == Max({0} \union
                     {n \in {confirmed[q] : q \in ReplicaID} :
                        Cardinality({q \in ReplicaID : confirmed[q] >= n}) >= Quorum})
      s == [r EXCEPT !.confirmed = confirmed]
      t == [s EXCEPT !.round_confirmed = reached]
      more == t.queries # <<>> /\ t.queries[Len(t.queries)].round > t.round
  IN  CASE \/ m.view_number # r.view_number \/ ~Serves(r)
           \/ m.round > r.round \/ m.round <= r.confirmed[m.replica_id] -> r
        [] OTHER -> IF reached <= r.round_confirmed THEN s
                    ELSE ExecuteQueries(IF more THEN StartRound(t) ELSE t)

-----------------------------------------------------------------------------
(* Prepare, PrepareOk and Commit.                                          *)

\* state_transfer
StateTransfer(r) ==
  SendGetStateTo([r EXCEPT !.status = "StateTransfer"], PrimaryOf(r.view_number), r.op_number)

\* accept_from_primary: whether the message is for a backup in normal status,
\* and what the replica does about one that is not.
Accepts(r, view) ==
  view = r.view_number /\ r.status = "Normal" /\ ~IsPrimary(r)

\* Mutant: a replica catches up with any view but its own.
NotAcceptedCatchesUpBack(r, view) ==
  IF view # r.view_number \/ r.status = "ViewChange" THEN CatchUpWithView(r, view) ELSE r

NotAccepted(r, view) ==
  IF view > r.view_number \/ (view = r.view_number /\ r.status = "ViewChange")
  THEN CatchUpWithView(r, view) ELSE r

OnPrepare(r, m) ==
  LET s == IF m.op_number = r.op_number + 1 THEN AppendToLog(r, m.entry) ELSE r
  IN  CASE ~Accepts(r, m.view_number) -> NotAccepted(r, m.view_number)
        [] Accepts(r, m.view_number) /\ m.op_number > r.op_number + 1 -> StateTransfer(r)
        [] OTHER -> SendPrepareOk(CommitUpTo(s, Lower(m.commit_number, s.op_number), FALSE))

\* Mutant: the highest mark commits, however few reach it.
RegisterAckHighest(r, id, op) ==
  LET mark == Lower(op, r.op_number)
  IN  IF mark <= r.acked[id] THEN r
      ELSE CommitUpTo([r EXCEPT !.acked = [@ EXCEPT ![id] = mark]], mark, TRUE)

\* register_ack: commits up to the highest op a quorum of marks reach.
RegisterAck(r, id, op) ==
  LET mark == Lower(op, r.op_number)
      acked == [r.acked EXCEPT ![id] = mark]
      reached == {a \in {acked[q] : q \in ReplicaID} :
                    Cardinality({q \in ReplicaID : acked[q] >= a}) >= Quorum}
  IN  IF mark <= r.acked[id] THEN r
      ELSE CommitUpTo([r EXCEPT !.acked = acked], Max(reached \union {0}), TRUE)

OnPrepareOk(r, m) ==
  IF m.view_number # r.view_number \/ ~Serves(r) THEN r
  ELSE RegisterAck(r, m.replica_id, m.op_number)

OnCommit(r, m) ==
  CASE ~Accepts(r, m.view_number) -> NotAccepted(r, m.view_number)
    [] Accepts(r, m.view_number) /\ m.commit_number > r.op_number -> StateTransfer(r)
    [] OTHER -> CommitUpTo(r, m.commit_number, FALSE)

-----------------------------------------------------------------------------
(* State transfer and checkpoints.                                         *)

\* on_get_state; the state machine's checkpoint, if one is needed, is at ck.
OnGetState(r, m, ck) ==
  LET settled == \/ r.status = "Normal"
                 \/ r.status = "ViewChange" /\ r.do_view_change_sent /\ r.catching_up = Nobody
      s == IF NeedsCheckpoint(r, m.op_number) THEN KeepCheckpoint(r, ck) ELSE r
      segment == IF NeedsCheckpoint(r, m.op_number) THEN Segment(s, s.serving, TRUE)
                 ELSE Segment(r, m.op_number, FALSE)
  IN  IF m.view_number # r.view_number \/ m.op_number > r.op_number \/ ~settled THEN r
      ELSE IF ~s.ok THEN s
      ELSE Send(s, m.replica_id, [type |-> "NewState", replica_id |-> r.id,
                                  view_number |-> r.view_number, segment |-> segment,
                                  commit_number |-> r.commit_number])

\* send_get_chunk
SendGetChunk(r) ==
  Send(r, r.fetch.from, [type |-> "GetChunk", replica_id |-> r.id,
                         op_number |-> r.fetch.then.segment.start,
                         index |-> r.fetch.index])

\* start_fetch of the checkpoint the segment of then follows.
StartFetch(r, from, then) ==
  LET op == then.segment.start
      same == r.fetch.on /\ r.fetch.from = from /\ r.fetch.then.segment.start = op
      goes_on == r.fetch.on /\ ~same /\ r.fetch.then.segment.start > op /\ ~r.fetch.stalled
  IN  CASE same /\ r.fetch.stalled ->
             SendGetChunk([r EXCEPT !.fetch = [@ EXCEPT !.then = then, !.stalled = FALSE]])
        [] same /\ ~r.fetch.stalled -> [r EXCEPT !.fetch = [@ EXCEPT !.then = then]]
        [] goes_on -> r
        [] OTHER -> SendGetChunk([r EXCEPT !.fetch =
                      [on |-> TRUE, from |-> from, index |-> 0, stalled |-> FALSE,
                       then |-> then]])

\* new_state_installed
NewStateInstalled(r, commit) ==
  LET s == [r EXCEPT !.fetch = NoFetch]
      c == [s EXCEPT !.catching_up = Nobody]
  IN  CASE r.status = "StateTransfer" ->
             SendPrepareOk([CommitUpTo(s, commit, FALSE) EXCEPT !.status = "Normal"])
        [] r.status = "ViewChange" ->
             IF IsPrimary(r) /\ Cardinality(r.do_view_change_from) >= Quorum
             THEN TryStartView(c)
             ELSE SendPrepareOk(EnterNormal(CommitUpTo(c, commit, FALSE)))
        [] OTHER -> Fail(r)

OnNewState(r, m) ==
  LET waits == \/ r.status = "StateTransfer"
               \/ r.status = "ViewChange" /\ r.catching_up # Nobody
      installs == IF r.status = "StateTransfer" THEN InstallsInView(r, m.segment)
                  ELSE InstallsFromCommit(r, m.segment)
      merged == MergeLog(r, m.segment)
      then == [type |-> "NewState", view_number |-> m.view_number,
               segment |-> m.segment, commit_number |-> m.commit_number]
  IN  CASE m.view_number # r.view_number \/ ~waits -> r
        [] OTHER ->
             CASE installs = "Nothing" -> r
               [] installs = "Checkpoint" -> StartFetch(r, m.replica_id, then)
               [] installs = "Log" ->
                    IF merged.ok THEN NewStateInstalled(merged, m.commit_number) ELSE merged

\* on_get_chunk: each chunk carries the whole checkpoint, and the last one is
\* what restore takes.
OnGetChunk(r, m) ==
  IF r.serving = Nobody \/ r.serving # m.op_number THEN r
  ELSE Send(r, m.replica_id,
            [type |-> "NewChunk", replica_id |-> r.id, op_number |-> m.op_number,
             index |-> m.index, last |-> m.index = ChunkCount - 1,
             chunk |-> [i \in 1 .. m.op_number |-> r.sm[i]]])

\* Mutant: the ops executed are not counted anew.
RestoreCheckpointForgetsApplied(r, op, chunk) ==
  MarkLogChanged(
    [r EXCEPT !.serving = Nobody, !.commit_number = op, !.reply_ops = {}, !.log_start = op,
              !.op_number = op, !.log = NoEntries],
    op + 1)

\* restore_checkpoint: the history becomes the checkpoint's.
RestoreCheckpoint(r, op, chunk) ==
  IF op <= r.commit_number THEN Fail(r)
  ELSE MarkLogChanged(
         [r EXCEPT !.serving = Nobody, !.commit_number = op, !.applied = op,
                   !.sm = chunk, !.reply_ops = {}, !.log_start = op,
                   !.op_number = op, !.log = NoEntries],
         op + 1)

\* recover_into
RecoverInto(r, view, state) ==
  LET installs == InstallsFromCommit(r, state.segment)
      merged == MergeLog(r, state.segment)
      then == [type |-> "RecoveryResponse", view_number |-> view,
               segment |-> state.segment, commit_number |-> state.commit_number]
  IN  CASE installs = "Nothing" -> Fail(r)
        [] installs = "Checkpoint" -> StartFetch(r, PrimaryOf(view), then)
        [] installs = "Log" ->
             IF ~merged.ok THEN merged
             ELSE EnterNormal(CommitUpTo([merged EXCEPT !.view_number = view],
                                         state.commit_number, FALSE))

OnNewChunk(r, m) ==
  LET then == r.fetch.then
      restored == RestoreCheckpoint([r EXCEPT !.fetch = NoFetch], m.op_number, m.chunk)
  IN  IF ~r.fetch.on \/ r.fetch.from # m.replica_id \/ r.fetch.index # m.index
         \/ then.segment.start # m.op_number
      THEN r
      ELSE CASE ~m.last ->
                  SendGetChunk([r EXCEPT !.fetch = [@ EXCEPT !.index = m.index + 1, !.stalled = FALSE]])
             [] m.last /\ m.op_number <= r.commit_number -> [r EXCEPT !.fetch = NoFetch]
             [] OTHER ->
                  IF then.type = "RecoveryResponse"
                  THEN RecoverInto(restored, then.view_number, then)
                  ELSE IF then.view_number # r.view_number THEN restored
                  ELSE NewStateInstalled(MergeLog(restored, then.segment), then.commit_number)

-----------------------------------------------------------------------------
(* View change and recovery messages.                                      *)

OnStartViewChange(r, m) ==
  LET s == IF m.view_number > r.view_number THEN StartViewChange(r, m.view_number) ELSE r
  IN  CASE m.view_number < r.view_number -> r
        [] m.view_number = r.view_number /\ r.status # "ViewChange" ->
             IF Serves(r) THEN SendStartView(r, {m.replica_id}) ELSE r
        [] OTHER -> MaybeSendDoViewChange(
                      [s EXCEPT !.start_view_change_from = @ \union {m.replica_id}])

OnDoViewChange(r, m) ==
  LET s == IF m.view_number > r.view_number THEN StartViewChange(r, m.view_number) ELSE r
  IN  CASE m.view_number < r.view_number \/ PrimaryOf(m.view_number) # r.id -> r
        [] m.view_number = r.view_number /\ IsPrimary(r) /\ r.status = "Normal" ->
             SendStartView(r, {m.dvc.replica_id})
        [] OTHER -> RecordDoViewChange(s, m.dvc)

OnStartView(r, m) ==
  LET merged == MergeLog(r, m.segment)
  IN  CASE \/ m.view_number < r.view_number
           \/ m.view_number = r.view_number /\ r.status # "ViewChange" -> r
        [] OTHER ->
             IF InstallsFromCommit(r, m.segment) # "Log" THEN CatchUpWithView(r, m.view_number)
             ELSE IF ~merged.ok THEN merged
             ELSE SendPrepareOk(EnterNormal(
                    CommitUpTo([merged EXCEPT !.view_number = m.view_number],
                               m.commit_number, FALSE)))

NoState == [is |-> FALSE]

\* on_recovery; the checkpoint is as in on_get_state.
OnRecovery(r, m, ck) ==
  LET s == IF IsPrimary(r) /\ NeedsCheckpoint(r, 0) THEN KeepCheckpoint(r, ck) ELSE r
      segment == IF NeedsCheckpoint(r, 0) THEN Segment(s, s.serving, TRUE)
                 ELSE Segment(r, 0, FALSE)
      state == [is |-> TRUE, segment |-> segment, commit_number |-> r.commit_number]
  IN  CASE m.view_number > r.view_number -> StartViewChange(r, m.view_number)
        [] m.view_number <= r.view_number /\ r.status # "Normal" -> r
        [] OTHER ->
             IF ~s.ok THEN s
             ELSE Send(s, m.replica_id,
                       [type |-> "RecoveryResponse", view_number |-> r.view_number,
                        nonce |-> m.nonce, replica_id |-> r.id,
                        state |-> IF IsPrimary(r) THEN state ELSE NoState])

\* on_recovery_response: the response of the latest view's primary counts once
\* a quorum has answered and that view is not before the one persisted.
OnRecoveryResponse(r, m) ==
  LET response == [replica_id |-> m.replica_id, view_number |-> m.view_number,
                   state |-> m.state]
      s == [r EXCEPT !.recovery_responses =
              {q \in @ : q.replica_id # m.replica_id} \union {response}]
      latest == Max({q.view_number : q \in s.recovery_responses})
      primary == {q \in s.recovery_responses : /\ q.replica_id = PrimaryOf(latest)
                                               /\ q.view_number = latest
                                               /\ q.state.is}
  IN  CASE r.status # "Recovering" \/ m.nonce # r.recovery_nonce -> r
        [] OTHER ->
             IF \/ Cardinality(s.recovery_responses) < Quorum
                \/ latest < r.view_number
                \/ primary = {}
             THEN s
             ELSE RecoverInto([s EXCEPT !.recovery_responses = {}], latest,
                              (CHOOSE q \in primary : TRUE).state)

\* send_recovery
SendRecovery(r) ==
  LET answered == {q.replica_id : q \in r.recovery_responses}
      asked == IF Cardinality(answered) >= Quorum THEN Others(r.id)
               ELSE Others(r.id) \ answered
  IN  SendTo(r, asked, [type |-> "Recovery", replica_id |-> r.id,
                        nonce |-> r.recovery_nonce, view_number |-> r.view_number])

-----------------------------------------------------------------------------
(* Idle periods.  The caller says what the timers do.                      *)

\* serve_on_idle
ServeOnIdle(r, release) == IF release THEN [r EXCEPT !.serving = Nobody] ELSE r

\* fetch_on_idle: a fetch under way asks for its chunk again, or stalls and
\* lets the replica ask for state again.  It asks again in its first idle
\* period too, when the code waits for the request it has just sent.
FetchOnIdle(r, stall) ==
  IF stall THEN [r EXCEPT !.fetch = [@ EXCEPT !.stalled = TRUE]] ELSE SendGetChunk(r)

Fetching(r) == r.fetch.on /\ ~r.fetch.stalled

\* Mutant: the primary sends no Commit.
IdlePrimarySilent(r, due) ==
  IF due = 0 THEN r
  ELSE SendTo(r, {q \in Others(r.id) : r.acked[q] < due},
              [type |-> "Prepare", view_number |-> r.view_number, op_number |-> due,
               entry |-> r.log[due], commit_number |-> r.commit_number])

\* The primary's idle period; due is the uncommitted op whose Prepare it sends
\* again, 0 for none.  A round no quorum has confirmed is sent again too.
IdlePrimary(r, due) ==
  LET s == SendToOthers(r, [type |-> "Commit", view_number |-> r.view_number,
                            commit_number |-> r.commit_number])
      t == IF due = 0 THEN s
           ELSE SendTo(s, {q \in Others(r.id) : r.acked[q] < due},
                       [type |-> "Prepare", view_number |-> r.view_number, op_number |-> due,
                        entry |-> r.log[due], commit_number |-> r.commit_number])
  IN  IF r.round <= r.round_confirmed THEN t
      ELSE SendTo(t, {q \in ReplicaID : r.confirmed[q] < r.round},
                  [type |-> "ConfirmView", view_number |-> r.view_number, round |-> r.round])

IdleRecovering(r, stall) ==
  IF Fetching(r) /\ ~stall THEN FetchOnIdle(r, FALSE)
  ELSE SendRecovery(IF Fetching(r) THEN FetchOnIdle(r, TRUE) ELSE r)

\* A backup, in normal status or filling a gap, that may time out.
IdleBackup(r, stall, timeout) ==
  LET s == CASE r.status = "Normal" -> r
             [] r.status = "StateTransfer" /\ Fetching(r) /\ ~stall -> FetchOnIdle(r, FALSE)
             [] OTHER -> StateTransfer(IF Fetching(r) THEN FetchOnIdle(r, TRUE) ELSE r)
  IN  IF timeout THEN StartViewChange(s, r.view_number + 1) ELSE s

\* Mutant: a view change sends nothing again.
IdleViewChangeSilent(r, stall, timeout) ==
  IF timeout THEN StartViewChange(r, r.view_number + 1) ELSE r

IdleViewChange(r, stall, timeout) ==
  LET a == CASE r.catching_up = Nobody -> r
             [] r.catching_up # Nobody /\ Fetching(r) /\ ~stall -> FetchOnIdle(r, FALSE)
             [] OTHER -> SendGetStateTo(IF Fetching(r) THEN FetchOnIdle(r, TRUE) ELSE r,
                                        r.catching_up, r.commit_number)
      b == IF r.catching_up = Nobody \/ r.do_view_change_sent
           THEN SendStartViewChange(a) ELSE a
  IN  CASE timeout -> StartViewChange(r, r.view_number + 1)
        [] ~timeout /\ r.do_view_change_sent /\ r.catching_up = Nobody -> SendDoViewChange(b)
        [] OTHER -> b

\* on_idle
OnIdle(r, timeout, stall, release, due) ==
  LET s == ServeOnIdle(r, release)
  IN  CASE Serves(r) -> IdlePrimary(s, due)
        [] r.status = "Recovering" -> IdleRecovering(s, stall)
        [] r.status = "ViewChange" -> IdleViewChange(s, stall, timeout)
        [] OTHER -> IdleBackup(s, stall, timeout)

-----------------------------------------------------------------------------
(* The owner's side: writes, compaction, restart.                          *)

\* take_write: the write, which stays in outstanding until it is handed back.
TakeWrite(r) ==
  LET from == IF r.log_changed_from = 0 THEN r.op_number + 1
              ELSE Higher(r.log_changed_from, r.log_start + 1)
      written == [is |-> TRUE, view_number |-> r.view_number,
                  last_normal_view |-> r.last_normal_view,
                  recovering |-> r.status = "Recovering", log_start |-> r.log_start]
      write == [out |-> TRUE, view_number |-> r.view_number,
                last_normal_view |-> r.last_normal_view,
                recovering |-> written.recovering, commit_number |-> r.commit_number,
                log_start |-> r.log_start, entries_from |-> from,
                op_number |-> r.op_number,
                entries |-> [i \in from .. r.op_number |-> r.log[i]],
                sync |-> r.log_changed_from # 0 \/ written # r.written]
  IN  IF r.outstanding.out THEN Fail(r)
      ELSE [r EXCEPT !.durable = DurableOp(r), !.log_changed_from = 0,
                     !.written = written, !.outstanding = write,
                     !.outbox = r.outbox_waiting, !.outbox_waiting = r.outbox]

\* Mutant: a write handed back releases what was sent since it was taken.
PersistedReleasesAll(r) ==
  LET a == [r EXCEPT !.outstanding = NoWrite, !.durable = r.outstanding.op_number]
      b == IF Serves(a) /\ r.outstanding.last_normal_view = a.view_number
           THEN RegisterAck(a, a.id, DurableOp(a)) ELSE a
  IN  [ApplyCommitted(b, DurableOp(a)) EXCEPT
         !.outbox_ready = @ \union r.outbox_waiting \union r.outbox,
         !.outbox_waiting = {}, !.outbox = {}]

\* persisted
Persisted(r) ==
  LET a == [r EXCEPT !.outstanding = NoWrite, !.durable = r.outstanding.op_number]
      b == IF Serves(a) /\ r.outstanding.last_normal_view = a.view_number
           THEN RegisterAck(a, a.id, DurableOp(a)) ELSE a
  IN  [ApplyCommitted(b, DurableOp(a)) EXCEPT
         !.outbox_ready = @ \union r.outbox_waiting, !.outbox_waiting = {}]

\* compact up to op
Compact(r, op) ==
  LET upto == Min({op, r.applied} \union IF r.serving = Nobody THEN {} ELSE {r.serving})
  IN  IF upto <= r.log_start THEN r
      ELSE [r EXCEPT !.log_start = upto,
                     !.log = [i \in upto + 1 .. r.op_number |-> r.log[i]]]

\* PersistentState::empty
EmptyState == [view_number |-> 0, last_normal_view |-> 0, commit_number |-> 0,
               log_start |-> 0, op_number |-> 0, log |-> NoEntries,
               recovering |-> FALSE]

\* Mutant: the disk does not say that the replica is recovering.
ApplyWriteForgetsRecovering(d, w) ==
  LET start == Higher(d.log_start, w.log_start)
  IN  [view_number |-> w.view_number, last_normal_view |-> w.last_normal_view,
       commit_number |-> w.commit_number, log_start |-> start,
       op_number |-> w.op_number,
       log |-> [i \in start + 1 .. w.op_number |->
                  IF i < w.entries_from THEN d.log[i] ELSE w.entries[i]],
       recovering |-> FALSE]

\* PersistentState::apply, and the range it asserts.
ApplyWrite(d, w) ==
  LET start == Higher(d.log_start, w.log_start)
  IN  [view_number |-> w.view_number, last_normal_view |-> w.last_normal_view,
       commit_number |-> w.commit_number, log_start |-> start,
       op_number |-> w.op_number,
       log |-> [i \in start + 1 .. w.op_number |->
                  IF i < w.entries_from THEN d.log[i] ELSE w.entries[i]],
       recovering |-> w.recovering]

WriteFits(d, w) ==
  w.entries_from \in Higher(d.log_start, w.log_start) + 1
                     .. Higher(d.op_number, w.log_start) + 1

\* Mutant: recovery starts over in view 0.
RecoverInViewZero(id, view, nonce) ==
  SendRecovery([New(id) EXCEPT !.status = "Recovering", !.recovery_nonce = nonce])

\* Replica::recover
Recover(id, view, nonce) ==
  SendRecovery([New(id) EXCEPT !.status = "Recovering", !.view_number = view,
                               !.recovery_nonce = nonce])

\* The replica restart starts from.
Restarted(id, d, nonce) ==
  IF d.recovering THEN Recover(id, d.view_number, nonce)
  ELSE [New(id) EXCEPT !.view_number = d.view_number,
                       !.last_normal_view = d.last_normal_view, !.recovery_nonce = nonce]

\* Mutant: a primary goes on in its view.
ResumedAsPrimary(r, d) ==
  IF d.last_normal_view < d.view_number THEN StartViewChange(r, d.view_number) ELSE r

\* How a restarted replica goes on: in its view change, in the next view if
\* it was the primary, or in its view.
Resumed(r, d) ==
  CASE d.last_normal_view < d.view_number -> StartViewChange(r, d.view_number)
    [] d.last_normal_view >= d.view_number /\ IsPrimary(r) ->
         StartViewChange(r, d.view_number + 1)
    [] OTHER -> r

\* Replica::restart from the persistent state d and a state machine that
\* executed the history sm of k ops.
Restart(id, d, sm, k, nonce) ==
  LET ahead == d.recovering \/ k > d.commit_number
      start == IF ahead THEN k ELSE d.log_start
      end == IF d.recovering THEN k ELSE IF ahead THEN Higher(k, d.op_number) ELSE d.op_number
      base == Restarted(id, d, nonce)
      loaded == [base EXCEPT
                   !.log_start = start, !.op_number = end,
                   !.log = [i \in start + 1 .. end |-> d.log[i]],
                   !.commit_number = IF ahead THEN k ELSE d.commit_number,
                   !.applied = k, !.sm = sm, !.durable = end,
                   !.written = [is |-> TRUE, view_number |-> d.view_number,
                                last_normal_view |-> d.last_normal_view,
                                recovering |-> d.recovering, log_start |-> d.log_start]]
      ran == ApplyCommitted(loaded, end)
  IN  IF (~d.recovering /\ d.log_start > k) \/ loaded.commit_number > end THEN Fail(base)
      ELSE IF ~ran.ok \/ d.recovering THEN ran ELSE Resumed(ran, d)

=============================================================================
