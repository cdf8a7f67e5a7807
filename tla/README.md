# A verification of vsr-rs

vsr-rs is a Rust library for Viewstamped Replication: a `Replica` and a
`Client` are deterministic state machines that their owner steps with messages
and idle periods, and whose writes the owner makes durable. This directory
holds TLA+ models of the replica, the client and the example node built on them
(`src/examples/kvstore`), the TLC configurations that check them, and TLAPS
proofs about the write path, the agreement and the promises of a cluster's
replicas, the client table, what clients are promised, the journal and the store.

## The system

| Part | State | Operations | What is hard |
|---|---|---|---|
| Log and commit (`src/lib.rs`) | log, log start, commit number, applied, acknowledgement marks | `on_prepare`, `on_prepare_ok`, `on_commit`, `commit_up_to`, `apply_committed` | delayed and duplicated messages; commit before durable |
| Sessions (`src/lib.rs`) | client table, pending entries | `on_register`, `on_request`, `execute`, `register`, `evict` | re-sends across primaries, eviction of a session with a request in the log |
| View changes (`src/lib.rs`) | view, last normal view, votes | `on_start_view_change`, `on_do_view_change`, `on_start_view`, `try_start_view`, `catch_up_with_view` | conflicting logs, late votes, a new primary that needs a checkpoint |
| State transfer and checkpoints (`src/lib.rs`) | fetch, checkpoint served | `on_get_state`, `on_new_state`, `on_get_chunk`, `on_new_chunk`, `compact` | compaction under a fetch, a view that ends during one |
| Recovery (`src/lib.rs`) | nonce, responses | `recover`, `on_recovery`, `on_recovery_response`, `recover_into` | a crash during recovery, answers to an earlier one |
| Write path (`src/lib.rs`) | change mark, durable watermark, write out, three outboxes | `take_write`, `persisted`, `persist`, `restart`, `PersistentState::apply` | steps between taking a write and handing it back, a crash at any point |
| Queries (`src/lib.rs`) | waiting queries, confirmation rounds | `on_query`, `on_confirm_view`, `on_confirm_view_ok`, `execute_queries` | a primary that does not know its view has ended |
| View timer (`src/lib.rs`) | idle periods counted, attempts | `on_idle`, `wait_timed_out`, `note_stable` | views that start and never finish |
| Client (`src/lib.rs`) | queue, in flight, session | `on_request`, `on_query`, `on_reply`, `on_idle`, `drain` | replies out of order, eviction with requests in flight |
| Simulator (`src/simulator`) | disks, network, faults, properties | `Disk::step`, `crash_replica`, `reboot_replica`, `Network::send` | it defines the owner and the faults |
| kvstore: journal (`journal.rs`) | runs of entries and their files, trims | `open`, `submit`, `finish` | a crash between write, sync and trim; files that still pin entries |
| kvstore: store (`node.rs`) | writes in memory, flush out, two keyspaces, checkpoint kept or staged | `apply`, `get`, `flush`, `checkpoint`, `stage_chunk`, `restore`, `open` | a flush under reads, checkpoints and restores |
| kvstore: node loop (`node.rs`) | write out, events, connections, answers | `run`, `batch`, `handle`, `deliver`, `write_out`, `landed`, `hand_out`, `deliver_reply` | wake-ups lost, stalls, answers out of order |

Replicas interact by messages only. A replica interacts with its disk through
its owner: it hands out a `LogWrite`, the owner makes it durable and hands it
back. The state machine makes itself durable apart from the log, and tells the
owner how far the log may be compacted.

## The modules

- **WritePath** is what one replica promises about its disk, whatever messages
  drive it. It keeps the log, the mark of the lowest changed entry, the durable
  watermark, the commit number, the executed history, the write that is out,
  the disk and the state machine's flush. `Handler` stands for any run of
  `on_message` or `on_idle`: it changes the log only after the commit number
  and marks what it changes. `RestoreCheckpoint`, `TakeWrite`, `Persisted`,
  `Flush`, `Compact`, `Crash` and `LoseDisk` are the other ways its state moves.
- **Replica** is `struct Replica` as a record and every method that changes it
  as an operator from record to record, under the method's name. Messages are
  records. An assertion of the code that fails, an index out of range and an
  `unreachable!` set the field `ok` to FALSE.
- **Config** holds what `struct Config` computes: primaries and quorums.
- **Cluster** composes N replicas with their disks, a network and what clients
  ask. There is one action per message type, for client messages, queries, idle
  periods, timeouts, the owner's calls, crashes, lost disks and lost messages.
  Each action ends as the owner ends a step: it persists the step and sends what
  that released. The owner of a replica in `SteppingOn` sends only what need not
  wait, takes the write some time, and lets the replica step on until it comes
  back, as the kvstore's node does. An owner may also let several queries arrive
  before it sends anything (`OwnerDrains`).
- **WritePathRefinement** maps each replica of Cluster to WritePath.
- **Liveness** adds fairness to Cluster.
- **ClientSide** is `struct Client` as a record and its methods as operators:
  the session, the queue, the windows of requests and of queries in flight, the
  replies, evictions and re-sends.
- **Clients** composes clients with the replica that serves them. The rest of
  the cluster is what Cluster shows of it: a backup acknowledges and confirms,
  and a view change puts another primary in the place of the first, which holds
  every committed op.
- **Connections** puts the kvstore's connections on top of Clients: commands in
  flight, the answers of the event loop and those of the answerer thread.
- **SessionTable** is the client table as the code keeps it: pending entries,
  the count of sessions and the cached candidates for eviction, next to the
  table Replica computes from what executed.
- **Journal** is the journal as operators: the replay of records, the runs of
  entries that pin files, and which files a trim deletes.
- **NodeWrites** composes it with the event loop, writeahead's writer thread and
  the failures of both. `Batch` is one turn of the loop, from `handle` to
  `deliver`.
- **Store** is the kvstore's state machine with the flush thread, checkpoints
  and restores, the node's compaction, and the start of a node.
- **WritePathProofs**, **ClusterProofs**, **SessionTableProofs**,
  **ConnectionsProofs**, **NodeWritesProofs** and **StoreProofs** hold the proofs
  about the modules they are named after, and **AgreementProofs**, which extends
  ClusterProofs, the one that the replicas of Cluster agree. **ReplicaFacts** holds
  the lemmas on numbers, finite sets and the operators of Replica that several of
  them share.
- **MCWritePath** and **MCCluster** instantiate the specifications for TLC; the
  other modules with runs are checked as they stand.

Three representations recur. A log is a function from op numbers, so entries
keep their index when a prefix is compacted. The state machine is the history
of entries it executed, from which the client table is computed; the result of
a request is the op number that executed it, so that executing a request twice
would show. A checkpoint's chunks each carry the whole history, and the last
one is what `restore` takes. The state machine may keep a checkpoint at any op
from the log start to what it applied.

Definitions named as the mutation of another (`MarkedFirst` of `Marked`, and so
on, each commented "Mutant") are wrong on purpose: put in place of the
definition that follows, they break a property, which shows that the property
is about that code.

### What is assumed of the surroundings

- The network of Cluster loses, replays and reorders: messages stay in a set
  and are delivered any number of times or never. `Drop` removes one for good;
  it matters only for liveness.
- A crash leaves a write that is out on disk whole or not at all, and the state
  machine anywhere between its last flush and what it applied, which its owner
  makes durable before `restart` (`Disk::crash`, `Disk::flush_up_to`).
- A write that needs no sync is skipped in Cluster, as the simulator's owner
  does; in WritePath it may land or be skipped.
- A lost disk leaves the view number the replica had persisted, and fewer than
  f replicas are recovering when one is lost, as in `reboot_replica` and
  `tick_crash`.
- In Cluster a client sends a request only in a session it was told of, at most
  `InFlightMax` past the replies it has; it may re-send any of them, to any
  replica, at any time. Clients and Connections have the client's own rules instead.
- The next primary of Clients executed nothing before its view started; one that
  did sends fewer replies and is otherwise the same.
- The writer thread and the database are external and are modelled from how the
  example uses them: a journal record is there whole or not at all, a sync makes
  all records before it durable, a trim deletes files in any order; a batch of
  the database is atomic, batches survive a crash as a prefix, and a snapshot is
  of one moment.
- Two parts of the node are apart from each other: NodeWrites leaves the store
  out, and in Store a write of the log reaches the journal at any time after a
  compaction (`JournalWrites`).
- Idle periods come at any time, and any of them may be the one that times out,
  stalls a fetch or releases a checkpoint. This covers every setting of
  `primary_timeout`.

## The runs

| Run | Instance | Question |
|---|---|---|
| write_path | logs of 2 entries out of 2 | Is what executes on disk, through every order of handlers, writes, flushes, compaction and crashes? Is the inductive invariant one? |
| view_change | 2 clients, 1 op, views 0 to 2, replicas 0 and 1 reached by clients | Do replicas agree when two primaries log different entries at one op number? |
| restart | 2 clients, 1 op, views 0 and 1, writes of replica 0 out while it steps, replica 1 compacts, one crash of replica 0 | Is a promise on disk before it leaves? Does a restarted primary reuse an op number? Can a view start on a replica whose missing entries are compacted? Does every replica implement WritePath? |
| recovery | 1 op, views 0 and 1, replica 0 compacts, one lost disk and one crash of replica 2 | Can a lost disk, or a crash in the middle of recovering, from a log or from a checkpoint, make a quorum forget a committed op? |
| early_prepare | 2 clients, 2 ops, views 0 and 1; the primary of view 1 steps on with its write out and crashes once | Expected to fail: is every committed op on the disks of a quorum? See [Finding](#finding). |
| queries | 1 op, 2 queries, views 0 and 1, replicas 0 and 1 are asked | Does an answer reflect every op that had completed when the query was sent, from a deposed primary and from a new one? |
| progress | 2 ops, one lost message | Does what is committed execute everywhere? |
| view_progress | views 0 and 1, two suspects, two messages to the new primary lost | Does every replica get back to normal status? Does a message of a past view change anything? |
| connections | 1 client with 2 operations, both in flight, room for 1 session and another client that takes it, 3 ops, one lost message or view change | Do operations take effect once and in order, and does every command get its answer in its turn? |
| session_table | 3 clients, room for 2 sessions, 5 ops, one replaced log, checkpoint or restart | Is the table in memory what the log says? |
| node_writes | 3 writes of logs of 2 ops, 2 files, 2 failures | Does the journal replay to a write handed back or a later one, and does every write come back? |
| store | every history of 3 ops on 2 keys, chunks of 1 key, 3 batches a crash may lose, one failure | Does the store open again at a prefix the log can continue? Are reads and checkpoints what they claim? |

The runs of Cluster and of its extensions have three replicas. The properties of
Cluster:

- `Agreement`: replicas commit the same entries (the simulator's
  CommittedPrefixAgreement, checked in every state).
- `Durability`: every quorum the replicas that are not recovering could form
  includes a disk that holds each committed op (the simulator's Durability).
- `PrimaryHoldsCommitted`: the primary of the latest normal view holds every
  committed op.
- `OneLogPerView`: two replicas in normal operation in a view do not disagree
  on an entry, committed or not.
- `PromisesOnDisk`: what a message in flight promises about its sender's disk is
  there (DurablePromise). A replica that is to start a later view is excepted for
  the log it acknowledged: before it starts that view it may take over the log
  its peers' votes name, while it is still last normal in the old one.
- `StaleIgnored`, `ViewsNeverGoBack`: a message of a past view or recovery does
  nothing, and no failure takes a replica to an earlier view.
- `QueriesSeeCompleted`: an answer reflects every op that completed before its
  query was sent (LinearizableQueries).
- `NoPanic`: no assertion of the library fires.
- `ImplementsWritePath`: the refinement.
- `CommittedExecutesEverywhere`, `NormalAgain`: liveness.

Of Clients and Connections:

- `TakesEffect`: a request that completed is the committed op its client was
  told of, and later than what was committed when it was issued; a query reflects
  all of that (RepliesMatchCommits, from the client's side).
- `ProgramOrder`: a client's operations take effect in the order it issued them.
- `AtMostOnce`: no request executes twice (NoDuplicateOps).
- `InFlightAnswerable`: the record of a session keeps the result of every request
  its client still waits for, though only as many as are in flight.
- `AnswersInOrder`, `EveryCommandAnswered`: a connection gets the answer of each
  command in its turn, and gets one for every command. A command whose messages
  the bound on the log keeps out for ever (`BoundReached`) is excepted.

Of SessionTable: `TableIsWhatExecuted`, so every replica evicts the same session
however it came by its table, and `PendingIsLastInLog`, on which the answers to
re-sent requests rest.

Of NodeWrites: `CrashKeepsHanded`, for each outcome of a failure in each state;
`WritesComeBack` and `MessagesLeave`, that no wake-up is lost and no stall keeps
messages back for ever.

Of Store: `StoreOpens` (the journal compacted nothing a power loss can take from
the store), `CrashIsAPrefix`, `ReadsSeeApplied`, `CheckpointIsTheState` and
`IncarnationsIncrease`.

### Bounds

`MaxOp`, `MaxView`, `MaxCrashes`, `MaxLosses` and `MaxDrops` count what their
names say. One op is enough for two primaries to conflict over it, and two
views for the conflict to be resolved wrongly. `Failing`, `Suspects`, `Reached`,
`Queried`, `Idlers`, `Compactors` and `Lossy` say which replicas crash, time
out, and so on; the choices put the failure where it hurts: the primary of view 0 crashes
while its write is out, the next primary suspects it and loses its disk, the
votes to the new primary are lost. In the runs with a full state machine and
one client, one op is a registration, so `Agreement` would hold there of itself;
it is checked where two clients compete for the op.

`ForgetStale` drops a message from the network once it is stale for its
receiver. That loses no behaviour: a stale message changes nothing
(`StaleIgnored`), and a replica never returns to a view in which the message would
not be stale (`ViewsNeverGoBack`). Both are proved for every instance.

Connections needs three ops for one eviction between two operations: a
registration, the other client's, and the second registration or a request.
`CandidateShare` (16 in the code) is 1 in session_table, so that a scan caches
more than one candidate and a later eviction meets stale ones; five ops let a
session execute in between. In node_writes, two files and three writes suffice
for a file that compaction should free while it pins an entry, and two failures
for one during the restart after another. In store, three ops on two keys put
one write in the database, one in the flush that is out and one in memory.

Clients are interchangeable, so view_change and restart, which have two, use
symmetry.
Deadlock is checked in write_path, progress and view_progress. Elsewhere the
bounds end a behaviour: once they are spent and the messages have arrived nothing
is left to happen.

### Fairness

`Liveness` assumes the weakest fairness that says the cluster runs: it does not
stop for ever while a delivery or an idle period would change something. The
owner calls `on_idle` at a fixed period and the network delivers in the end
what is sent again and again; after `MaxDrops` losses every message in the set
can arrive. Timeouts are not assumed to happen. `NormalAgain` therefore shows
that the retransmissions of `on_idle` suffice, with no further view change.
With checkpoints, and with recoveries, liveness depends on timers that are
longer than a round trip; the model leaves timers open and a fetch may then
stall for ever, so these are not checked.

Connections assumes the same of its clients, primary and network, and `WF_` of
the two that hand out answers: the event loop ends each batch with `hand_out`,
and the answerer is a thread of its own that waits for nothing else. NodeWrites
assumes `WF_` of the writer thread's steps, of the event loop's taking what is
in its channel, and of its start. A tick is not assumed: a write that lands must
wake the loop by itself.

## The proofs

`WritePathProofs` proves for every set of entries and every bound on the log:

- `Inductive`: `Spec => []IInv`;
- `TypeCorrect`, `ExecutedIsOnDisk`, `DurableOpIsOnDisk`, `WritesApply`,
  `RestartSucceeds`, `QuietDisk`: the invariants that the run write_path checks;
- `RestartKeepsExecuted`: the action property that a crash takes back no
  executed op.

The only assumption is that there is an entry and that the bound is a natural
number. `ExecutedOnDisk` is not inductive: whether the disk holds an entry
depends on the write that is out. `IInv` therefore describes the disk as it is
and as it will be when that write lands (`Target`): entries not marked as
changed are the ones `Target` holds (`TargetMatches`), the executed ones are
among them (`ExecutedIsLogged`), and both disks are ones a restart can start
from (`Explains`). The order of the counters, of the disk's fields and of the
write's fields make up the rest. The proof has a lemma for each action; the
handing back of a write and the crash go through `LandedFacts`, which says what
either outcome of a write leaves on disk.

By `ImplementsWritePath`, which TLC checks in the run restart, these results
carry over to the replicas of Cluster.

`ClusterProofs` proves, for every number of replicas, every choice of owners and
every number of views, ops, crashes, lost disks and messages:

- `InvariantHolds`: `Spec => []IInv`;
- `ViewsStay`: `ViewsNeverGoBack`;
- `StaleStays`: `StaleIgnored`, of every handler;
- `VotesStay`: the view that a vote or an acknowledgement in flight was for is on
  its sender's disk, disks lost or not;
- `PromisesStay`: `PromisesOnDisk` with its clause on acknowledged logs. This one
  assumes `MaxLosses = 0`: a replica that lost its disk has also lost the log.

The other assumption is the one of Config, that there are at least three
replicas and the counts are natural numbers. `PromisesOnDisk` is not inductive:
whether a message may leave depends on what the write that releases it will
hold, and that on what changed in memory since. `IInv` says of each replica

- what its fields hold (`ReplicaOK`, `WriteOK`, `DiskOK`) and how the status goes
  with the views and a fetch (`Placed`);
- what `written` and `log_changed_from` tell of the write that is out and of the
  disk (`WrittenInv`), so that a step that needs no write changed nothing that a
  message promises;
- that disk, write and memory are in ascending views (`ViewsInv`);
- that memory keeps each promise in the outbox, and the write that is out each
  one that waits for it (`WaitingInv`);
- that all three keep each promise that left (`SentInv`).

A handler is a composition of operators of Replica. `Follows` says what any of
them may do to a replica: views ascend, a log is replaced only as far as the
promises allow, a message put in the outbox is kept by the replica that results.
It is transitive, so each operator is looked at once and a handler is the chain
of what it calls. The steps of the owner, the crash with its restart and the
lost disk have lemmas of their own.

`AgreementProofs` proves that Viewstamped Replication, as this code implements it,
works: for every number of replicas, views, ops, crashes, lost disks, checkpoints and
compactions, whatever the network loses, replays or reorders,

- `HistoryHolds`: `Spec => [](AInv /\ RecInv)`;
- `ReplicasAgree`: `Agreement`;
- `CommittedIsDurable`: `Durability`;
- `LatestPrimaryHolds`: `PrimaryHoldsCommitted`;
- `ViewHasOneLog`: `OneLogPerView`;
- `NeverPanics`: `NoPanic`.

All of them assume `SteppingOn = {}`, that every owner persists a step before the
next one; by the [finding](#finding) they are false of an owner that steps on with
a write out, as the library allows. A replica loses its disk only while fewer than
f are recovering (the guard of `LoseDisk`).

None of the five is inductive: what makes an op safe is not in the replicas'
present state but in what a quorum once acknowledged in a view that may have ended.
`AInv` therefore says that there is a history `w` of the cluster that explains its
state (`World`). A history is the set of views that started, for each the log it has
now (`log`, `len`) and the length it began with (`base`), how much of each view's log
every replica acknowledged (`ack`), the view each replica has gone on to (`view`), and
the ops that committed. An op is `Chosen` in a view when a quorum
acknowledged it there, and `Blocked` when so many replicas have gone to later views
without it that none ever will. The parts of the invariant:

- the log that a view begins with has every op that some earlier view chose or may
  still choose (`Safe`, `HistoryInv`), so two ops chosen at one op number are the same
  (`DecidedOnce`);
- a replica in its view has acknowledged its log, which is the view's as far as it
  reaches; one that left a view carries what it acknowledged there (`Stands`, `Carried`);
- a message says no more than the history: a vote names the log its sender left with, a
  Prepare an entry of the view, an acknowledgement one that is in `ack` (`MessageInv`),
  and so do the votes, fetches and recovery responses that a replica has
  collected (`ReceivedInv`);
- the state machine, the checkpoint served and the replies are what the log holds
  (`Sound`), and the disk is memory's (`Stored`).

`RecInv` bounds the replicas that are recovering. The heart of the proof is that
`try_start_view` picks a `Safe` log: of a quorum of votes, the one last normal in the
latest view and longest there has what no quorum has blocked, and voting blocks what
the log lacks. A handler is followed operator by operator, as in ClusterProofs: `At`
says that the invariant would hold with the replica as it stands in the middle of the
handler, `GoesOn` that it holds of some later history after the operator. Most
operators leave the history alone; logging an entry, acknowledging, leaving a view and
starting one extend it. ClusterProofs has the history and the handlers of normal
operation, AgreementProofs those of view changes, state transfer and recovery, the
writes, the crash and the lost disk.

`SessionTableProofs` proves `TableIsWhatExecuted` and `PendingIsLastInLog` for
every number of clients, sessions, ops and entries. Its invariant ties the count
of sessions and the cached candidates to the records, and each pending entry to
the last entry of its client past what executed.

`ConnectionsProofs` proves what clients and their connections are promised, for
every number of clients, operations in flight, sessions, views, lost messages and
rounds of confirmation:

- `ConnectionsInvariant`: `ConnectionsSpec => []IInv`;
- `ExecutesOnce`: `AtMostOnce`;
- `CompletedTookEffect`: `TakesEffect`;
- `EffectsInOrder`: `ProgramOrder`;
- `ResultsStay`: `InFlightAnswerable`;
- `AnswersComeInOrder`: `AnswersInOrder`.

The assumptions are those of Config, Replica and Clients: three replicas or more,
limits that are natural numbers, and issuers that are clients. As in the model,
the rest of the cluster is what Cluster shows of it: a view change puts a replica
that holds every committed op in the primary's place. None of the five is
inductive, because a duplicate may be in the log, in a message or in a reply
before it does harm. `IInv` says

- of the log (`OrderedLog`): a request is the next one of its session when it
  executes, if the session is still open then, and the sessions of a client come
  in order. A request in the log twice is therefore in its session at most once;
- of a client (`ClientOK`, `IssuedInv`): its windows and its queue are, between
  them, the operations that it issued and that have not ended, in order;
- of what it issued (`DoneInv`, `InOrderOf`, `EpochInv`): an operation that is done
  took effect where its answer says, no later than the ones after it; and there is
  a point in its program before which all was answered or failed in a session that
  has been evicted, and after which all belongs to its present one;
- of messages, log and replies (`MessagesInv`, `LogInv`, `RepliesInv`, `LoggedInv`,
  `QueriedInv`): each carries a number that the client has given out, and names as
  answered no more than what was; a reply on its way is the result of its request,
  and a query's reply reflects every request sent before the query;
- of a connection (`ConnectionInv`): what it waits for is the end of what its
  client issued, and the answers on their way, in the batches of the answerer
  thread and in the one the event loop collects, continue those it got (`Flows`).

Each of the operators of Replica and ClientSide that an action calls has a lemma
on what it keeps; `Progress` and `Forward` are the relations that compose them for
the primary and for a client. The proof that a table keeps the results a client
waits for (`KeepsResults`) is over the recursive function `ClientTable`.

`NodeWritesProofs` proves `CrashKeepsHanded` for every number of writes, files
and failures. Its invariant describes the records in the files by the write each
belongs to, which of them a file pins, and where the event loop and the writer
thread stand with the write that is out.

`StoreProofs` proves `StoreOpens`, `CrashIsAPrefix`, `ReadsSeeApplied`,
`CheckpointIsTheState` and `IncarnationsIncrease`, and the action property that
an incarnation is never used twice (`IncarnationsAreFresh`), for every set of keys,
chunk size and number of ops and crashes. Its invariant describes each batch that
a crash may leave out by the number of ops the database holds after it.

`ClientTable`, `Read` and the other functions that run over a log are recursive
functions. What is needed of them is proved by way of a least counterexample
(`LeastExists`), which takes the place of an induction rule.

Only model-checked:

- The properties of AgreementProofs for replicas in `SteppingOn`. By the finding below
  they do not hold there for all values of the constants; the run restart checks
  `NoPanic`, `Durability` and `OneLogPerView` with one such owner.
- `ImplementsWritePath`, which TLC checks for such an owner as well, and
  `QueriesSeeCompleted`, which needs in addition a history of the rounds of
  confirmation: what a backup that confirms a view had not yet promised to a later one.
- Liveness, `EveryCommandAnswered` among it, which is beyond the prover.

## Finding

The run early_prepare ends in a counterexample to `Durability`:

1. Replicas 1 and 2 change to view 1. Replica 1 is its primary; its disk holds its
   vote for the view change. It starts the view, and its owner keeps the write
   that says so out while the replica steps on.
2. It sends a Prepare in view 1, which need not wait for a write
   (`src/lib.rs:3490`), and crashes before the write lands. It restarts in the
   view change of view 1, and votes again (`src/lib.rs:1599`).
3. Replica 2 hears the Prepare, gives up its own view change and asks for the
   log of view 1 after its commit number (`catch_up_with_view`).
4. Replica 1 answers, because a replica that has sent its `DoViewChange` counts as
   settled in the view (`on_get_state`, `src/lib.rs:2476`); but its log is the one
   from before the view.
5. Replica 2 replaces what it holds after its commit number and is in normal
   operation in view 1 (`on_new_state`). An op that it had acknowledged in view 0,
   and that committed, is now on one disk of three. As replica 2 was last normal in
   view 1, its log wins the next view change.

The comment in `on_new_state` says that what is replaced "is from an earlier view
and never committed" (`src/lib.rs:2571`), and `src/README.md:87` that a Prepare
sent before the write costs nothing in the durability argument. The simulator's
Durability (`src/simulator/properties.rs:108`) looks at an op when a replica
commits it, before it is replaced.

## What is not modelled, and the plan

Not modelled:

- The view timer's counters and backoff (`wait_timed_out`, `note_stable`). A wait
  may time out at any idle period, which covers every setting for safety. That
  views stop changing is a statement about time: it needs idle periods that are
  long against a round trip, and the number of periods grows as a power of two
  of the attempts, out of reach of an explicit state space with the rest of the
  view change.
- The period in which a client last sent something: anything without a reply may
  be sent again.
- `Kept`'s starts and chunks read ahead, which are caches of what `ChunkReader`
  finds in a snapshot that does not change; the format stamp of a store; the
  clock in `next_incarnation`, which only makes incarnations larger;
  `Event::Disconnect`, after which there is no connection to answer; `Store`'s
  `Drop`, which waits for a flush at the end of the process.
- The text of messages, records and rows, sockets, per-peer queues (a lossy
  network) and the command line: I/O.
- The simulator's tick loop, random options and script, its accumulator and
  workload, the terminal interface, benchmarks and scripts: tooling. What its
  properties say is stated here of the models.

Left to do: a proof of `QueriesSeeCompleted` for owners that persist each step, by
adding the rounds of confirmation to the history of AgreementProofs, and one of
`ImplementsWritePath` from the invariants of ClusterProofs.
