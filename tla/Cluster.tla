------------------------------ MODULE Cluster ------------------------------
(***************************************************************************)
(* A cluster of replicas, their disks, the network and the clients.        *)
(*                                                                         *)
(* The network loses, replays and reorders: every message ever sent stays  *)
(* in msgs, and a step delivers any of them, any number of times, or never *)
(* (but see ForgetStale).                                                  *)
(* An owner either persists every step before it goes on, as               *)
(* Replica::persist does, or takes a write, lets the replica step on, and  *)
(* hands the write back later (SteppingOn).  A write that changed only the *)
(* commit number needs no sync and is skipped, so that a crash takes the   *)
(* commit number with it.                                                  *)
(***************************************************************************)
EXTENDS Replica

CONSTANTS SteppingOn,     \* the replicas that step on while a write is out
          Compactors,     \* the replicas whose owners flush and compact
          MaxOp,          \* bound: the longest log
          MaxView,        \* bound: the latest view
          MaxCrashes,     \* bound: the crashes of a behaviour
          MaxLosses,      \* bound: the disks lost
          MaxQueries,     \* bound: the queries asked
          MaxRounds,      \* bound: the rounds of confirmations in a view
          MaxDrops,       \* bound: the messages lost other than by never arriving
          Lossy,          \* bound: the replicas whose incoming messages are lost so
          ForgetStale,    \* bound: a message is lost once it is stale (see StaleIgnored)
          Failing,        \* bound: the replicas that crash or lose their disks
          Reached,        \* bound: the replicas that registrations and requests reach
          Queried,        \* bound: the replicas that queries reach
          Suspects,       \* bound: the replicas whose waits for the primary time out
          Idlers          \* bound: the replicas with idle periods short of a timeout

VARIABLES
  rep,        \* [ReplicaID -> the replica in memory]
  disk,       \* [ReplicaID -> PersistentState]
  flushed,    \* [ReplicaID -> the op the state machine's durable state holds]
  msgs,       \* the messages sent, as <<to, message>>
  replies,    \* the replies sent
  asked,      \* history: the queries asked, each with what had completed by then
  committed,  \* history: the entries committed anywhere, in op number order
  crashes, losses, drops  \* how often each failure happened

vars == <<rep, disk, flushed, msgs, replies, asked, committed, crashes, losses, drops>>

Init ==
  /\ rep = [id \in ReplicaID |-> New(id)]
  /\ disk = [id \in ReplicaID |-> EmptyState]
  /\ flushed = [id \in ReplicaID |-> 0]
  /\ msgs = {} /\ replies = {} /\ asked = <<>>
  /\ committed = NoEntries
  /\ crashes = 0 /\ losses = 0 /\ drops = 0

\* The entry r holds at op i, in its log or already executed.
EntryAt(r, i) == IF i <= r.applied THEN r.sm[i] ELSE r.log[i]

\* The history of committed entries once r has its commit number.
Recorded(r) ==
  LET known == Cardinality(DOMAIN committed)
      now == Higher(known, Lower(r.commit_number, r.op_number))
  IN  [i \in 1 .. now |-> IF i <= known THEN committed[i] ELSE EntryAt(r, i)]

\* PersistentState after the owner landed write w: it skips one that needs no
\* sync.
Landed(d, w) == IF w.sync /\ WriteFits(d, w) THEN ApplyWrite(d, w) ELSE d

\* Whether a message is stale for a replica that is r with d on disk: of a view
\* before the one it persisted, or the answer to a recovery that is over.
Stale(r, d, m) ==
  CASE m.type \in {"Recovery", "GetChunk", "NewChunk"} -> FALSE
    [] m.type = "RecoveryResponse" ->
         m.nonce < r.recovery_nonce \/ (m.nonce = r.recovery_nonce /\ r.status # "Recovering")
    [] OTHER -> m.view_number < d.view_number

\* The messages in flight once replica id left a step as r with d on disk.
Sent(id, r, d) ==
  LET new == msgs \union r.early \union r.outbox_ready
      rep_now == [rep EXCEPT ![id] = r]
      disk_now == [disk EXCEPT ![id] = d]
  IN  IF ForgetStale THEN {e \in new : ~Stale(rep_now[e[1]], disk_now[e[1]], e[2])} ELSE new

\* What an owner that persists at once makes of r with d on disk.
Written(r, d) ==
  LET t == TakeWrite(r)
  IN  IF r.id \in SteppingOn \/ ~r.ok THEN r
      ELSE IF t.outstanding.sync /\ ~WriteFits(d, t.outstanding) THEN Fail(t)
      ELSE Persisted(t)

WrittenDisk(r, d) == IF r.id \in SteppingOn \/ ~r.ok THEN d ELSE Landed(d, TakeWrite(r).outstanding)

\* The owner sent what need not wait.
Drained(r) ==
  [r EXCEPT !.early = {}, !.outbox_ready = {}, !.replies = {}, !.round_unsent = FALSE]

\* Replica id leaves a step as r, with d on disk and its state machine flushed
\* up to op k.
LeaveWith(id, r, d, k) ==
  \E p \in {Written(r, d)}, landed \in {WrittenDisk(r, d)} :
    /\ rep' = [rep EXCEPT ![id] = Drained(p)]
    /\ disk' = [disk EXCEPT ![id] = landed]
    /\ msgs' = Sent(id, p, landed)
    /\ replies' = replies \union p.replies
    /\ committed' = Recorded(p)
    /\ flushed' = [flushed EXCEPT ![id] = k]

\* A step leaves the disk and the flushed state alone, but for a checkpoint it
\* restored, which the state machine made durable.
Leave(id, r) ==
  LeaveWith(id, r, disk[id], IF r.log_start > rep[id].applied THEN r.log_start ELSE flushed[id])

\* Whether a step that leaves r changes anything.
Matters(id, r) ==
  LET p == Written(r, disk[id])
  IN  \/ Drained(p) # rep[id]
      \/ Sent(id, p, WrittenDisk(r, disk[id])) # msgs
      \/ ~ (p.replies \subseteq replies)

\* A step that does something.  (Binding r to its value once keeps TLC from
\* evaluating the handler at every use; LeaveWith does so as well.)
Step(id, r) == \E s \in {r} : s # rep[id] /\ Leave(id, s)

-----------------------------------------------------------------------------
(* Clients.  A request can arrive whenever its client may have sent it.    *)

Register(id, c) ==
  /\ id \in Reached /\ rep[id].op_number < MaxOp
  /\ rep[id].ok /\ Serves(rep[id])
  /\ Leave(id, OnRegister(rep[id], c))
  /\ UNCHANGED <<asked, crashes, losses, drops>>

\* A client that has the replies up to request a has sent those up to
\* a + InFlightMax, and may have sent them again since.
ClientRequest(id, c) ==
  /\ id \in Reached /\ rep[id].op_number < MaxOp
  /\ rep[id].ok /\ Serves(rep[id])
  /\ \E known \in {x \in replies : x.type = "Registered" /\ x.client = c} :
       LET done == {x.number : x \in {y \in replies : y.type = "Executed" /\ y.client = c
                                                      /\ y.session = known.session}}
       IN  \E a \in {0} \union done : \E n \in a + 1 .. a + InFlightMax :
             /\ 1 .. a \subseteq done
             /\ Leave(id, OnRequest(rep[id], c, known.session, n, a))
  /\ UNCHANGED <<asked, crashes, losses, drops>>

\* The last op that is known to have completed.
Completed == Max({0} \union {x.session : x \in {y \in replies : y.type = "Registered"}}
                     \union {x.result : x \in replies})

\* A query reaches a replica, for the first time or sent again.  It counts as
\* sent when it first arrives: before, less had completed.  The owner may let
\* more arrive before it sends what the replica has to send.
ClientQuery(id, c) ==
  /\ id \in Queried /\ rep[id].ok /\ RoundFor(rep[id]) <= MaxRounds
  /\ \E n \in 1 .. Lower(Len(asked) + 1, MaxQueries) :
       LET r == OnQuery(rep[id], c, n) IN
       /\ IF n \in DOMAIN asked THEN asked[n].client = c /\ UNCHANGED asked
          ELSE asked' = Append(asked, [client |-> c, floor |-> Completed])
       /\ r # rep[id]
       /\ \/ LeaveWith(id, r, disk[id], flushed[id])
          \/ /\ rep' = [rep EXCEPT ![id] = r]
             /\ UNCHANGED <<disk, flushed, msgs, replies, committed>>
  /\ UNCHANGED <<crashes, losses, drops>>

-----------------------------------------------------------------------------
(* on_message, a disjunct for each message.  A recovering replica takes    *)
(* nothing but recovery responses and the chunks of a checkpoint.          *)

\* Mutant: a recovering replica takes every message.
ReceiveWhileRecovering(id, type, m) ==
  /\ m.type = type
  /\ rep[id].ok
  /\ UNCHANGED <<asked, crashes, losses, drops>>

Receive(id, type, m) ==
  /\ m.type = type
  /\ rep[id].ok
  /\ rep[id].status = "Recovering" => type \in {"RecoveryResponse", "NewChunk"}
  /\ UNCHANGED <<asked, crashes, losses, drops>>

DeliverPrepare(id, m) ==
  Receive(id, "Prepare", m) /\ Step(id, OnPrepare(rep[id], m))

DeliverPrepareOk(id, m) ==
  Receive(id, "PrepareOk", m) /\ Step(id, OnPrepareOk(rep[id], m))

DeliverConfirmView(id, m) ==
  Receive(id, "ConfirmView", m) /\ Step(id, OnConfirmView(rep[id], m))

DeliverConfirmViewOk(id, m) ==
  Receive(id, "ConfirmViewOk", m) /\ Step(id, OnConfirmViewOk(rep[id], m))

DeliverCommit(id, m) ==
  Receive(id, "Commit", m) /\ Step(id, OnCommit(rep[id], m))

\* The state machine may keep its checkpoint at any op it applied that the log
\* still reaches.
DeliverGetState(id, m) ==
  /\ Receive(id, "GetState", m)
  /\ \E ck \in rep[id].log_start .. rep[id].applied : Step(id, OnGetState(rep[id], m, ck))

DeliverNewState(id, m) ==
  Receive(id, "NewState", m) /\ Step(id, OnNewState(rep[id], m))

DeliverGetChunk(id, m) ==
  Receive(id, "GetChunk", m) /\ Step(id, OnGetChunk(rep[id], m))

DeliverNewChunk(id, m) ==
  Receive(id, "NewChunk", m) /\ Step(id, OnNewChunk(rep[id], m))

DeliverStartViewChange(id, m) ==
  Receive(id, "StartViewChange", m) /\ Step(id, OnStartViewChange(rep[id], m))

DeliverDoViewChange(id, m) ==
  Receive(id, "DoViewChange", m) /\ Step(id, OnDoViewChange(rep[id], m))

DeliverStartView(id, m) ==
  Receive(id, "StartView", m) /\ Step(id, OnStartView(rep[id], m))

DeliverRecovery(id, m) ==
  /\ Receive(id, "Recovery", m)
  /\ \E ck \in rep[id].log_start .. rep[id].applied : Step(id, OnRecovery(rep[id], m, ck))

DeliverRecoveryResponse(id, m) ==
  Receive(id, "RecoveryResponse", m) /\ Step(id, OnRecoveryResponse(rep[id], m))

-----------------------------------------------------------------------------
(* on_idle.  A wait may time out, a fetch stall and a kept checkpoint be   *)
(* released at any idle period.                                            *)

IdlePeriod(id, timeout) ==
  LET r == rep[id] IN
  /\ r.ok
  /\ \E stall, release \in BOOLEAN, due \in {0} \union r.commit_number + 1 .. r.op_number :
       /\ stall => Fetching(r)
       /\ release => r.serving # Nobody
       /\ due # 0 => Serves(r)
       /\ Leave(id, OnIdle(r, timeout, stall, release, due))
  /\ UNCHANGED <<asked, crashes, losses, drops>>

Idle(id) == id \in Idlers /\ IdlePeriod(id, FALSE)

TimeOut(id) ==
  /\ id \in Suspects /\ rep[id].view_number < MaxView
  /\ rep[id].status # "Recovering" /\ ~Serves(rep[id])
  /\ IdlePeriod(id, TRUE)

\* The network loses a message that nothing but sending it again brings back.
Drop ==
  /\ drops < MaxDrops
  /\ drops' = drops + 1
  /\ \E e \in msgs : e[1] \in Lossy /\ msgs' = msgs \ {e}
  /\ UNCHANGED <<rep, disk, flushed, replies, asked, committed, crashes, losses>>

-----------------------------------------------------------------------------
(* The owner.                                                              *)

\* The owner sends what it had held back.
OwnerDrains(id) ==
  /\ rep[id].ok /\ rep[id].early # {}
  /\ Leave(id, rep[id])
  /\ UNCHANGED <<asked, crashes, losses, drops>>

OwnerTakesWrite(id) ==
  /\ id \in SteppingOn
  /\ rep[id].ok /\ ~rep[id].outstanding.out
  /\ LET t == TakeWrite(rep[id]) IN t.outstanding.sync \/ t.outbox_waiting # {}
  /\ rep' = [rep EXCEPT ![id] = TakeWrite(@)]
  /\ UNCHANGED <<disk, flushed, msgs, replies, asked, committed, crashes, losses, drops>>

\* The write lands, and what waited for it leaves.
OwnerHandsBack(id) ==
  LET w == rep[id].outstanding
      p == IF w.sync /\ ~WriteFits(disk[id], w) THEN Fail(rep[id]) ELSE Persisted(rep[id])
  IN  /\ rep[id].ok /\ w.out
      /\ disk' = [disk EXCEPT ![id] = Landed(@, w)]
      /\ rep' = [rep EXCEPT ![id] = Drained(p)]
      /\ msgs' = Sent(id, p, disk'[id])
      /\ replies' = replies \union p.replies
      /\ committed' = Recorded(p)
      /\ UNCHANGED <<flushed, asked, crashes, losses, drops>>

\* The state machine makes what it applied durable, and the log before that is
\* compacted.
OwnerFlushes(id) ==
  /\ id \in Compactors /\ rep[id].ok
  /\ flushed[id] < rep[id].applied
  /\ flushed' = [flushed EXCEPT ![id] = rep[id].applied]
  /\ UNCHANGED <<rep, disk, msgs, replies, asked, committed, crashes, losses, drops>>

\* Mutant: the owner compacts what the state machine has not flushed.
OwnerCompactsApplied(id) ==
  /\ id \in Compactors /\ rep[id].ok
  /\ rep[id].log_start < rep[id].applied
  /\ Leave(id, Compact(rep[id], rep[id].applied))
  /\ UNCHANGED <<asked, crashes, losses, drops>>

OwnerCompacts(id) ==
  /\ id \in Compactors /\ rep[id].ok
  /\ rep[id].log_start < flushed[id]
  /\ Leave(id, Compact(rep[id], flushed[id]))
  /\ UNCHANGED <<asked, crashes, losses, drops>>

\* The replica loses its memory.  A write that is out is on disk whole or not
\* at all, and the state machine holds what it flushed or something later,
\* which its owner makes durable before it rebuilds the replica.
Crash(id) ==
  /\ id \in Failing /\ crashes < MaxCrashes
  /\ crashes' = crashes + 1
  /\ \E landed \in BOOLEAN, k \in flushed[id] .. rep[id].applied :
       LET w == rep[id].outstanding
           d == IF landed THEN Landed(disk[id], w) ELSE disk[id]
           r == Restart(id, d, [i \in 1 .. k |-> rep[id].sm[i]], k,
                        rep[id].recovery_nonce + IF d.recovering THEN 1 ELSE 0)
       IN  /\ landed => w.out
           /\ r.view_number <= MaxView
           /\ LeaveWith(id, r, d, k)
  /\ UNCHANGED <<asked, losses, drops>>

\* The replica loses its disk, all but the view number it had persisted, and
\* recovers.  Fewer than f replicas may be recovering.
LoseDisk(id) ==
  /\ id \in Failing /\ losses < MaxLosses
  /\ losses' = losses + 1
  /\ Cardinality({q \in ReplicaID : rep[q].status = "Recovering" \/ disk[q].recovering})
       < (N - 1) \div 2
  /\ LeaveWith(id, Recover(id, disk[id].view_number, rep[id].recovery_nonce + 1),
               [EmptyState EXCEPT !.view_number = disk[id].view_number, !.recovering = TRUE], 0)
  /\ UNCHANGED <<asked, crashes, drops>>

-----------------------------------------------------------------------------

OnMessage(id, m) ==
  \/ DeliverPrepare(id, m) \/ DeliverPrepareOk(id, m) \/ DeliverCommit(id, m)
  \/ DeliverConfirmView(id, m) \/ DeliverConfirmViewOk(id, m)
  \/ DeliverGetState(id, m) \/ DeliverNewState(id, m)
  \/ DeliverGetChunk(id, m) \/ DeliverNewChunk(id, m)
  \/ DeliverStartViewChange(id, m) \/ DeliverDoViewChange(id, m) \/ DeliverStartView(id, m)
  \/ DeliverRecovery(id, m) \/ DeliverRecoveryResponse(id, m)

Next ==
  \/ \E e \in msgs : OnMessage(e[1], e[2])
  \/ Drop
  \/ \E id \in ReplicaID :
       \/ \E c \in Client : Register(id, c) \/ ClientRequest(id, c) \/ ClientQuery(id, c)
       \/ Idle(id) \/ TimeOut(id)
       \/ OwnerDrains(id)
       \/ OwnerTakesWrite(id) \/ OwnerHandsBack(id) \/ OwnerFlushes(id) \/ OwnerCompacts(id)
       \/ Crash(id) \/ LoseDisk(id)

Spec == Init /\ [][Next]_vars

-----------------------------------------------------------------------------

Status == {"Normal", "ViewChange", "StateTransfer", "Recovering"}

\* No assertion fails, and no index is out of range, in any replica: of
\* take_write, apply, merge_log, restore_checkpoint, keep_checkpoint, execute
\* and restart, nor is an unreachable arm reached.
NoPanic == \A id \in ReplicaID : rep[id].ok

\* Replicas commit the same entries, whatever views, crashes, lost disks and
\* checkpoints brought them there.
Agreement ==
  \A id \in ReplicaID : \A i \in 1 .. rep[id].commit_number :
    /\ i \in DOMAIN committed
    /\ (i <= rep[id].applied \/ i > rep[id].log_start) => EntryAt(rep[id], i) = committed[i]

\* A committed op is on enough disks that every quorum the replicas that are
\* not recovering could form includes a disk that holds it.
Durability ==
  LET able == {id \in ReplicaID : ~disk[id].recovering}
      holds(id, i) == \/ i <= flushed[id]
                      \/ /\ i \in disk[id].log_start + 1 .. disk[id].op_number
                         /\ disk[id].log[i] = committed[i]
  IN  \A i \in DOMAIN committed :
        Cardinality({id \in able : holds(id, i)}) >= Cardinality(able) + 1 - Quorum

\* A primary in normal status, in the latest view that is normal anywhere,
\* holds every committed op.
PrimaryHoldsCommitted ==
  \A id \in ReplicaID :
    LET r == rep[id] IN
    Serves(r) /\ (\A q \in ReplicaID : rep[q].last_normal_view <= r.view_number) =>
      \A i \in DOMAIN committed :
        i <= r.op_number /\ ((i <= r.applied \/ i > r.log_start) => EntryAt(r, i) = committed[i])

\* The answer to a query reflects every op that any client knew to have
\* completed when the query was sent, and what earlier answers reflected,
\* though a later view may have started that the primary knows nothing of.
QueriesSeeCompleted ==
  \A x \in replies : x.type = "Queried" => x.result >= asked[x.number].floor

\* Whether replica id was to start a view after view l, up to view v.
Elected(id, l, v) == \E w \in l + 1 .. v : PrimaryOf(w) = id

\* What a message promises of the disk of its sender is on that disk before
\* the message leaves, and stays there: the view a vote was for, and an
\* acknowledged log, unless a later view replaced it, the replica took over the
\* log that a view it was to start begins with, or the disk was lost.
PromisesOnDisk ==
  \A e \in msgs :
    LET m == e[2] IN
    CASE m.type = "PrepareOk" ->
           LET d == disk[m.replica_id] IN
           /\ d.view_number >= m.view_number
           /\ ~d.recovering => d.last_normal_view >= m.view_number
           /\ ~d.recovering /\ d.last_normal_view = m.view_number
                /\ ~Elected(m.replica_id, m.view_number, d.view_number) =>
                d.op_number >= m.op_number
      [] m.type = "StartViewChange" -> disk[m.replica_id].view_number >= m.view_number
      [] m.type = "DoViewChange" -> disk[m.dvc.replica_id].view_number >= m.view_number
      [] m.type = "StartView" -> disk[PrimaryOf(m.view_number)].view_number >= m.view_number
      [] OTHER -> TRUE

\* No crash and no lost disk takes a replica back to an earlier view.
ViewsNeverGoBack ==
  [][\A id \in ReplicaID : disk'[id].view_number >= disk[id].view_number
                           /\ rep'[id].view_number >= disk[id].view_number]_vars

\* What on_message could make of r.
Handled(r, m) ==
  IF r.status = "Recovering" /\ m.type \notin {"RecoveryResponse", "NewChunk"} THEN {r}
  ELSE
  CASE m.type = "Prepare" -> {OnPrepare(r, m)}
    [] m.type = "PrepareOk" -> {OnPrepareOk(r, m)}
    [] m.type = "Commit" -> {OnCommit(r, m)}
    [] m.type = "ConfirmView" -> {OnConfirmView(r, m)}
    [] m.type = "ConfirmViewOk" -> {OnConfirmViewOk(r, m)}
    [] m.type = "GetState" -> {OnGetState(r, m, ck) : ck \in r.log_start .. r.applied}
    [] m.type = "NewState" -> {OnNewState(r, m)}
    [] m.type = "GetChunk" -> {OnGetChunk(r, m)}
    [] m.type = "NewChunk" -> {OnNewChunk(r, m)}
    [] m.type = "StartViewChange" -> {OnStartViewChange(r, m)}
    [] m.type = "DoViewChange" -> {OnDoViewChange(r, m)}
    [] m.type = "StartView" -> {OnStartView(r, m)}
    [] m.type = "Recovery" -> {OnRecovery(r, m, ck) : ck \in r.log_start .. r.applied}
    [] m.type = "RecoveryResponse" -> {OnRecoveryResponse(r, m)}

\* A message that arrives after its view, or its recovery, is over changes
\* nothing, however late it comes and whatever the replica went through since.
StaleIgnored ==
  \A e \in msgs :
    LET r == rep[e[1]] IN Stale(r, disk[e[1]], e[2]) /\ r.ok => Handled(r, e[2]) = {r}

\* A view has one log: the logs of two replicas last normal in the same view
\* agree wherever both have entries beyond their commit numbers.
OneLogPerView ==
  \A p, q \in ReplicaID :
    rep[p].status \in {"Normal", "StateTransfer"} /\ rep[q].status \in {"Normal", "StateTransfer"}
      /\ rep[p].view_number = rep[q].view_number =>
      \A i \in Higher(rep[p].log_start, rep[q].log_start) + 1
               .. Lower(rep[p].op_number, rep[q].op_number) :
        rep[p].log[i] = rep[q].log[i]

=============================================================================
