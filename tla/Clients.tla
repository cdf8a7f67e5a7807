------------------------------ MODULE Clients ------------------------------
(***************************************************************************)
(* Clients with several operations in flight and the primary that serves   *)
(* them.                                                                   *)
(*                                                                         *)
(* The primary is a replica of module Replica.  The rest of the cluster is *)
(* what Cluster shows of it: a backup acknowledges any op, confirms any    *)
(* round, and a view change puts in the primary's place a replica that     *)
(* holds every committed op, any of the others, and has executed some of   *)
(* the committed ones.  The network loses, replays and reorders.           *)
(***************************************************************************)
EXTENDS Replica, ClientSide

CONSTANTS Issuers,     \* the clients modelled; of the others only registrations are
          MaxIssued,   \* bound: the operations each of them issues
          MaxOp,       \* bound: the longest log
          MaxRounds,   \* bound: the rounds of confirmations in a view
          MaxView,     \* bound: the latest view
          MaxFaults    \* bound: the messages lost for good and view changes together

ASSUME ClientsAssumption ==
  /\ Issuers \subseteq Client
  /\ {MaxIssued, MaxOp, MaxRounds, MaxView, MaxFaults} \subseteq Nat

VARIABLES
  clients,    \* [Issuers -> the client]
  primary,    \* the replica that is the primary
  net,        \* the client messages sent, to the primary, as <<client, message>>
  replies,    \* the replies sent, each with its view
  committed,  \* history: the entries committed
  ops,        \* history: what each client issued, in order, and how it ended
  drops

vars == <<clients, primary, net, replies, committed, ops, drops>>

Init ==
  /\ clients = [c \in Issuers |-> NewClient]
  /\ primary = New(PrimaryOf(0))
  /\ net = {} /\ replies = {}
  /\ committed = NoEntries
  /\ ops = [c \in Issuers |-> <<>>]
  /\ drops = 0

-----------------------------------------------------------------------------
(* The clients and their owners.                                           *)

Open == -1
Failed == -2

\* An operation issued; floor is what was committed then, end the op that
\* executed it or what its answer reflects, once it is not Open.
Issued(kind, n) ==
  [kind |-> kind, number |-> n, floor |-> Cardinality(DOMAIN committed), end |-> Open]

\* What drain yields of client c that is k, for the primary.  The other replicas
\* ignore it, and what was sent to one before its view started is lost.
Outgoing(c, k) == {<<c, e[2]>> : e \in {d \in k.outbox : d[1] = primary.id}}

\* Client c leaves a call as k, and its owner sends what there is to send.
LeaveClient(c, k) ==
  /\ clients' = [clients EXCEPT ![c] = [k EXCEPT !.outbox = {}]]
  /\ net' = net \union Outgoing(c, k)
  /\ UNCHANGED <<primary, replies, committed, drops>>

IssueRequest(c) ==
  /\ Len(ops[c]) < MaxIssued
  /\ LeaveClient(c, ClientOnRequest(clients[c]))
  /\ ops' = [ops EXCEPT ![c] = Append(@, Issued("Request", clients[c].next_request_number))]

IssueQuery(c) ==
  /\ Len(ops[c]) < MaxIssued
  /\ LeaveClient(c, ClientOnQuery(clients[c]))
  /\ ops' = [ops EXCEPT ![c] = Append(@, Issued("Query", clients[c].next_query_number))]

\* An idle period that sends something new.
ClientIdles(c) ==
  /\ LeaveClient(c, ClientOnIdle(clients[c]))
  /\ net' # net
  /\ UNCHANGED ops

\* The operation x completes is the one of its kind and number that has not
\* ended; an eviction fails all that have not.
Ended(o, k, x) ==
  IF \/ o.end # Open \/ ~(Completes(k, x) \/ Evicts(k, x)) THEN o
  ELSE IF Evicts(k, x) THEN [o EXCEPT !.end = Failed]
  ELSE IF o.number = x.number /\ o.kind = (IF x.type = "Executed" THEN "Request" ELSE "Query")
       THEN [o EXCEPT !.end = x.result] ELSE o

ClientReceives(x) ==
  LET c == x.reply.client
      k == ClientOnReply(clients[c], x.reply, x.view_number)
  IN  /\ k # clients[c]
      /\ LeaveClient(c, k)
      /\ ops' = [ops EXCEPT ![c] = [i \in DOMAIN @ |-> Ended(@[i], clients[c], x.reply)]]

-----------------------------------------------------------------------------
(* The primary.                                                            *)

\* What the primary's owner makes of r: it persists the step and sends all.
Settled(r) ==
  LET p == Persisted(TakeWrite(r))
      sent == {[reply |-> x, view_number |-> p.view_number] : x \in p.replies}
  IN  [primary |-> [p EXCEPT !.early = {}, !.outbox_ready = {}, !.replies = {},
                             !.round_unsent = FALSE],
       replies |-> {x \in sent : x.reply.client \in Issuers}]

Changes(s) == s.primary # primary \/ ~ (s.replies \subseteq replies)

\* The primary leaves a step as r.
Leave(r) ==
  \E s \in {Settled(r)} :
    /\ Changes(s)
    /\ primary' = s.primary
    /\ replies' = replies \union s.replies
    /\ committed' = [i \in 1 .. Higher(Cardinality(DOMAIN committed), s.primary.commit_number) |->
                       IF i \in DOMAIN committed THEN committed[i] ELSE s.primary.log[i]]
    /\ net' = IF s.primary.view_number = primary.view_number THEN net ELSE {}
    /\ UNCHANGED <<clients, ops, drops>>

\* on_message of the primary for a client message.
Received(c, m) ==
  CASE m.type = "Register" -> OnRegister(primary, c)
    [] m.type = "Request" -> OnRequest(primary, c, m.session, m.number, m.answered)
    [] m.type = "Query" -> OnQuery(primary, c, m.number)

\* The client messages that may arrive: those within the bounds.
Arriving ==
  {e \in net : IF e[2].type = "Query" THEN RoundFor(primary) <= MaxRounds
               ELSE \/ primary.op_number < MaxOp
                    \/ Received(e[1], e[2]).op_number = MaxOp}

\* Another client registers: its message is as any.
OthersRegister ==
  \E c \in Client \ Issuers : primary.op_number < MaxOp /\ Leave(OnRegister(primary, c))

PrimaryReceives == \E e \in Arriving : Leave(Received(e[1], e[2]))

\* A backup, enough for a quorum of three.
Backup == CHOOSE id \in ReplicaID : id # primary.id

BackupAcks ==
  \E op \in primary.acked[Backup] + 1 .. primary.op_number :
    Leave(OnPrepareOk(primary, [view_number |-> primary.view_number, op_number |-> op,
                                replica_id |-> Backup]))

BackupConfirms ==
  \E round \in primary.confirmed[Backup] + 1 .. primary.round :
    Leave(OnConfirmViewOk(primary, [view_number |-> primary.view_number, round |-> round,
                                    replica_id |-> Backup]))

\* The next view starts, its log n ops long, on a replica that learns that
\* commit are committed.  It executed none of them before: one that did sends
\* fewer replies and is otherwise the same.
ViewStarts ==
  LET known == Cardinality(DOMAIN committed) IN
  /\ primary.view_number < MaxView /\ primary.view_number + drops < MaxFaults
  /\ \E n \in known .. primary.op_number, commit \in 0 .. known :
       LET v == primary.view_number + 1
           log == [i \in 1 .. n |-> primary.log[i]]
           r == [New(PrimaryOf(v)) EXCEPT
                   !.view_number = v, !.status = "ViewChange", !.log = log, !.op_number = n,
                   !.durable = n]
       IN  Leave(EnterNormal(CommitUpTo(r, commit, TRUE)))

Lose ==
  /\ primary.view_number + drops < MaxFaults
  /\ drops' = drops + 1
  /\ \/ \E e \in net : net' = net \ {e} /\ UNCHANGED replies
     \/ \E x \in replies : replies' = replies \ {x} /\ UNCHANGED net
  /\ UNCHANGED <<clients, primary, committed, ops>>

-----------------------------------------------------------------------------

\* No idle period, delivery or answer of a backup would change anything.
Quiet ==
  /\ primary.acked[Backup] = primary.op_number
  /\ primary.confirmed[Backup] = primary.round
  /\ \A x \in replies :
       ClientOnReply(clients[x.reply.client], x.reply, x.view_number) = clients[x.reply.client]
  /\ \A c \in Issuers : Outgoing(c, ClientOnIdle(clients[c])) \subseteq net
  /\ \A e \in Arriving : ~Changes(Settled(Received(e[1], e[2])))

-----------------------------------------------------------------------------

\* An operation that completed took effect after it was issued: a request is
\* the op its client was told executed it, and the answer to a query reflects
\* all that was committed before.
TakesEffect ==
  \A c \in Issuers : \A i \in DOMAIN ops[c] :
    LET o == ops[c][i] IN
    o.end \notin {Open, Failed} =>
      /\ o.kind = "Request" => /\ o.end \in DOMAIN committed /\ o.end > o.floor
                               /\ committed[o.end].client = c
                               /\ committed[o.end].number = o.number
      /\ o.kind = "Query" => o.end >= o.floor

\* A client's operations take effect in the order it issued them, through
\* views, lost messages and sessions; queries in a row are not ordered.
ProgramOrder ==
  \A c \in Issuers : \A i, j \in DOMAIN ops[c] :
    LET a == ops[c][i] b == ops[c][j] IN
    i < j /\ {a.end, b.end} \intersect {Open, Failed} = {} =>
      /\ b.kind = "Request" => a.end < b.end
      /\ a.kind = "Request" /\ b.kind = "Query" => a.end <= b.end

\* No request executes twice, however often it is sent, and whatever primaries
\* it is sent to.
AtMostOnce ==
  \A i, j \in DOMAIN committed :
    /\ i < j /\ committed[i].session # 0
    /\ committed[i].client = committed[j].client
    /\ committed[i].session = committed[j].session /\ committed[i].number = committed[j].number
    => ~(/\ InSession(ClientTable(committed, i - 1), committed[i])
         /\ InSession(ClientTable(committed, j - 1), committed[j]))

\* The client table keeps the result of every request that executed and whose
\* reply its client still waits for, as long as the session lives.
InFlightAnswerable ==
  LET table == ClientTable(committed, Cardinality(DOMAIN committed)) IN
  \A c \in Issuers :
    LET k == clients[c] record == table[c] IN
    k.session # 0 /\ record.session = k.session =>
      \A i \in DOMAIN k.requests :
        k.requests[i].waits /\ k.requests[i].number <= record.number =>
          record.number - k.requests[i].number < Len(record.replies)

\* A bound of the model keeps out a message that a client waits for an answer
\* to.
BoundReached ==
  \E e \in net : e[2] \in Waiting(clients[e[1]]) /\ e \notin Arriving

=============================================================================
