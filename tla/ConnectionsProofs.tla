------------------------- MODULE ConnectionsProofs -------------------------
(* Operations of clients take effect once and in order, the results that   *)
(* clients wait for are kept, and connections get their answers in turn:   *)
(* proved for every number of clients, operations, views, lost messages    *)
(* and sessions, from an invariant that relates a client's windows and     *)
(* queue, what it issued, the messages on the way, the log, and what its   *)
(* connection waits for.                                                   *)
EXTENDS Connections, ReplicaFacts

-----------------------------------------------------------------------------
(* The primary *)

WaitingQueries == [client : Issuers, number : Nat, round : Nat, op_number : Nat]

\* The primary in a step.
Committing(r) ==
  /\ DOMAIN r = Fields
  /\ r.view_number \in Nat
  /\ r.op_number \in Nat /\ r.log_start = 0 /\ OrderedLog(r.log, r.op_number)
  /\ r.commit_number \in 0 .. r.op_number /\ r.applied \in 0 .. r.commit_number
  /\ r.sm = [i \in 1 .. r.applied |-> r.log[i]]
  /\ r.acked \in [ReplicaID -> 0 .. r.op_number]
  /\ r.view_start_op \in 0 .. r.op_number
  /\ r.queries \in Seq(WaitingQueries) /\ r.round \in Nat
  /\ r.ok

\* What is committed has executed.
Serving(r) == Committing(r) /\ r.applied = r.commit_number

\* All it has is durable.
Synced(r) == r.log_changed_from = 0 /\ r.durable = r.op_number

\* The primary between two steps.
PrimaryInv(r) ==
  /\ Serving(r) /\ Synced(r)
  /\ r.id = PrimaryOf(r.view_number) /\ r.status = "Normal" /\ ~r.outstanding.out
  /\ r.replies = {}

\* How many ops are committed.
Known == Cardinality(DOMAIN committed)

\* What is committed is a prefix of the primary's log, and a query that arrives
\* waits for all of it.
CommittedInv ==
  /\ Known \in primary.commit_number .. primary.op_number
  /\ committed = [i \in 1 .. Known |-> primary.log[i]]
  /\ Known <= Higher(primary.commit_number, primary.view_start_op)

-----------------------------------------------------------------------------
(* The clients *)

Kinds == {"Request", "Query"}

Window(k, kind) == IF kind = "Request" THEN k.requests ELSE k.queries
NextNumber(k, kind) ==
  IF kind = "Request" THEN k.next_request_number ELSE k.next_query_number

\* The numbers of the operations of a kind that are queued, and the first that
\* has not been sent.
QueuedNumbers(k, kind) ==
  {k.queued[i].number : i \in {j \in DOMAIN k.queued : k.queued[j].kind = kind}}
Unsent(k, kind) == Min({NextNumber(k, kind)} \union QueuedNumbers(k, kind))

\* The oldest request in flight, or the first one to be.
OldestRequest(k) == Oldest(k.requests, Unsent(k, "Request"))

\* A window ends before number b, and its first has no reply.
WindowOK(w, b) ==
  /\ w \in Seq([number : Nat, waits : BOOLEAN])
  /\ Len(w) < b
  /\ \A i \in DOMAIN w : w[i].number = b - 1 - Len(w) + i
  /\ w # <<>> => w[1].waits

QueueOK(k, kind) ==
  /\ NextNumber(k, kind) \in Nat
  /\ Unsent(k, kind) \in 1 .. NextNumber(k, kind)
  /\ QueuedNumbers(k, kind) = Unsent(k, kind) .. NextNumber(k, kind) - 1
  /\ \A i, j \in DOMAIN k.queued :
       i < j /\ k.queued[i].kind = kind /\ k.queued[j].kind = kind =>
         k.queued[i].number < k.queued[j].number
  /\ WindowOK(Window(k, kind), Unsent(k, kind))

ClientFields ==
  {"view_number", "session", "registering", "evicted", "next_request_number",
   "next_query_number", "requests", "queries", "queued", "outbox"}

ClientOK(k) ==
  /\ DOMAIN k = ClientFields
  /\ k.view_number \in Nat /\ k.session \in Nat /\ k.evicted \in Nat
  /\ k.registering \in BOOLEAN
  /\ k.session # 0 => k.session > k.evicted /\ ~k.registering
  /\ k.queued \in Seq([kind : Kinds, number : Nat])
  /\ \A kind \in Kinds : QueueOK(k, kind)
  /\ k.requests = <<>> \/ k.queries = <<>>
  /\ k.requests # <<>> => k.session # 0
  /\ Len(k.requests) <= InFlightMax

\* A request that client k sent: in a session that ended, or one of its window
\* or before it, with a reply to all up to answered.
SentRequest(k, session, number, answered) ==
  /\ session \in Nat \ {0} /\ number \in Nat \ {0} /\ answered \in Nat
  /\ \/ session <= k.evicted
     \/ /\ session = k.session
        /\ number < Unsent(k, "Request")
        /\ answered < OldestRequest(k)
        /\ number < OldestRequest(k) + InFlightMax

-----------------------------------------------------------------------------
(* What the clients issued *)

Operations == [kind : Kinds, number : Nat, floor : Nat, end : Int]

Done(o) == o.end \notin {Open, Failed}

\* How many of the operations issued were sent, or ended before.
SentUpTo(o, k) == Len(o) - Len(k.queued)

\* Number n is in a window and has no reply.
Awaits(w, n) == \E p \in DOMAIN w : w[p].number = n /\ w[p].waits

\* The queue is the end of what was issued; what was sent and has not ended is
\* what waits in the windows; queries were not sent before the requests issued
\* before them ended, nor requests before the queries.
IssuedInv(o, k) ==
  /\ o \in Seq(Operations)
  /\ SentUpTo(o, k) \in Nat
  /\ \A i \in DOMAIN k.queued :
       LET q == o[SentUpTo(o, k) + i] IN
       /\ k.queued[i] = [kind |-> q.kind, number |-> q.number]
       /\ q.end = Open
  /\ \A i \in 1 .. SentUpTo(o, k) : o[i].end = Open => Awaits(Window(k, o[i].kind), o[i].number)
  /\ \A kind \in Kinds : \A p \in DOMAIN Window(k, kind) : Window(k, kind)[p].waits =>
       \E i \in 1 .. SentUpTo(o, k) :
         o[i].kind = kind /\ o[i].number = Window(k, kind)[p].number /\ o[i].end = Open
  /\ \A j \in 1 .. SentUpTo(o, k), i \in 1 .. Len(o) :
       i < j /\ o[i].kind # o[j].kind => o[i].end # Open

\* Since e operations were issued the client was not evicted: all before ended,
\* in sessions that ended too, and the others have numbers of their own.
EpochInv(o, k, e) ==
  /\ \A i \in 1 .. e :
       /\ o[i].end # Open
       /\ o[i].kind = "Request" /\ Done(o[i]) => committed[o[i].end].session <= k.evicted
  /\ \A i \in e + 1 .. Len(o) :
       /\ o[i].end # Failed /\ o[i].number < NextNumber(k, o[i].kind)
       /\ o[i].kind = "Request" /\ Done(o[i]) => committed[o[i].end].session = k.session
  /\ \A i, j \in e + 1 .. Len(o) :
       i < j /\ o[i].kind = o[j].kind => o[i].number < o[j].number

\* What was committed when an operation was issued, and what it got if it is done.
DoneInv(o, c) ==
  \A i \in DOMAIN o :
    /\ o[i].floor <= Known
    /\ Done(o[i]) /\ o[i].kind = "Request" =>
         /\ o[i].end \in DOMAIN committed /\ o[i].end > o[i].floor
         /\ ExecutedAt(committed, o[i].end, c, committed[o[i].end].session, o[i].number)
    /\ Done(o[i]) /\ o[i].kind = "Query" => o[i].end \in o[i].floor .. Known

\* ProgramOrder of one client.
InOrderOf(o) ==
  \A i, j \in DOMAIN o :
    i < j /\ Done(o[i]) /\ Done(o[j]) =>
      /\ o[j].kind = "Request" => o[i].end < o[j].end
      /\ o[i].kind = "Request" /\ o[j].kind = "Query" => o[i].end <= o[j].end

\* A request that has not ended is in the log only after all that was committed
\* when it was issued and after the answers to the queries before it.
LoggedInv(o, k, c) ==
  \A j \in DOMAIN o : o[j].kind = "Request" /\ o[j].end = Open =>
    \A n \in 1 .. primary.op_number :
      k.session # 0 /\ IsRequest(primary.log[n], c, k.session, o[j].number) =>
        /\ n > o[j].floor
        /\ \A i \in 1 .. j - 1 : o[i].kind = "Query" => o[i].end # Open /\ o[i].end < n

\* op is enough for the answer to the j-th of the operations, a query, to reflect.
Reflects(o, j, op) ==
  /\ op >= o[j].floor
  /\ \A i \in 1 .. j - 1 : o[i].kind = "Request" => o[i].end # Open /\ o[i].end <= op

\* A query that has not ended is answered with all that was committed when it was
\* issued, and with the requests before it.
QueriedInv(o, k, c) ==
  /\ \A i \in DOMAIN primary.queries : primary.queries[i].client = c =>
       /\ primary.queries[i].number < Unsent(k, "Query")
       /\ \A j \in DOMAIN o :
            o[j].kind = "Query" /\ o[j].end = Open /\ o[j].number = primary.queries[i].number =>
              Reflects(o, j, primary.queries[i].op_number)
  /\ \A x \in replies : x.reply.client = c /\ x.reply.type = "Queried" =>
       /\ x.reply.number \in Nat /\ x.reply.number < Unsent(k, "Query")
       /\ x.reply.result \in 0 .. Known
       /\ \A j \in DOMAIN o :
            o[j].kind = "Query" /\ o[j].end = Open /\ o[j].number = x.reply.number =>
              Reflects(o, j, x.reply.result)

-----------------------------------------------------------------------------
(* Messages *)

MessagesInv ==
  \A e \in net :
    /\ e[1] \in Issuers
    /\ LET k == clients[e[1]] m == e[2] IN
       /\ m.type \in {"Register", "Request", "Query"}
       /\ m.type = "Request" => SentRequest(k, m.session, m.number, m.answered)
       /\ m.type = "Query" => m.number \in Nat /\ m.number < Unsent(k, "Query")

\* What is in the log was sent; of the clients not modelled, registrations.
LogInv ==
  \A i \in 1 .. primary.op_number : primary.log[i].session # 0 =>
    /\ primary.log[i].client \in Issuers
    /\ SentRequest(clients[primary.log[i].client], primary.log[i].session,
                   primary.log[i].number, primary.log[i].answered)

RepliesInv ==
  \A x \in replies :
    /\ x.view_number \in Nat
    /\ x.reply.client \in Issuers
    /\ x.reply.type \in {"Registered", "Executed", "Evicted", "Queried"}
    /\ x.reply.type \in {"Registered", "Evicted"} => x.reply.session \in Nat \ {0}
    /\ x.reply.type = "Executed" =>
         /\ x.reply.result \in DOMAIN committed
         /\ ExecutedAt(committed, x.reply.result, x.reply.client, x.reply.session,
                       x.reply.number)

-----------------------------------------------------------------------------
(* The connections *)

\* The answers on their way: those of each batch the answerer holds, then those
\* that are ready.
Batches == Append(batches, answers)

\* The places of the answers in all, without the first done of the first batch.
Places(all, done) ==
  {x \in UNION {{b} \X DOMAIN all[b] : b \in DOMAIN all} : x[1] = 1 => x[2] > done}

Before(x, y) == x[1] < y[1] \/ (x[1] = y[1] /\ x[2] < y[2])

\* The answers of connection c come in order, from the first it has not got to the
\* last it no longer waits for.
Flows(g, all, done, c, last) ==
  /\ \A x, y \in Places(all, done) :
       all[x[1]][x[2]].client = c /\ all[y[1]][y[2]].client = c /\ Before(x, y) =>
         all[x[1]][x[2]].op < all[y[1]][y[2]].op
  /\ {all[x[1]][x[2]].op : x \in {y \in Places(all, done) : all[y[1]][y[2]].client = c}} =
       Len(g) + 1 .. last
  /\ Len(g) <= last

ReadyAnswers == [client : Issuers, op : Nat, answer : Int]

AnswerOK(a) ==
  /\ a.op \in DOMAIN ops[a.client]
  /\ a.answer = ops[a.client][a.op].end /\ a.answer # Open

\* The operations whose answers connection c no longer waits for.
Answers(c) == Len(ops[c]) - Len(pending[c])

ConnectionInv(c) ==
  /\ Answers(c) \in Nat
  /\ pending[c] \in Seq([op : Nat, kind : Kinds, number : Nat, answer : Int])
  /\ \A i \in DOMAIN pending[c] :
       LET n == Answers(c) + i IN
       pending[c][i] = [op |-> n, kind |-> ops[c][n].kind, number |-> ops[c][n].number,
                        answer |-> ops[c][n].end]
  /\ \A i \in 1 .. Answers(c) : ops[c][i].end # Open
  /\ got[c] \in Seq(ReadyAnswers)
  /\ \A i \in DOMAIN got[c] : got[c][i].op = i /\ got[c][i].answer = ops[c][i].end
  /\ Flows(got[c], Batches, 0, c, Answers(c))

IssuerInv(c) ==
  LET k == clients[c] o == ops[c] IN
  /\ ClientOK(k) /\ k.outbox = {}
  /\ IssuedInv(o, k) /\ DoneInv(o, c) /\ InOrderOf(o)
  /\ LoggedInv(o, k, c) /\ QueriedInv(o, k, c)
  /\ ConnectionInv(c)
  /\ \E e \in 0 .. Answers(c) : EpochInv(o, k, e)

IInv ==
  /\ PrimaryInv(primary) /\ CommittedInv
  /\ DOMAIN clients = Issuers /\ DOMAIN ops = Issuers
  /\ DOMAIN pending = Issuers /\ DOMAIN got = Issuers
  /\ \A c \in Issuers : IssuerInv(c)
  /\ MessagesInv /\ LogInv /\ RepliesInv
  /\ answers \in Seq(ReadyAnswers) /\ batches \in Seq(Seq(ReadyAnswers))
  /\ \A b \in DOMAIN Batches : \A p \in DOMAIN Batches[b] : AnswerOK(Batches[b][p])

-----------------------------------------------------------------------------
(* Proofs *)
(* Facts about ordered logs *)

\* The numbers of a session ascend.
LEMMA NumbersAscend ==
  ASSUME NEW log, NEW n \in Nat, OrderedLog(log, n), NEW j \in 0 .. n, NEW i \in 0 .. j,
         NEW c \in Client,
         ClientTable(log, i)[c].session # 0,
         ClientTable(log, i)[c].session = ClientTable(log, j)[c].session
  PROVE  ClientTable(log, i)[c].number <= ClientTable(log, j)[c].number
<1> DEFINE s == ClientTable(log, i)[c].session
           Number(k) == ClientTable(log, k)[c].number
           S == {k \in i .. j : ~(Number(i) <= Number(k))}
<1> SUFFICES ASSUME S # {} PROVE FALSE
  OBVIOUS
<1>0. History(log, n) /\ i \in 0 .. n /\ i \in Nat
  BY OrderedLogTyped
<1>1. PICK k \in S : \A x \in S : k <= x
  <2>1. S \in SUBSET Nat
    BY <1>0
  <2> HIDE DEF S
  <2> QED
    BY <2>1, LeastExists
<1>2. \A x \in 0 .. n : ClientTable(log, x)[c] \in Records /\ Number(x) \in Nat
  BY <1>0, TableTyped DEF Records
<1>3. \A x \in i .. j : ClientTable(log, x)[c].session = s
  <2>1. s \in 1 .. i
    BY <1>0, SessionBegan
  <2>2. \A x \in s .. j : ClientTable(log, x)[c].session = s
    BY <1>0, SessionBegan
  <2> QED
    BY <1>0, <2>1, <2>2
<1>4. k # i
  BY <1>0, <1>2
<1>5. /\ k \in 1 .. n /\ k - 1 \in i .. j /\ k - 1 \in 0 .. n - 1 /\ k - 1 \in 0 .. n
      /\ k - 1 + 1 = k /\ k \in i .. j
  BY <1>0, <1>4
<1>6. Number(i) <= Number(k - 1) /\ ~(Number(i) <= Number(k))
  BY <1>1, <1>5
<1>7. RecordMoves(ClientTable(log, k - 1)[c], ClientTable(log, k)[c], k, log[k], c)
  BY <1>0, <1>5, RecordStep
<1>8. /\ ClientTable(log, k - 1)[c].session = s /\ ClientTable(log, k)[c].session = s
      /\ s # 0 /\ s # k
  <2>1. s \in 1 .. i
    BY <1>0, SessionBegan
  <2> QED
    BY <1>0, <1>3, <1>4, <1>5, <2>1
<1>9. InOrder(ClientTable(log, k - 1), log[k])
  BY <1>5 DEF OrderedLog, TableBefore
<1>10. Number(k) = Number(k - 1) \/ Number(k) = Number(k - 1) + 1
  <2>1. CASE ClientTable(log, k)[c] = ClientTable(log, k - 1)[c]
    BY <2>1
  <2>2. CASE ClientTable(log, k)[c] = NoRecord \/ ClientTable(log, k)[c] = NewRecord(k)
    BY <1>8, <2>2, NewSession DEF NoRecord
  <2>3. CASE /\ log[k].session # 0 /\ log[k].client = c
             /\ ClientTable(log, k - 1)[c].session = log[k].session
             /\ ClientTable(log, k)[c] = RecordAfter(ClientTable(log, k - 1)[c], k, log[k])
    <3>1. Number(k) = log[k].number
      BY <1>2, <1>5, <2>3, AfterRequest
    <3> QED
      BY <1>9, <2>3, <3>1 DEF InOrder, InSession
  <2> QED
    BY <1>7, <2>1, <2>2, <2>3 DEF RecordMoves
<1> HIDE DEF Number, S
<1> QED
  BY <1>0, <1>2, <1>5, <1>6, <1>10

\* Requests of a client that executed did so in the order of their sessions, and
\* of their numbers in one.
LEMMA ExecutedInOrder ==
  ASSUME NEW log, NEW n \in Nat, OrderedLog(log, n), NEW i \in 1 .. n, NEW j \in 1 .. n,
         NEW c \in Client, NEW s, NEW x, ExecutedAt(log, i, c, s, x),
         NEW t, NEW y, ExecutedAt(log, j, c, t, y), i < j
  PROVE  s \in Nat /\ t \in Nat /\ x \in Nat /\ y \in Nat /\ s <= t /\ (s = t => x < y)
<1>1. /\ History(log, n) /\ i \in 0 .. n /\ j - 1 \in 0 .. n /\ i \in 0 .. j - 1
  BY OrderedLogTyped
<1>2. ClientTable(log, i)[c].session = s /\ ClientTable(log, i)[c].number = x
  BY RecordOfExecuted
<1>3. ClientTable(log, j - 1)[c].session = t /\ ClientTable(log, j - 1)[c].number + 1 = y
  BY RecordOfExecuted
<1>4. s # 0 /\ t # 0
  BY DEF ExecutedAt
<1>5. s <= t
  BY <1>1, <1>2, <1>3, <1>4, SessionsAscend
<1>6. s = t => x <= ClientTable(log, j - 1)[c].number
  BY <1>1, <1>2, <1>3, <1>4, NumbersAscend
<1>7. ClientTable(log, i)[c] \in Records /\ ClientTable(log, j - 1)[c] \in Records
  BY <1>1, TableTyped
<1>8. s \in Nat /\ x \in Nat /\ t \in Nat /\ ClientTable(log, j - 1)[c].number \in Nat
  BY <1>2, <1>3, <1>7 DEF Records
<1> QED
  BY <1>3, <1>5, <1>6, <1>8

\* What a sequence is.
LEMMA SeqIs ==
  ASSUME NEW S, NEW s \in Seq(S)
  PROVE  Len(s) \in Nat /\ DOMAIN s = 1 .. Len(s) /\ \A i \in 1 .. Len(s) : s[i] \in S
  OBVIOUS

\* The end of a sequence, from its i-th on.
LEMMA EndOf ==
  ASSUME NEW S, NEW s \in Seq(S), NEW i \in 0 .. Len(s)
  PROVE  LET q == SubSeq(s, i + 1, Len(s))
         IN  /\ q \in Seq(S) /\ Len(q) = Len(s) - i /\ DOMAIN q = 1 .. Len(s) - i
             /\ \A j \in 1 .. Len(s) - i : q[j] = s[i + j] /\ i + j \in 1 .. Len(s)
  OBVIOUS

\* How many results are kept, which are the end of those there were and the new
\* one.
Most(e) == Lower(Higher(e.number - e.answered, 1), InFlightMax)

KeepsEnd(old, new, op, most) ==
  /\ new \in Seq(Nat) /\ most \in Nat \ {0}
  /\ Len(new) = Lower(Len(old) + 1, most) /\ new[Len(new)] = op
  /\ \A p \in 1 .. Len(new) - 1 :
       /\ Len(old) + 1 - Len(new) + p \in 1 .. Len(old)
       /\ new[p] = old[Len(old) + 1 - Len(new) + p]

LEMMA KeptIs ==
  ASSUME NEW old \in Seq(Nat), NEW op \in Nat, NEW e \in Entries
  PROVE  KeepsEnd(old, Kept(old, op, e), op, Most(e))
<1> DEFINE kept == Most(e)
           all == Append(old, op)
           i == Higher(Len(all) - kept, 0)
           new == SubSeq(all, i + 1, Len(all))
<1>1. kept \in Nat \ {0}
  BY ConfigAssumption DEF Entries, Lower, Higher, Most
<1>2. /\ all \in Seq(Nat) /\ Len(all) = Len(old) + 1 /\ Len(old) \in Nat
      /\ all[Len(old) + 1] = op /\ \A p \in 1 .. Len(old) : all[p] = old[p]
  OBVIOUS
<1> HIDE DEF kept, all
<1>3. i \in 0 .. Len(all) /\ Len(all) - i = Lower(Len(all), kept)
  BY <1>1, <1>2 DEF Higher, Lower
<1> HIDE DEF i
<1>4. /\ new \in Seq(Nat) /\ Len(new) = Len(all) - i
      /\ \A p \in 1 .. Len(all) - i : new[p] = all[i + p] /\ i + p \in 1 .. Len(all)
  BY <1>2, <1>3, EndOf
<1> HIDE DEF new
<1>5. Len(new) = Lower(Len(old) + 1, kept) /\ Len(new) \in Nat /\ Len(new) >= 1
  BY <1>1, <1>2, <1>3, <1>4 DEF Lower
<1>6. new[Len(new)] = op
  <2>1. Len(new) \in 1 .. Len(all) - i /\ i + Len(new) = Len(old) + 1
    BY <1>2, <1>3, <1>4, <1>5
  <2> QED
    BY <1>2, <1>4, <2>1
<1>7. ASSUME NEW p \in 1 .. Len(new) - 1
      PROVE  /\ Len(old) + 1 - Len(new) + p \in 1 .. Len(old)
             /\ new[p] = old[Len(old) + 1 - Len(new) + p]
  <2>1. p \in 1 .. Len(all) - i /\ i + p = Len(old) + 1 - Len(new) + p
    BY <1>2, <1>3, <1>4, <1>5
  <2>2. i + p \in 1 .. Len(old)
    BY <1>2, <1>3, <1>4, <1>5
  <2> QED
    BY <1>2, <1>4, <2>1, <2>2
<1>8. Kept(old, op, e) = new
  BY DEF Kept, new, i, all, kept, Most
<1> QED
  BY <1>1, <1>4, <1>5, <1>6, <1>7, <1>8 DEF kept, KeepsEnd

\* The results a record keeps are those of the last requests of its session.
KeepsResults(log, n, c) ==
  LET record == ClientTable(log, n)[c]
      kept == record.replies
  IN  record.session # 0 =>
        /\ Len(kept) <= record.number
        /\ \A p \in 1 .. Len(kept) :
             /\ kept[p] \in 1 .. n
             /\ ExecutedAt(log, kept[p], c, record.session, record.number - Len(kept) + p)

LEMMA ResultsKept ==
  ASSUME NEW log, NEW m \in Nat, OrderedLog(log, m), NEW n \in 0 .. m, NEW c \in Client
  PROVE  KeepsResults(log, n, c)
<1> DEFINE S == {k \in 0 .. m : ~KeepsResults(log, k, c)}
<1> SUFFICES ASSUME S # {} PROVE FALSE
  OBVIOUS
<1>1. PICK k \in S : \A i \in S : k <= i
  <2>1. S \in SUBSET Nat
    OBVIOUS
  <2> HIDE DEF S
  <2> QED
    BY <2>1, LeastExists
<1>2. k # 0
  <2>1. ClientTable(log, 0)[c].session = 0
    BY ClientTableStep DEF NoRecords, NoRecord
  <2> QED
    BY <1>1, <2>1 DEF KeepsResults
<1>3. /\ k \in 1 .. m /\ k - 1 \in 0 .. m - 1 /\ k - 1 + 1 = k /\ k - 1 \in 0 .. m
      /\ History(log, m) /\ k \in Nat
  BY <1>2, OrderedLogTyped
<1>4. KeepsResults(log, k - 1, c) /\ ~KeepsResults(log, k, c)
  BY <1>1, <1>3
<1> DEFINE old == ClientTable(log, k - 1)[c]
           new == ClientTable(log, k)[c]
           e == log[k]
<1>5. RecordMoves(old, new, k, e, c)
  BY <1>3, RecordStep
<1>6. old \in Records /\ new \in Records /\ e \in Entries
  BY <1>3, TableTyped DEF History
<1> HIDE DEF S
<1>7. CASE new = old
  BY <1>3, <1>4, <1>7 DEF KeepsResults
<1>8. CASE new = NoRecord
  BY <1>4, <1>8 DEF KeepsResults, NoRecord
<1>9. CASE new = NewRecord(k)
  <2>1. new.replies = <<>> /\ new.number = 0
    BY <1>9, NewSession
  <2> QED
    BY <1>4, <2>1 DEF KeepsResults
<1>10. CASE /\ e.session # 0 /\ e.client = c /\ old.session = e.session
            /\ new = RecordAfter(old, k, e)
  <2> DEFINE was == old.replies
             kept == new.replies
  <2>1. /\ new.session = old.session /\ new.number = e.number /\ kept = Kept(was, k, e)
    BY <1>6, <1>10, AfterRequest
  <2>2. old.number + 1 = e.number /\ new.number = old.number + 1
    <3>1. InOrder(ClientTable(log, k - 1), e)
      BY <1>3 DEF OrderedLog, TableBefore
    <3> QED
      BY <1>10, <2>1, <3>1 DEF InOrder, InSession
  <2>3. was \in Seq(Nat) /\ old.number \in Nat /\ Len(was) \in Nat
    BY <1>6 DEF Records
  <2>4. KeepsEnd(was, kept, k, Most(e))
    BY <1>3, <1>6, <2>1, <2>3, KeptIs
  <2>5. /\ Len(was) <= old.number
        /\ \A p \in 1 .. Len(was) :
             /\ was[p] \in 1 .. k - 1
             /\ ExecutedAt(log, was[p], c, old.session, old.number - Len(was) + p)
    BY <1>4, <1>10 DEF KeepsResults
  <2>6. Len(kept) \in Nat /\ Len(kept) >= 1 /\ Len(kept) <= Len(was) + 1
    BY <2>3, <2>4 DEF Lower, KeepsEnd
  <2> HIDE DEF was, kept, old, new, e
  <2>7. Len(kept) <= new.number
    BY <2>1, <2>2, <2>3, <2>5, <2>6
  <2>8. ASSUME NEW p \in 1 .. Len(kept)
        PROVE  /\ kept[p] \in 1 .. k
               /\ ExecutedAt(log, kept[p], c, new.session, new.number - Len(kept) + p)
    <3>1. CASE p = Len(kept)
      <4>1. new.number - Len(kept) + p = e.number /\ kept[p] = k
        BY <2>1, <2>2, <2>3, <2>4, <2>6, <3>1 DEF KeepsEnd
      <4>2. ExecutedAt(log, k, c, new.session, e.number)
        BY <1>10, <2>1 DEF ExecutedAt, IsRequest, InSession, TableBefore, old, e
      <4> QED
        BY <1>3, <4>1, <4>2
    <3>2. CASE p # Len(kept)
      <4> DEFINE q == Len(was) + 1 - Len(kept) + p
      <4>1. q \in 1 .. Len(was) /\ kept[p] = was[q]
        <5>1. p \in 1 .. Len(kept) - 1
          BY <2>6, <3>2
        <5> QED
          BY <2>4, <5>1 DEF KeepsEnd
      <4>2. old.number - Len(was) + q = new.number - Len(kept) + p
        BY <2>2, <2>3, <2>6
      <4>3. was[q] \in 1 .. k - 1 /\ ExecutedAt(log, was[q], c, old.session, old.number - Len(was) + q)
        BY <2>5, <4>1
      <4> HIDE DEF q
      <4> QED
        BY <1>3, <2>1, <4>1, <4>2, <4>3
    <3> QED
      BY <3>1, <3>2
  <2>9. KeepsResults(log, k, c)
    BY <2>7, <2>8 DEF KeepsResults, new, kept
  <2> QED
    BY <1>4, <2>9
<1> QED
  BY <1>5, <1>7, <1>8, <1>9, <1>10 DEF RecordMoves

\* A record keeps the results of all requests from the w-th on, if those that the
\* client sent said that it had no reply to that one, and were in its window.
LEMMA ResultsAnswerable ==
  ASSUME NEW log, NEW m \in Nat, OrderedLog(log, m), NEW c \in Client,
         NEW s \in Nat \ {0}, NEW w \in Nat \ {0},
         \A i \in 1 .. m : log[i].client = c /\ log[i].session = s =>
           log[i].answered < w /\ log[i].number < w + InFlightMax,
         NEW n \in 0 .. m, ClientTable(log, n)[c].session = s,
         w <= ClientTable(log, n)[c].number
  PROVE  ClientTable(log, n)[c].number - w < Len(ClientTable(log, n)[c].replies)
<1> DEFINE Good(k) == LET record == ClientTable(log, k)[c] IN
                      record.session = s /\ w <= record.number =>
                        record.number - w < Len(record.replies)
           S == {k \in 0 .. m : ~Good(k)}
<1> SUFFICES ASSUME S # {} PROVE FALSE
  OBVIOUS
<1>1. PICK k \in S : \A i \in S : k <= i
  <2>1. S \in SUBSET Nat
    OBVIOUS
  <2> HIDE DEF S
  <2> QED
    BY <2>1, LeastExists
<1>2. k # 0
  <2>1. ClientTable(log, 0)[c].session = 0
    BY ClientTableStep DEF NoRecords, NoRecord
  <2> QED
    BY <1>1, <2>1
<1>3. /\ k \in 1 .. m /\ k - 1 \in 0 .. m - 1 /\ k - 1 + 1 = k /\ k - 1 \in 0 .. m
      /\ History(log, m) /\ k \in Nat
  BY <1>2, OrderedLogTyped
<1>4. Good(k - 1) /\ ~Good(k)
  BY <1>1, <1>3
<1> DEFINE old == ClientTable(log, k - 1)[c]
           new == ClientTable(log, k)[c]
           e == log[k]
<1>5. RecordMoves(old, new, k, e, c)
  BY <1>3, RecordStep
<1>6. old \in Records /\ new \in Records /\ e \in Entries
  BY <1>3, TableTyped DEF History
<1>7. CASE new = old
  BY <1>4, <1>7
<1>8. CASE new = NoRecord
  BY <1>4, <1>8 DEF NoRecord
<1>9. CASE new = NewRecord(k)
  BY <1>4, <1>9, NewSession
<1>10. CASE /\ e.session # 0 /\ e.client = c /\ old.session = e.session
            /\ new = RecordAfter(old, k, e)
  <2> DEFINE was == old.replies
             kept == new.replies
  <2>1. /\ new.session = old.session /\ new.number = e.number /\ kept = Kept(was, k, e)
    BY <1>6, <1>10, AfterRequest
  <2>2. old.number + 1 = e.number
    <3>1. InOrder(ClientTable(log, k - 1), e)
      BY <1>3 DEF OrderedLog, TableBefore
    <3> QED
      BY <1>10, <3>1 DEF InOrder, InSession
  <2>3. was \in Seq(Nat) /\ old.number \in Nat /\ Len(was) \in Nat
    BY <1>6 DEF Records
  <2>4. Len(kept) = Lower(Len(was) + 1, Most(e)) /\ Most(e) \in Nat \ {0}
    <3>1. KeepsEnd(was, kept, k, Most(e))
      BY <1>3, <1>6, <2>1, <2>3, KeptIs
    <3> QED
      BY <3>1 DEF KeepsEnd
  <2>5. new.session = s /\ w <= new.number /\ ~(new.number - w < Len(kept))
    BY <1>4
  <2>6. e.answered < w /\ e.number < w + InFlightMax /\ e.number \in Nat /\ e.answered \in Nat
    BY <1>3, <1>6, <1>10, <2>1, <2>5 DEF Entries
  <2>7. Most(e) >= e.number - w + 1
    <3> HIDE DEF e
    <3> QED
      BY SMTT(30), <2>6, ConfigAssumption DEF Lower, Higher, Most
  <2>8. old.number < w \/ old.number - w < Len(was)
    BY <1>4, <2>1, <2>3, <2>5
  <2> HIDE DEF was, kept, old, new, e, Good
  <2> QED
    <3>1. CASE Len(kept) = Len(was) + 1
      BY <2>1, <2>2, <2>3, <2>5, <2>6, <2>8, <3>1
    <3>2. CASE Len(kept) = Most(e)
      BY <2>1, <2>4, <2>5, <2>6, <2>7, <3>2
    <3> QED
      BY <2>4, <3>1, <3>2 DEF Lower
<1> QED
  BY <1>5, <1>7, <1>8, <1>9, <1>10 DEF RecordMoves

-----------------------------------------------------------------------------
(* What the primary appends *)

\* The table a primary keeps is that of its log.
LEMMA ServingTable ==
  ASSUME NEW r, Serving(r), NEW i \in 0 .. r.applied
  PROVE  /\ r.applied \in 0 .. r.op_number /\ i \in 0 .. r.op_number
         /\ ClientTable(r.sm, i) = ClientTable(r.log, i)
<1>1. /\ r.applied \in 0 .. r.op_number /\ i \in Nat /\ r.op_number \in Nat
      /\ \A j \in 1 .. i : r.sm[j] = r.log[j]
  BY DEF Serving, Committing
<1>2. ClientTable(r.sm, i) = ClientTable(r.log, i)
  BY <1>1, ClientTablePrefix
<1> QED
  BY <1>1, <1>2

LEMMA ServingReads ==
  ASSUME NEW r, Serving(r)
  PROVE  Reads(r, r.log)
  BY DEF Serving, Committing, Reads

-----------------------------------------------------------------------------
(* What the primary executes *)

\* What is the same before and after the primary executes.
ServingFields ==
  {"id", "status", "view_number", "last_normal_view", "log_start", "op_number", "log",
   "log_changed_from", "outstanding", "durable", "view_start_op"}

\* A reply of a primary with r's log and queries that committed so many ops.
ReplyOK(r, commit, x) ==
  /\ x.type \in {"Registered", "Executed", "Evicted", "Queried"}
  /\ x.type \in {"Registered", "Evicted"} => x.session \in Nat \ {0}
  /\ x.type = "Executed" =>
       /\ x.result \in 1 .. commit
       /\ ExecutedAt(r.log, x.result, x.client, x.session, x.number)
  /\ x.type = "Queried" =>
       /\ x.result \in 0 .. commit
       /\ \E j \in DOMAIN r.queries :
            /\ r.queries[j].client = x.client /\ r.queries[j].number = x.number
            /\ r.queries[j].op_number <= x.result

\* r executes some ops and queries and becomes s.
Progress(r, s) ==
  /\ Serving(s)
  /\ \A f \in ServingFields : s[f] = r[f]
  /\ r.commit_number \in 0 .. s.commit_number
  /\ \A i \in DOMAIN s.queries : \E j \in DOMAIN r.queries : s.queries[i] = r.queries[j]
  /\ \A x \in s.replies \ r.replies : ReplyOK(r, s.commit_number, x)

LEMMA ProgressSelf ==
  ASSUME NEW r, Serving(r)
  PROVE  Progress(r, r)
  BY DEF Progress, Serving, Committing

LEMMA ProgressThrough ==
  ASSUME NEW r, NEW s, NEW t, Progress(r, s), Progress(s, t)
  PROVE  Progress(r, t)
<1>1. /\ Serving(t) /\ \A f \in ServingFields : t[f] = r[f]
      /\ \A i \in DOMAIN t.queries : \E j \in DOMAIN r.queries : t.queries[i] = r.queries[j]
  BY DEF Progress
<1>2. /\ s.commit_number \in 0 .. t.commit_number /\ r.commit_number \in 0 .. s.commit_number
      /\ t.commit_number \in Nat /\ s.commit_number \in Nat
  BY DEF Progress, Serving, Committing
<1>3. s.log = r.log
  BY DEF Progress, ServingFields
<1>4. ASSUME NEW x \in t.replies \ r.replies
      PROVE  ReplyOK(r, t.commit_number, x)
  <2>1. CASE x \in s.replies
    <3>1. ReplyOK(r, s.commit_number, x)
      BY <1>4, <2>1 DEF Progress
    <3>2. \A n \in 0 .. s.commit_number : n \in 0 .. t.commit_number
      BY <1>2
    <3>3. \A n \in 1 .. s.commit_number : n \in 1 .. t.commit_number
      BY <1>2
    <3> QED
      BY <3>1, <3>2, <3>3 DEF ReplyOK
  <2>2. CASE x \notin s.replies
    <3>1. ReplyOK(s, t.commit_number, x)
      BY <1>4, <2>2 DEF Progress
    <3>2. \A j \in DOMAIN s.queries : \E i \in DOMAIN r.queries : s.queries[j] = r.queries[i]
      BY DEF Progress
    <3> QED
      BY <1>3, <3>1, <3>2 DEF ReplyOK
  <2> QED
    BY <2>1, <2>2
<1>5. r.commit_number \in 0 .. t.commit_number
  BY <1>2
<1> QED
  BY <1>1, <1>4, <1>5 DEF Progress

LEMMA ExecuteQueriesProgress ==
  ASSUME NEW r, Serving(r)
  PROVE  Progress(r, ExecuteQueries(r))
<1> DEFINE ready == {k \in 0 .. Len(r.queries) : \A i \in 1 .. k : MayGo(r, r.queries[i])}
           last == Max(ready)
           rest == SubSeq(r.queries, last + 1, Len(r.queries))
           given == {[type |-> "Queried", client |-> r.queries[i].client,
                      session |-> 0, number |-> r.queries[i].number,
                      result |-> r.applied] : i \in 1 .. last}
           s == [r EXCEPT !.queries = rest, !.replies = @ \union given]
<1>1. ExecuteQueries(r) = IF ~Serves(r) THEN r ELSE s
  BY DEF ExecuteQueries
<1>2. r.queries \in Seq(WaitingQueries) /\ Len(r.queries) \in Nat
  BY DEF Serving, Committing
<1>3. last \in ready
  <2>1. ready \in SUBSET (0 .. Len(r.queries)) /\ 0 \in ready
    BY <1>2
  <2> HIDE DEF ready
  <2> QED
    BY <1>2, <2>1, MaxIsGreatest
<1>4. last \in 0 .. Len(r.queries) /\ \A i \in 1 .. last : MayGo(r, r.queries[i])
  BY <1>3
<1> HIDE DEF last
<1>5. /\ rest \in Seq(WaitingQueries) /\ DOMAIN rest = 1 .. Len(r.queries) - last
      /\ \A j \in 1 .. Len(r.queries) - last : rest[j] = r.queries[last + j]
                                               /\ last + j \in 1 .. Len(r.queries)
  BY <1>2, <1>4, EndOf
<1> HIDE DEF rest
<1>6. SameBut(r, s, {"queries", "replies"}) /\ s.queries = rest /\ s.replies = r.replies \union given
  BY DEF SameBut, Fields, Serving, Committing
<1>7. ASSUME NEW x \in given
      PROVE  ReplyOK(r, r.commit_number, x)
  <2>1. PICK i \in 1 .. last : x = [type |-> "Queried", client |-> r.queries[i].client,
                                    session |-> 0, number |-> r.queries[i].number,
                                    result |-> r.applied]
    OBVIOUS
  <2>2. i \in DOMAIN r.queries /\ r.queries[i].op_number <= r.applied
    BY <1>2, <1>4 DEF MayGo
  <2>3. r.applied \in 0 .. r.commit_number
    BY DEF Serving, Committing
  <2> QED
    BY <2>1, <2>2, <2>3 DEF ReplyOK
<1> HIDE DEF s, given
<1>8. Serving(s) /\ \A f \in ServingFields : s[f] = r[f]
  BY <1>5, <1>6 DEF SameBut, Fields, Serving, Committing, ServingFields
<1>9. s.commit_number = r.commit_number /\ r.commit_number \in Nat
  BY <1>6 DEF SameBut, Fields, Serving, Committing
<1>10. DOMAIN r.queries = 1 .. Len(r.queries)
  BY <1>2
<1>11. Progress(r, s)
  BY <1>5, <1>6, <1>7, <1>8, <1>9, <1>10 DEF Progress
<1> QED
  BY <1>1, <1>11, ProgressSelf

\* The reply to an entry that executes.
LEMMA ReplyToOK ==
  ASSUME NEW r, OrderedLog(r.log, r.op_number), r.op_number \in Nat,
         NEW i \in 1 .. r.op_number, NEW commit \in Nat, i <= commit
  PROVE  ReplyOK(r, commit, ReplyTo(ClientTable(r.log, i - 1), i, r.log[i]))
<1> DEFINE table == ClientTable(r.log, i - 1)
           e == r.log[i]
<1>1. /\ History(r.log, r.op_number) /\ i - 1 \in 0 .. r.op_number /\ i \in 1 .. commit
      /\ e \in Entries /\ e.client \in Client /\ e.session \in Nat
  BY OrderedLogTyped DEF History, Entries
<1>2. table \in [Client -> Records] /\ \A c \in Client : table[c] # NoRecord => table[c].session # 0
  BY <1>1, TableTyped
<1>3. CASE e.session = 0
  <2> DEFINE session == Registered(table, i, e.client)[e.client].session
  <2>1. session \in Nat \ {0}
    <3>1. CASE table[e.client] # NoRecord
      BY <1>1, <1>2, <3>1 DEF Registered, Records
    <3>2. CASE table[e.client] = NoRecord
      <4> DEFINE old == IF Cardinality({d \in Client : table[d] # NoRecord}) >= ClientsMax
                        THEN Evict(table) ELSE table
                 new == [NoRecord EXCEPT !.session = i, !.op = i]
      <4>1. Registered(table, i, e.client) = [old EXCEPT ![e.client] = new]
        BY <3>2 DEF Registered
      <4>2. DOMAIN old = Client
        BY <1>2 DEF Evict
      <4>3. new.session = i
        BY DEF NoRecord
      <4> HIDE DEF old, new
      <4>4. Registered(table, i, e.client)[e.client] = new
        BY <1>1, <4>1, <4>2
      <4> QED
        BY <4>3, <4>4
    <3> QED
      BY <3>1, <3>2
  <2> HIDE DEF session
  <2>2. ReplyTo(table, i, e) =
          [type |-> "Registered", client |-> e.client, number |-> 0, result |-> 0,
           session |-> session]
    BY <1>3 DEF ReplyTo, session
  <2> QED
    BY <2>1, <2>2 DEF ReplyOK
<1>4. CASE e.session # 0 /\ InSession(table, e)
  <2>1. ReplyTo(table, i, e) =
         [type |-> "Executed", client |-> e.client, session |-> e.session,
          number |-> e.number, result |-> i]
    BY <1>4 DEF ReplyTo
  <2>2. ExecutedAt(r.log, i, e.client, e.session, e.number)
    BY <1>4 DEF ExecutedAt, IsRequest, TableBefore
  <2> QED
    BY <1>1, <2>1, <2>2 DEF ReplyOK
<1>5. CASE e.session # 0 /\ ~InSession(table, e)
  <2>1. ReplyTo(table, i, e) =
         [type |-> "Evicted", client |-> e.client, session |-> e.session,
          number |-> 0, result |-> 0]
    BY <1>5 DEF ReplyTo
  <2> QED
    BY <1>1, <1>5, <2>1 DEF ReplyOK
<1> QED
  BY <1>3, <1>4, <1>5

\* apply_committed of all that is committed.
LEMMA ApplyCommittedProgress ==
  ASSUME NEW r, Committing(r), NEW op \in Nat, r.commit_number <= op
  PROVE  Progress(r, ApplyCommitted(r, op))
<1> DEFINE upto == Higher(r.applied, Lower(r.commit_number, op))
           ran == r.applied + 1 .. upto
           sm == [i \in 1 .. upto |-> IF i <= r.applied THEN r.sm[i] ELSE r.log[i]]
           given == {ReplyTo(ClientTable(sm, i - 1), i, sm[i]) : i \in ran \intersect r.reply_ops}
           ok == r.ok /\ \A i \in ran : InOrder(ClientTable(sm, i - 1), sm[i])
           s == [r EXCEPT !.applied = upto, !.sm = sm, !.replies = @ \union given,
                          !.reply_ops = @ \ (1 .. upto), !.ok = ok]
<1>1. /\ r.applied \in Nat /\ r.commit_number \in Nat /\ r.op_number \in Nat
      /\ r.applied <= r.commit_number /\ r.commit_number <= r.op_number /\ r.log_start = 0
      /\ OrderedLog(r.log, r.op_number) /\ r.ok
  BY DEF Committing
<1>2. upto = r.commit_number
  BY <1>1 DEF Higher, Lower
<1>3. ran \subseteq r.log_start + 1 .. r.op_number
  BY <1>1, <1>2
<1>4. ApplyCommitted(r, op) = ExecuteQueries(s)
  BY <1>3 DEF ApplyCommitted
<1>5. \A i \in 1 .. upto : sm[i] = r.log[i] /\ i \in 1 .. r.op_number
  BY <1>1, <1>2 DEF Committing
<1>6. sm = [i \in 1 .. r.commit_number |-> r.log[i]]
  BY <1>2, <1>5
<1> HIDE DEF upto, sm
<1>7. ASSUME NEW i \in ran
      PROVE  /\ i \in 1 .. r.op_number /\ i <= r.commit_number /\ sm[i] = r.log[i]
             /\ ClientTable(sm, i - 1) = ClientTable(r.log, i - 1)
  <2>1. /\ i \in 1 .. upto /\ i \in Nat /\ i \in 1 .. r.op_number
        /\ i - 1 \in Nat /\ \A j \in 1 .. i - 1 : j \in 1 .. upto
    BY <1>1, <1>2, <1>7
  <2>2. \A j \in 1 .. i - 1 : sm[j] = r.log[j]
    BY <1>5, <2>1
  <2>3. ClientTable(sm, i - 1) = ClientTable(r.log, i - 1)
    BY <2>1, <2>2, ClientTablePrefix
  <2> QED
    BY <1>1, <1>2, <1>5, <2>1, <2>3
<1>8. ok
  <2>1. ASSUME NEW i \in ran
        PROVE  InOrder(ClientTable(sm, i - 1), sm[i])
    <3>1. InOrder(TableBefore(r.log, i), r.log[i])
      BY <1>1, <1>7 DEF OrderedLog
    <3> QED
      BY <1>7, <3>1 DEF TableBefore
  <2> QED
    BY <1>1, <2>1
<1>9. ASSUME NEW x \in given
      PROVE  ReplyOK(r, r.commit_number, x)
  <2>1. PICK i \in ran : x = ReplyTo(ClientTable(sm, i - 1), i, sm[i])
    OBVIOUS
  <2>2. i \in 1 .. r.op_number /\ i <= r.commit_number
    BY <1>7
  <2>3. x = ReplyTo(ClientTable(r.log, i - 1), i, r.log[i])
    BY <1>7, <2>1
  <2> QED
    BY <1>1, <2>2, <2>3, ReplyToOK
<1>10. /\ SameBut(r, s, {"applied", "sm", "replies", "reply_ops", "ok"})
       /\ s.applied = upto /\ s.sm = sm /\ s.replies = r.replies \union given /\ s.ok = ok
  BY DEF SameBut, Fields, Committing
<1> HIDE DEF s, given, ok, ran
<1>11. /\ Serving(s) /\ \A f \in ServingFields : s[f] = r[f]
  <2>1. /\ DOMAIN s = Fields /\ s.view_number = r.view_number /\ s.op_number = r.op_number
        /\ s.log_start = r.log_start /\ s.log = r.log /\ s.commit_number = r.commit_number
        /\ s.acked = r.acked /\ s.view_start_op = r.view_start_op
        /\ s.queries = r.queries /\ s.round = r.round
        /\ \A f \in ServingFields : s[f] = r[f]
    BY <1>10 DEF SameBut, Fields, ServingFields
  <2>2. s.applied = r.commit_number /\ s.sm = [i \in 1 .. s.applied |-> s.log[i]] /\ s.ok
    BY <1>2, <1>6, <1>8, <1>10, <2>1
  <2>3. s.applied \in 0 .. s.commit_number
    BY <1>1, <2>1, <2>2
  <2> QED
    BY <2>1, <2>2, <2>3 DEF Serving, Committing
<1>12. s.commit_number = r.commit_number /\ s.queries = r.queries /\ r.commit_number \in 0 .. s.commit_number
  BY <1>1, <1>10 DEF SameBut, Fields
<1>13. Progress(r, s)
  BY <1>9, <1>10, <1>11, <1>12 DEF Progress
<1> QED
  BY <1>4, <1>11, <1>13, ExecuteQueriesProgress, ProgressThrough

LEMMA CommitUpToProgress ==
  ASSUME NEW r, Serving(r), Synced(r), NEW commit \in 0 .. r.op_number
  PROVE  Progress(r, CommitUpTo(r, commit, TRUE))
<1> DEFINE ops_ == r.reply_ops \union (r.commit_number + 1 .. commit)
           s == [r EXCEPT !.commit_number = commit, !.reply_ops = ops_]
<1>1. /\ r.commit_number \in Nat /\ r.op_number \in Nat /\ commit \in Nat
      /\ r.applied = r.commit_number
  BY DEF Serving, Committing
<1>2. DurableOp(r) = r.op_number
  BY DEF DurableOp, Synced
<1>3. CASE commit <= r.commit_number
  BY <1>3, ProgressSelf DEF CommitUpTo
<1>4. CASE ~(commit <= r.commit_number)
  <2>1. CommitUpTo(r, commit, TRUE) = ApplyCommitted(s, r.op_number)
    BY <1>2, <1>4 DEF CommitUpTo
  <2>2. SameBut(r, s, {"commit_number", "reply_ops"}) /\ s.commit_number = commit
    BY DEF SameBut, Fields, Serving, Committing
  <2> HIDE DEF s
  <2>3. Committing(s)
    <3>1. /\ DOMAIN s = Fields /\ s.view_number = r.view_number /\ s.op_number = r.op_number
          /\ s.log_start = r.log_start /\ s.log = r.log /\ s.applied = r.applied /\ s.sm = r.sm
          /\ s.acked = r.acked /\ s.view_start_op = r.view_start_op
          /\ s.queries = r.queries /\ s.round = r.round /\ s.ok = r.ok
      BY <2>2 DEF SameBut, Fields
    <3>2. s.applied \in 0 .. s.commit_number /\ s.commit_number \in 0 .. s.op_number
      BY <1>1, <1>4, <2>2, <3>1
    <3> QED
      BY <3>1, <3>2 DEF Serving, Committing
  <2>4. commit <= r.op_number
    BY <1>1
  <2> DEFINE t == ApplyCommitted(s, r.op_number)
  <2>5. Progress(s, t)
    BY <1>1, <2>2, <2>3, <2>4, ApplyCommittedProgress
  <2>6. /\ \A f \in ServingFields : s[f] = r[f]
        /\ s.queries = r.queries /\ s.replies = r.replies /\ s.log = r.log
    BY <2>2 DEF SameBut, Fields, ServingFields
  <2> HIDE DEF t
  <2>7. r.commit_number \in 0 .. t.commit_number
    <3>1. commit \in 0 .. t.commit_number /\ t.commit_number \in Nat
      BY <2>2, <2>5 DEF Progress, Serving, Committing
    <3> QED
      BY <1>1, <1>4, <3>1
  <2>8. \A x \in t.replies \ r.replies : ReplyOK(r, t.commit_number, x)
    BY <2>5, <2>6 DEF Progress, ReplyOK
  <2> QED
    BY ZenonT(60), <2>1, <2>5, <2>6, <2>7, <2>8 DEF Progress, t
<1> QED
  BY <1>3, <1>4

LEMMA RegisterAckProgress ==
  ASSUME NEW r, Serving(r), Synced(r), NEW id \in ReplicaID, NEW op \in Nat
  PROVE  Progress(r, RegisterAck(r, id, op))
<1> DEFINE mark == Lower(op, r.op_number)
           acked == [r.acked EXCEPT ![id] = mark]
           reached == {a \in {acked[q] : q \in ReplicaID} :
                         Cardinality({q \in ReplicaID : acked[q] >= a}) >= Quorum}
           s == [r EXCEPT !.acked = acked]
           commit == Max(reached \union {0})
<1>1. RegisterAck(r, id, op) = r \/ RegisterAck(r, id, op) = CommitUpTo(s, commit, TRUE)
  BY Zenon DEF RegisterAck
<1>2. r.op_number \in Nat /\ r.acked \in [ReplicaID -> 0 .. r.op_number]
  BY DEF Serving, Committing
<1>3. mark \in 0 .. r.op_number
  BY <1>2 DEF Lower
<1>4. acked \in [ReplicaID -> 0 .. r.op_number]
  BY <1>2, <1>3
<1> HIDE DEF mark, acked
<1>5. commit \in 0 .. r.op_number
  <2>1. reached \union {0} \in SUBSET (0 .. r.op_number) /\ reached \union {0} # {}
    BY <1>2, <1>4
  <2> HIDE DEF reached
  <2> QED
    BY <1>2, <2>1, MaxIsGreatest
<1> HIDE DEF commit
<1>6. SameBut(r, s, {"acked"}) /\ s.acked = acked
  BY DEF SameBut, Fields, Serving, Committing
<1> HIDE DEF s
<1>7. Serving(s) /\ Synced(s)
  BY <1>2, <1>4, <1>6 DEF SameBut, Fields, Serving, Committing, Synced
<1>8. s.commit_number = r.commit_number /\ s.commit_number \in Nat /\ s.op_number = r.op_number
  BY <1>6, <1>7 DEF SameBut, Fields, Serving, Committing
<1>9. Progress(r, s)
  BY <1>6, <1>7, <1>8 DEF Progress, SameBut, Fields, ServingFields
<1>10. Progress(s, CommitUpTo(s, commit, TRUE))
  BY <1>5, <1>7, <1>8, CommitUpToProgress
<1> QED
  <2>1. Progress(r, CommitUpTo(s, commit, TRUE))
    BY <1>9, <1>10, ProgressThrough
  <2>2. Progress(r, r)
    BY ProgressSelf
  <2> QED
    BY <1>1, <2>1, <2>2

\* What a round or a message sent changes of the primary is not told apart.
RoundFields == {"confirmed", "round_confirmed", "round", "round_unsent", "early", "outbox"}

LEMMA RoundProgress ==
  ASSUME NEW r, Serving(r), NEW s, SameBut(r, s, RoundFields), s.round \in Nat
  PROVE  Progress(r, s)
<1>1. /\ DOMAIN s = Fields /\ s.view_number = r.view_number /\ s.op_number = r.op_number
      /\ s.log_start = r.log_start /\ s.log = r.log /\ s.applied = r.applied /\ s.sm = r.sm
      /\ s.acked = r.acked /\ s.view_start_op = r.view_start_op
      /\ s.queries = r.queries /\ s.ok = r.ok /\ s.commit_number = r.commit_number
      /\ s.replies = r.replies
      /\ \A f \in ServingFields : s[f] = r[f]
  BY DEF SameBut, Fields, RoundFields, ServingFields
<1>2. Serving(s)
  BY <1>1 DEF Serving, Committing
<1>3. r.commit_number \in 0 .. s.commit_number
  BY <1>1, <1>2 DEF Serving, Committing
<1> QED
  BY <1>1, <1>2, <1>3 DEF Progress

LEMMA SendToOthersFrame ==
  ASSUME NEW r, DOMAIN r = Fields, NEW m
  PROVE  SameBut(r, SendToOthers(r, m), {"early", "outbox"})
  BY DEF SendToOthers, SendTo, SameBut, Fields

LEMMA StartRoundFrame ==
  ASSUME NEW r, DOMAIN r = Fields, r.round \in Nat
  PROVE  SameBut(r, StartRound(r), RoundFields) /\ StartRound(r).round \in Nat
<1> DEFINE m == [type |-> "ConfirmView", view_number |-> r.view_number, round |-> r.round + 1]
           s == [r EXCEPT !.round = @ + 1, !.round_unsent = TRUE,
                          !.confirmed = [@ EXCEPT ![r.id] = r.round + 1]]
<1>1. SameBut(r, s, {"round", "round_unsent", "confirmed"}) /\ s.round = r.round + 1
  BY DEF SameBut, Fields
<1>2. StartRound(r) = SendToOthers(s, m)
  BY DEF StartRound
<1> HIDE DEF s, m
<1>3. SameBut(s, SendToOthers(s, m), {"early", "outbox"})
  BY <1>1, SendToOthersFrame DEF SameBut
<1> QED
  BY <1>1, <1>2, <1>3 DEF SameBut, RoundFields, Fields

LEMMA OnConfirmViewOkProgress ==
  ASSUME NEW r, Serving(r), NEW m
  PROVE  Progress(r, OnConfirmViewOk(r, m))
<1> DEFINE confirmed == [r.confirmed EXCEPT ![m.replica_id] = m.round]
           reached == Max({0} \union
                     {n \in {confirmed[q] : q \in ReplicaID} :
                        Cardinality({q \in ReplicaID : confirmed[q] >= n}) >= Quorum})
           s == [r EXCEPT !.confirmed = confirmed]
           t == [s EXCEPT !.round_confirmed = reached]
<1> HIDE DEF confirmed, reached
<1>1. SameBut(r, s, {"confirmed"}) /\ SameBut(r, t, {"confirmed", "round_confirmed"})
  BY DEF SameBut, Fields, Serving, Committing
<1>2. \/ OnConfirmViewOk(r, m) = r \/ OnConfirmViewOk(r, m) = s
      \/ OnConfirmViewOk(r, m) = ExecuteQueries(StartRound(t))
      \/ OnConfirmViewOk(r, m) = ExecuteQueries(t)
  BY Zenon DEF OnConfirmViewOk, s, t, confirmed, reached
<1> HIDE DEF s, t
<1>3. r.round \in Nat /\ s.round = r.round /\ t.round = r.round
  BY <1>1 DEF SameBut, Fields, Serving, Committing
<1>4. Progress(r, s) /\ Progress(r, t)
  <2>1. SameBut(r, s, RoundFields) /\ SameBut(r, t, RoundFields)
    BY <1>1 DEF SameBut, RoundFields
  <2> QED
    BY <1>3, <2>1, RoundProgress
<1>5. Serving(t)
  BY <1>4 DEF Progress
<1>6. Progress(t, StartRound(t))
  BY <1>3, <1>5, StartRoundFrame, RoundProgress DEF Serving, Committing
<1>7. Progress(r, ExecuteQueries(t))
  BY <1>4, <1>5, ExecuteQueriesProgress, ProgressThrough
<1>8. Progress(r, ExecuteQueries(StartRound(t)))
  <2>1. Serving(StartRound(t))
    BY <1>6 DEF Progress
  <2>2. Progress(StartRound(t), ExecuteQueries(StartRound(t)))
    BY <2>1, ExecuteQueriesProgress
  <2>3. Progress(r, StartRound(t))
    BY <1>4, <1>6, ProgressThrough
  <2> QED
    BY <2>2, <2>3, ProgressThrough
<1>9. Progress(r, r)
  BY ProgressSelf
<1> QED
  BY <1>2, <1>4, <1>7, <1>8, <1>9

\* The primary can go on, and no write is out.
CanSettle(r) ==
  /\ Serving(r) /\ r.id = PrimaryOf(r.view_number) /\ r.status = "Normal"
  /\ ~r.outstanding.out

\* What the owner makes of r.
Settles(r, q, sent) ==
  /\ PrimaryInv(q)
  /\ q.view_number = r.view_number /\ q.op_number = r.op_number /\ q.log = r.log
  /\ q.view_start_op = r.view_start_op
  /\ r.commit_number \in 0 .. q.commit_number
  /\ \A i \in DOMAIN q.queries : \E j \in DOMAIN r.queries : q.queries[i] = r.queries[j]
  /\ \A x \in sent :
       /\ x.view_number = r.view_number /\ x.reply.client \in Issuers
       /\ x.reply \in r.replies \/ ReplyOK(r, q.commit_number, x.reply)

LEMMA SettledIs ==
  ASSUME NEW r, CanSettle(r)
  PROVE  Settles(r, Settled(r).primary, Settled(r).replies)
<1> DEFINE t == TakeWrite(r)
           a == [t EXCEPT !.outstanding = NoWrite, !.durable = t.outstanding.op_number]
           b == IF Serves(a) /\ t.outstanding.last_normal_view = a.view_number
                THEN RegisterAck(a, a.id, DurableOp(a)) ELSE a
           d == ApplyCommitted(b, DurableOp(a))
           p == Persisted(t)
           q == Settled(r).primary
<1>0. Serving(r) /\ Committing(r)
  BY DEF CanSettle, Serving
<1>1. /\ SameBut(r, t, {"durable", "log_changed_from", "written", "outstanding", "outbox",
                        "outbox_waiting"})
      /\ t.log_changed_from = 0 /\ t.outstanding.op_number = r.op_number
  BY <1>0 DEF TakeWrite, SameBut, Fields, Committing, CanSettle
<1>2. /\ p = [d EXCEPT !.outbox_ready = @ \union t.outbox_waiting, !.outbox_waiting = {}]
  BY DEF Persisted
<1>3. /\ q = [p EXCEPT !.early = {}, !.outbox_ready = {}, !.replies = {}, !.round_unsent = FALSE]
      /\ \A x \in Settled(r).replies :
           /\ x.reply.client \in Issuers /\ x.reply \in p.replies /\ x.view_number = p.view_number
  BY DEF Settled
<1> HIDE DEF t, p, q
<1>4. /\ SameBut(t, a, {"outstanding", "durable"})
      /\ a.durable = r.op_number /\ a.outstanding = NoWrite
  BY <1>1 DEF SameBut, Fields
<1> HIDE DEF a
<1>5. /\ DOMAIN a = Fields /\ a.view_number = r.view_number /\ a.op_number = r.op_number
      /\ a.log_start = r.log_start /\ a.log = r.log /\ a.applied = r.applied /\ a.sm = r.sm
      /\ a.acked = r.acked /\ a.view_start_op = r.view_start_op
      /\ a.queries = r.queries /\ a.ok = r.ok /\ a.commit_number = r.commit_number
      /\ a.replies = r.replies /\ a.round = r.round
      /\ a.id = r.id /\ a.status = r.status /\ a.log_changed_from = 0
  BY <1>1, <1>4 DEF SameBut, Fields
<1>6. Serving(a) /\ Synced(a) /\ a.op_number \in Nat /\ a.id \in ReplicaID
  <2>1. Serving(a) /\ Synced(a) /\ a.op_number \in Nat
    BY <1>0, <1>4, <1>5 DEF Serving, Committing, Synced
  <2>2. a.id \in ReplicaID
    BY <1>5, <2>1, ConfigAssumption DEF PrimaryOf, ReplicaID, CanSettle, Serving, Committing
  <2> QED
    BY <2>1, <2>2
<1>7. DurableOp(a) = a.op_number
  BY <1>6 DEF DurableOp, Synced
<1>8. Progress(a, b)
  <2>1. Progress(a, RegisterAck(a, a.id, DurableOp(a)))
    BY <1>6, <1>7, RegisterAckProgress
  <2>2. Progress(a, a)
    BY <1>6, ProgressSelf
  <2> QED
    BY <2>1, <2>2
<1> HIDE DEF b
<1>9. Progress(b, d)
  <2>1. Committing(b) /\ b.op_number = a.op_number /\ b.commit_number \in Nat
        /\ b.commit_number <= b.op_number
    BY <1>6, <1>8 DEF Progress, Serving, Committing, ServingFields
  <2> QED
    BY <1>6, <1>7, <2>1, ApplyCommittedProgress
<1> HIDE DEF d
<1>10. Progress(a, d)
  BY <1>8, <1>9, ProgressThrough
<1>11. Serving(d) /\ \A f \in ServingFields : d[f] = a[f]
  BY <1>10 DEF Progress
<1>12. DOMAIN d = Fields
  BY <1>11 DEF Serving, Committing
<1>13. /\ SameBut(d, p, {"outbox_ready", "outbox_waiting"})
       /\ SameBut(d, q, {"outbox_ready", "outbox_waiting", "early", "replies", "round_unsent"})
       /\ q.replies = {}
  BY <1>2, <1>3, <1>12 DEF SameBut, Fields
<1>14. /\ DOMAIN q = Fields /\ q.view_number = d.view_number /\ q.op_number = d.op_number
       /\ q.log_start = d.log_start /\ q.log = d.log /\ q.applied = d.applied /\ q.sm = d.sm
       /\ q.acked = d.acked /\ q.view_start_op = d.view_start_op
       /\ q.queries = d.queries /\ q.ok = d.ok /\ q.commit_number = d.commit_number
       /\ q.round = d.round /\ q.id = d.id /\ q.status = d.status
       /\ q.log_changed_from = d.log_changed_from /\ q.durable = d.durable
       /\ q.outstanding = d.outstanding
       /\ p.replies = d.replies /\ p.view_number = d.view_number
  BY <1>13 DEF SameBut, Fields
<1>15. /\ d.view_number = a.view_number /\ d.op_number = a.op_number /\ d.log = a.log
       /\ d.view_start_op = a.view_start_op /\ d.id = a.id /\ d.status = a.status
       /\ d.log_changed_from = a.log_changed_from /\ d.durable = a.durable
       /\ d.outstanding = a.outstanding
  BY <1>11 DEF ServingFields
<1>16. Serving(q)
  BY <1>11, <1>14 DEF Serving, Committing
<1>17. PrimaryInv(q)
  <2>1. Synced(q)
    BY <1>5, <1>6, <1>14, <1>15 DEF Synced
  <2>2. q.id = PrimaryOf(q.view_number) /\ q.status = "Normal" /\ ~q.outstanding.out
    BY <1>4, <1>5, <1>14, <1>15 DEF CanSettle, NoWrite
  <2> QED
    BY <1>13, <1>16, <2>1, <2>2 DEF PrimaryInv
<1>18. /\ r.commit_number \in 0 .. q.commit_number
       /\ \A i \in DOMAIN q.queries : \E j \in DOMAIN r.queries : q.queries[i] = r.queries[j]
  BY <1>5, <1>10, <1>14 DEF Progress
<1>19. ASSUME NEW x \in Settled(r).replies
       PROVE  /\ x.view_number = r.view_number /\ x.reply.client \in Issuers
              /\ x.reply \in r.replies \/ ReplyOK(r, q.commit_number, x.reply)
  <2>1. /\ x.reply.client \in Issuers /\ x.reply \in d.replies /\ x.view_number = r.view_number
    BY <1>3, <1>5, <1>14, <1>15
  <2>2. x.reply \in r.replies \/ ReplyOK(a, q.commit_number, x.reply)
    BY <1>5, <1>10, <1>14, <2>1 DEF Progress
  <2> QED
    BY <1>5, <2>1, <2>2 DEF ReplyOK
<1> QED
  BY <1>5, <1>14, <1>15, <1>17, <1>18, <1>19 DEF Settles, q

-----------------------------------------------------------------------------
(* Steps of the primary *)

\* The answer to query q, once it may go, is one its client may get.
GoodQuery(q) ==
  /\ q.client \in Issuers /\ q.number \in Nat /\ q.op_number \in Nat
  /\ q.number < Unsent(clients[q.client], "Query")
  /\ \A j \in DOMAIN ops[q.client] :
       /\ ops[q.client][j].kind = "Query" /\ ops[q.client][j].end = Open
       /\ ops[q.client][j].number = q.number
       => Reflects(ops[q.client], j, q.op_number)

\* A reply that a primary with a log and so many ops committed may give.
GoodReply(log, commit, x) ==
  /\ x.type \in {"Registered", "Executed", "Evicted", "Queried"}
  /\ x.type \in {"Registered", "Evicted"} => x.session \in Nat \ {0}
  /\ x.type = "Executed" =>
       /\ x.result \in 1 .. commit
       /\ ExecutedAt(log, x.result, x.client, x.session, x.number)
  /\ x.type = "Queried" =>
       /\ x.result \in 0 .. commit
       /\ \E q : /\ GoodQuery(q) /\ q.client = x.client /\ q.number = x.number
                 /\ q.op_number <= x.result

\* An entry that a client sent, or a registration.
GoodEntry(e) ==
  e.session # 0 => /\ e.client \in Issuers
                   /\ SentRequest(clients[e.client], e.session, e.number, e.answered)

\* What the primary may be in the middle of a step.
GoodStep(r) ==
  /\ CanSettle(r)
  /\ Known <= r.op_number /\ Known <= Higher(r.commit_number, r.view_start_op)
  /\ \A i \in 1 .. r.op_number :
       \/ i <= primary.op_number /\ r.log[i] = primary.log[i]
       \/ i > primary.op_number /\ GoodEntry(r.log[i])
  /\ \A i \in DOMAIN r.queries : GoodQuery(r.queries[i])
  /\ \A x \in r.replies : GoodReply(r.log, r.commit_number, x)

LEMMA KnownOps ==
  ASSUME IInv
  PROVE  /\ Known \in Nat /\ Known <= primary.op_number /\ primary.op_number \in Nat
         /\ DOMAIN committed = 1 .. Known
         /\ \A i \in 1 .. Known : committed[i] = primary.log[i]
         /\ OrderedLog(committed, Known)
<1>1. PrimaryInv(primary) /\ CommittedInv
  BY DEF IInv
<1>2. /\ primary.op_number \in Nat /\ OrderedLog(primary.log, primary.op_number)
      /\ primary.commit_number \in Nat
  BY <1>1 DEF PrimaryInv, Serving, Committing
<1>3. /\ Known \in primary.commit_number .. primary.op_number
      /\ committed = [i \in 1 .. Known |-> primary.log[i]]
  BY <1>1 DEF CommittedInv
<1> HIDE DEF Known
<1>4. Known \in 0 .. primary.op_number
  BY <1>2, <1>3
<1>5. OrderedLog(committed, Known)
  BY <1>2, <1>3, <1>4, LogPrefix
<1>6. DOMAIN committed = 1 .. Known /\ \A i \in 1 .. Known : committed[i] = primary.log[i]
  BY <1>3
<1> QED
  BY <1>2, <1>4, <1>5, <1>6

\* What is committed grows, and stays the beginning of the primary's log.
Grown ==
  /\ Known \in Nat /\ Known' \in Nat /\ Known <= Known'
  /\ DOMAIN committed = 1 .. Known /\ DOMAIN committed' = 1 .. Known'
  /\ \A i \in 1 .. Known : committed'[i] = committed[i]
  /\ \A i \in 1 .. Known' : committed'[i] = primary'.log[i]
  /\ primary'.commit_number \in 0 .. Known' /\ Known' <= primary'.op_number
  /\ primary'.op_number \in Nat

LEMMA CommittedGrows ==
  ASSUME IInv, NEW r, GoodStep(r), NEW sent, Settles(r, primary', sent),
         committed' = [i \in 1 .. Higher(Cardinality(DOMAIN committed), primary'.commit_number) |->
                         IF i \in DOMAIN committed THEN committed[i] ELSE primary'.log[i]]
  PROVE  CommittedInv' /\ Grown
<1> DEFINE q == primary'
           m == Higher(Known, q.commit_number)
<1>1. /\ Known \in Nat /\ Known <= primary.op_number /\ primary.op_number \in Nat
      /\ DOMAIN committed = 1 .. Known
      /\ \A i \in 1 .. Known : committed[i] = primary.log[i]
  BY KnownOps
<1>2. committed' = [i \in 1 .. m |-> IF i \in DOMAIN committed THEN committed[i] ELSE q.log[i]]
  BY DEF Known
<1>3. /\ q.op_number = r.op_number /\ q.log = r.log /\ q.view_start_op = r.view_start_op
      /\ r.commit_number \in 0 .. q.commit_number
      /\ q.commit_number \in 0 .. q.op_number /\ q.op_number \in Nat
      /\ q.view_start_op \in 0 .. q.op_number
  BY DEF Settles, PrimaryInv, Serving, Committing
<1>4. /\ Known <= r.op_number /\ Known <= Higher(r.commit_number, r.view_start_op)
      /\ \A i \in 1 .. r.op_number :
           \/ i <= primary.op_number /\ r.log[i] = primary.log[i]
           \/ i > primary.op_number
  BY DEF GoodStep
<1> HIDE DEF q
<1>5. m \in Nat /\ m <= q.op_number /\ Known <= m /\ q.commit_number <= m /\ q.commit_number \in Nat
  <2> HIDE DEF Known
  <2> QED
    BY <1>1, <1>3, <1>4 DEF Higher
<1>6. m <= Higher(q.commit_number, q.view_start_op)
  <2> HIDE DEF Known
  <2> QED
    BY <1>1, <1>3, <1>4 DEF Higher
<1> HIDE DEF m
<1>7. DOMAIN committed' = 1 .. m
  BY <1>2
<1>8. Known' = m
  <2>1. Cardinality(1 .. m) = m
    BY <1>5, FS_Interval
  <2> QED
    BY <1>7, <2>1 DEF Known
<1> HIDE DEF Known
<1>9. \A i \in 1 .. Known : committed'[i] = committed[i] /\ committed[i] = q.log[i]
  <2> TAKE i \in 1 .. Known
  <2>1. i \in 1 .. m /\ i \in DOMAIN committed
    BY <1>1, <1>5
  <2>2. committed'[i] = committed[i]
    BY <1>2, <2>1
  <2>3. i \in 1 .. r.op_number /\ ~(i > primary.op_number)
    BY <1>1, <1>3, <1>4
  <2>4. r.log[i] = primary.log[i]
    BY <1>4, <2>3
  <2> QED
    BY <1>1, <1>3, <2>2, <2>4
<1>10. \A i \in 1 .. m : committed'[i] = q.log[i]
  <2> TAKE i \in 1 .. m
  <2>1. CASE i \in 1 .. Known
    BY <1>9, <2>1
  <2>2. CASE i \notin 1 .. Known
    BY <1>1, <1>2, <2>2
  <2> QED
    BY <2>1, <2>2
<1>11. committed' = [i \in 1 .. m |-> q.log[i]]
  BY <1>2, <1>10
<1>12. CommittedInv'
  <2>1. m \in q.commit_number .. q.op_number
    BY <1>3, <1>5
  <2> QED
    BY <1>6, <1>8, <1>11, <2>1 DEF CommittedInv, q
<1>13. Grown
  <2>1. q.commit_number \in 0 .. m /\ q.op_number \in Nat
    BY <1>3, <1>5
  <2>2. Known \in Nat /\ Known' \in Nat /\ Known <= Known' /\ DOMAIN committed' = 1 .. Known'
    BY <1>1, <1>5, <1>7, <1>8
  <2>3. \A i \in 1 .. Known' : committed'[i] = q.log[i]
    BY <1>8, <1>10
  <2>4. q.commit_number \in 0 .. Known' /\ Known' <= q.op_number
    BY <1>5, <1>8, <2>1
  <2> QED
    BY <1>1, <1>9, <2>1, <2>2, <2>3, <2>4 DEF Grown, q
<1> QED
  BY <1>12, <1>13

\* An operation that has not ended and is before the queue was sent, after all
\* those of the other kind before it had ended.
LEMMA SentBefore ==
  ASSUME NEW o, NEW k, NEW kind \in Kinds, IssuedInv(o, k), QueueOK(k, kind),
         k.queued \in Seq([kind : Kinds, number : Nat]),
         NEW j \in DOMAIN o, o[j].kind = kind, o[j].number < Unsent(k, kind)
  PROVE  /\ o[j].end = Open => j \in 1 .. SentUpTo(o, k)
         /\ o[j].end = Open => \A i \in 1 .. j - 1 : o[i].kind # kind => o[i].end # Open
<1>1. /\ Len(o) \in Nat /\ DOMAIN o = 1 .. Len(o)
      /\ Len(k.queued) \in Nat /\ DOMAIN k.queued = 1 .. Len(k.queued)
      /\ SentUpTo(o, k) \in Nat /\ SentUpTo(o, k) = Len(o) - Len(k.queued)
  BY SeqIs DEF IssuedInv, SentUpTo
<1>2. j \in 1 .. SentUpTo(o, k)
  <2> SUFFICES ASSUME j \notin 1 .. SentUpTo(o, k) PROVE FALSE
    OBVIOUS
  <2> DEFINE i == j - SentUpTo(o, k)
  <2>1. i \in DOMAIN k.queued /\ SentUpTo(o, k) + i = j
    BY SMTT(30), <1>1
  <2> HIDE DEF i
  <2>2. k.queued[i] = [kind |-> o[j].kind, number |-> o[j].number]
    BY <2>1 DEF IssuedInv
  <2>3. k.queued[i].kind = kind /\ k.queued[i].number = o[j].number
    BY <2>2
  <2>4. o[j].number \in QueuedNumbers(k, kind)
    BY <2>1, <2>3 DEF QueuedNumbers
  <2>5. o[j].number \in Unsent(k, kind) .. NextNumber(k, kind) - 1
    BY <2>4 DEF QueueOK
  <2>6. Unsent(k, kind) \in Nat /\ NextNumber(k, kind) \in Nat
    BY DEF QueueOK
  <2> QED
    BY <2>5, <2>6
<1>3. \A i \in 1 .. j - 1 : i \in 1 .. Len(o) /\ i < j
  BY <1>1, <1>2
<1> QED
  BY <1>2, <1>3 DEF IssuedInv

\* What the primary does leaves what is said of a client alone.
LEMMA IssuerStays ==
  ASSUME IInv, CommittedInv', Grown, NEW c \in Issuers,
         UNCHANGED <<clients, ops, connections>>,
         \A n \in 1 .. primary'.op_number :
           \/ n <= primary.op_number /\ primary'.log[n] = primary.log[n]
           \/ n > primary.op_number /\ GoodEntry(primary'.log[n]),
         primary'.queries \in Seq(WaitingQueries),
         \A i \in DOMAIN primary'.queries : GoodQuery(primary'.queries[i]),
         \A x \in replies' \ replies :
           x.reply.client \in Issuers /\ GoodReply(primary'.log, primary'.commit_number, x.reply)
  PROVE  IssuerInv(c)'
<1> DEFINE k == clients[c]
           o == ops[c]
<1>1. /\ ClientOK(k) /\ k.outbox = {}
      /\ IssuedInv(o, k) /\ DoneInv(o, c) /\ InOrderOf(o)
      /\ LoggedInv(o, k, c) /\ QueriedInv(o, k, c)
      /\ ConnectionInv(c)
      /\ \E e \in 0 .. Answers(c) : EpochInv(o, k, e)
  BY DEF IInv, IssuerInv
<1>2. /\ clients' = clients /\ ops' = ops /\ pending' = pending /\ answers' = answers
      /\ batches' = batches /\ got' = got
  BY DEF connections
<1>3. /\ Known \in Nat /\ Known' \in Nat /\ Known <= Known'
      /\ DOMAIN committed = 1 .. Known /\ DOMAIN committed' = 1 .. Known'
      /\ \A i \in 1 .. Known : committed'[i] = committed[i]
      /\ primary'.commit_number \in 0 .. Known'
      /\ Known <= primary.op_number /\ primary.op_number \in Nat
      /\ primary'.op_number \in Nat
  BY KnownOps DEF Grown
<1>4. Len(o) \in Nat /\ DOMAIN o = 1 .. Len(o) /\ \A i \in 1 .. Len(o) : o[i] \in Operations
  <2>1. o \in Seq(Operations)
    BY <1>1 DEF IssuedInv
  <2> QED
    BY <2>1, SeqIs
<1>5. \A i \in DOMAIN o : /\ o[i].kind \in Kinds /\ o[i].number \in Nat /\ o[i].end \in Int
                          /\ o[i].floor \in Nat /\ o[i].floor <= Known
  BY <1>1, <1>4 DEF Operations, DoneInv
<1>6. QueueOK(k, "Request") /\ QueueOK(k, "Query") /\ k.queued \in Seq([kind : Kinds, number : Nat])
  BY <1>1 DEF ClientOK, Kinds
<1>7. ASSUME NEW i \in DOMAIN o, Done(o[i])
      PROVE  /\ o[i].kind = "Request" => o[i].end \in 1 .. Known
             /\ o[i].kind = "Query" => o[i].end \in 0 .. Known
  BY <1>1, <1>3, <1>5, <1>7 DEF DoneInv
<1>8. IssuedInv(o, k)'
  BY <1>1, <1>2
<1>9. ASSUME NEW i \in 1 .. Known, NEW s, NEW number
      PROVE  ExecutedAt(committed, i, c, s, number) <=> ExecutedAt(committed', i, c, s, number)
  <2>1. i \in Nat \ {0} /\ \A j \in 1 .. i : committed[j] = committed'[j]
    BY <1>3
  <2> QED
    BY <2>1, ExecutedPrefix
<1>10. DoneInv(o, c)'
  <2>0. \A i \in DOMAIN o : o[i].floor <= Known'
    BY <1>3, <1>5
  <2> SUFFICES ASSUME NEW i \in DOMAIN o, Done(o[i])
               PROVE  /\ o[i].kind = "Request" =>
                           /\ o[i].end \in DOMAIN committed' /\ o[i].end > o[i].floor
                           /\ ExecutedAt(committed', o[i].end, c, committed'[o[i].end].session,
                                         o[i].number)
                      /\ o[i].kind = "Query" => o[i].end \in o[i].floor .. Known'
    BY <1>2, <2>0 DEF DoneInv, Done
  <2>1. CASE o[i].kind = "Request"
    <3>1. /\ o[i].end \in 1 .. Known /\ o[i].end > o[i].floor
          /\ ExecutedAt(committed, o[i].end, c, committed[o[i].end].session, o[i].number)
      BY <1>1, <1>7, <2>1 DEF DoneInv
    <3>2. o[i].end \in 1 .. Known' /\ committed'[o[i].end] = committed[o[i].end]
      BY <1>3, <3>1
    <3>3. ExecutedAt(committed', o[i].end, c, committed[o[i].end].session, o[i].number)
      BY <1>9, <3>1
    <3> QED
      BY <1>3, <2>1, <3>1, <3>2, <3>3
  <2>2. CASE o[i].kind = "Query"
    <3>1. o[i].end \in o[i].floor .. Known
      BY <1>1, <2>2 DEF DoneInv
    <3> QED
      BY <1>3, <1>5, <2>2, <3>1
  <2> QED
    BY <1>5, <2>1, <2>2 DEF Kinds
<1>11. LoggedInv(o, k, c)'
  <2> SUFFICES ASSUME NEW j \in DOMAIN o, o[j].kind = "Request", o[j].end = Open,
                      NEW n \in 1 .. primary'.op_number, k.session # 0,
                      IsRequest(primary'.log[n], c, k.session, o[j].number)
               PROVE  /\ n > o[j].floor
                      /\ \A i \in 1 .. j - 1 : o[i].kind = "Query" => o[i].end # Open /\ o[i].end < n
    BY <1>2 DEF LoggedInv
  <2>1. CASE n <= primary.op_number /\ primary'.log[n] = primary.log[n]
    <3>1. n \in 1 .. primary.op_number
      BY <1>3, <2>1
    <3> QED
      BY <1>1, <2>1, <3>1 DEF LoggedInv
  <2>2. CASE n > primary.op_number /\ GoodEntry(primary'.log[n])
    <3> DEFINE e == primary'.log[n]
    <3>1. e.client = c /\ e.session = k.session /\ e.number = o[j].number
      BY DEF IsRequest
    <3>2. SentRequest(k, e.session, e.number, e.answered)
      BY <2>2, <3>1 DEF GoodEntry
    <3>3. k.session > k.evicted /\ k.session \in Nat /\ k.evicted \in Nat
      BY <1>1 DEF ClientOK
    <3>4. o[j].number < Unsent(k, "Request")
      BY <3>1, <3>2, <3>3 DEF SentRequest
    <3>5. \A i \in 1 .. j - 1 : o[i].kind # "Request" => o[i].end # Open
      BY <1>1, <1>6, <3>4, SentBefore DEF Kinds
    <3>6. n > Known /\ n \in Nat
      BY <1>3, <2>2
    <3>7. n > o[j].floor
      BY <1>3, <1>5, <3>6
    <3>8. ASSUME NEW i \in 1 .. j - 1, o[i].kind = "Query"
          PROVE  o[i].end # Open /\ o[i].end < n
      <4>1. i \in DOMAIN o
        BY <1>4
      <4>2. o[i].end # Open
        BY <3>5, <3>8
      <4>3. CASE Done(o[i])
        BY <1>3, <1>7, <3>6, <3>8, <4>1, <4>2, <4>3
      <4>4. CASE ~Done(o[i])
        BY <3>6, <4>2, <4>4 DEF Done, Failed
      <4> QED
        BY <4>2, <4>3, <4>4
    <3> QED
      BY <3>7, <3>8
  <2> QED
    BY <2>1, <2>2
<1>12. QueriedInv(o, k, c)'
  <2>1. ASSUME NEW i \in DOMAIN primary'.queries, primary'.queries[i].client = c
        PROVE  /\ primary'.queries[i].number < Unsent(k, "Query")
               /\ \A j \in DOMAIN o :
                    o[j].kind = "Query" /\ o[j].end = Open /\ o[j].number = primary'.queries[i].number =>
                      Reflects(o, j, primary'.queries[i].op_number)
    BY <2>1 DEF GoodQuery
  <2>2. ASSUME NEW x \in replies', x.reply.client = c, x.reply.type = "Queried"
        PROVE  /\ x.reply.number \in Nat /\ x.reply.number < Unsent(k, "Query")
               /\ x.reply.result \in 0 .. Known'
               /\ \A j \in DOMAIN o :
                    o[j].kind = "Query" /\ o[j].end = Open /\ o[j].number = x.reply.number =>
                      Reflects(o, j, x.reply.result)
    <3>1. CASE x \in replies
      <4>1. /\ x.reply.number \in Nat /\ x.reply.number < Unsent(k, "Query")
            /\ x.reply.result \in 0 .. Known
            /\ \A j \in DOMAIN o :
                 o[j].kind = "Query" /\ o[j].end = Open /\ o[j].number = x.reply.number =>
                   Reflects(o, j, x.reply.result)
        BY <1>1, <2>2, <3>1 DEF QueriedInv
      <4>2. x.reply.result \in 0 .. Known'
        BY <1>3, <4>1
      <4> QED
        BY <4>1, <4>2
    <3>2. CASE x \notin replies
      <4>1. PICK q : /\ GoodQuery(q) /\ q.client = c /\ q.number = x.reply.number
                     /\ q.op_number <= x.reply.result
        BY <2>2, <3>2 DEF GoodReply
      <4>2. x.reply.result \in 0 .. Known'
        <5>1. x.reply.result \in 0 .. primary'.commit_number
          BY <2>2, <3>2 DEF GoodReply
        <5> QED
          BY <1>3, <5>1
      <4>3. ASSUME NEW j \in DOMAIN o, o[j].kind = "Query", o[j].end = Open,
                   o[j].number = x.reply.number
            PROVE  Reflects(o, j, x.reply.result)
        <5>1. Reflects(o, j, q.op_number) /\ q.op_number \in Nat
          BY <4>1, <4>3 DEF GoodQuery
        <5>2. \A i \in 1 .. j - 1 : i \in DOMAIN o
          BY <1>4
        <5>3. x.reply.result \in Int
          BY <1>3, <4>2
        <5> QED
          BY <1>5, <4>1, <5>1, <5>2, <5>3 DEF Reflects
      <4> QED
        BY <4>1, <4>2, <4>3 DEF GoodQuery
    <3> QED
      BY <3>1, <3>2
  <2> QED
    BY <1>2, <2>1, <2>2 DEF QueriedInv
<1>13. \E e \in 0 .. Answers(c)' : EpochInv(o, k, e)'
  <2>1. PICK e \in 0 .. Answers(c) : EpochInv(o, k, e)
    BY <1>1
  <2>2. e \in 0 .. Answers(c)'
    BY <1>2 DEF Answers
  <2>3. \A i \in DOMAIN o : o[i].kind = "Request" /\ Done(o[i]) =>
          committed'[o[i].end] = committed[o[i].end]
    BY <1>3, <1>7
  <2>4. \A i \in 1 .. e : i \in DOMAIN o
    <3>1. Answers(c) \in Nat /\ Len(pending[c]) \in Nat /\ Answers(c) = Len(o) - Len(pending[c])
      BY <1>1, SeqIs DEF ConnectionInv, Answers
    <3> HIDE DEF o
    <3> QED
      BY <1>4, <3>1
  <2>5. \A i \in e + 1 .. Len(o) : i \in DOMAIN o
    BY <1>4, <2>4
  <2>6. EpochInv(o, k, e)'
    BY <1>2, <2>1, <2>3, <2>4, <2>5 DEF EpochInv, Done
  <2> QED
    BY <2>2, <2>6
<1>14. ConnectionInv(c)'
  <2>1. Answers(c)' = Answers(c) /\ Batches' = Batches
    BY <1>2 DEF Answers, Batches
  <2> QED
    BY <1>1, <1>2, <2>1 DEF ConnectionInv
<1>15. ClientOK(k)' /\ (k.outbox = {})' /\ InOrderOf(o)'
  BY <1>1, <1>2
<1> QED
  BY <1>8, <1>10, <1>11, <1>12, <1>13, <1>14, <1>15 DEF IssuerInv

\* A step of the primary keeps the invariant.
LEMMA PrimaryStep ==
  ASSUME IInv, NEW r, GoodStep(r), Leave(r), UNCHANGED connections
  PROVE  IInv'
<1> DEFINE sent == Settled(r).replies
<1>1. /\ primary' = Settled(r).primary /\ replies' = replies \union sent
      /\ committed' = [i \in 1 .. Higher(Cardinality(DOMAIN committed), primary'.commit_number) |->
                         IF i \in DOMAIN committed THEN committed[i] ELSE primary'.log[i]]
      /\ net' \subseteq net /\ clients' = clients /\ ops' = ops
  BY DEF Leave
<1>2. Settles(r, primary', sent)
  BY <1>1, SettledIs DEF GoodStep
<1> HIDE DEF sent
<1>3. CommittedInv' /\ Grown
  BY <1>1, <1>2, CommittedGrows
<1>4. PrimaryInv(primary') /\ primary'.queries \in Seq(WaitingQueries)
  BY <1>2 DEF Settles, PrimaryInv, Serving, Committing
<1>5. \A n \in 1 .. primary'.op_number :
           \/ n <= primary.op_number /\ primary'.log[n] = primary.log[n]
           \/ n > primary.op_number /\ GoodEntry(primary'.log[n])
  BY <1>2 DEF Settles, GoodStep
<1>6. \A i \in DOMAIN primary'.queries : GoodQuery(primary'.queries[i])
  BY <1>2 DEF Settles, GoodStep
<1>7. ASSUME NEW x \in sent
      PROVE  /\ x.reply.client \in Issuers /\ x.view_number \in Nat
             /\ GoodReply(primary'.log, primary'.commit_number, x.reply)
  <2>1. /\ x.view_number = r.view_number /\ x.reply.client \in Issuers
        /\ x.reply \in r.replies \/ ReplyOK(r, primary'.commit_number, x.reply)
        /\ primary'.log = r.log /\ r.commit_number \in 0 .. primary'.commit_number
        /\ primary'.commit_number \in Nat
    BY <1>2 DEF Settles, PrimaryInv, Serving, Committing
  <2>2. x.view_number \in Nat
    BY <2>1 DEF GoodStep, CanSettle, Serving, Committing
  <2>3. CASE x.reply \in r.replies
    <3>1. GoodReply(r.log, r.commit_number, x.reply)
      BY <2>3 DEF GoodStep
    <3>2. /\ \A n \in 0 .. r.commit_number : n \in 0 .. primary'.commit_number
          /\ \A n \in 1 .. r.commit_number : n \in 1 .. primary'.commit_number
      BY <2>1
    <3> QED
      BY <2>1, <2>2, <3>1, <3>2 DEF GoodReply
  <2>4. CASE ReplyOK(r, primary'.commit_number, x.reply)
    <3>1. \A j \in DOMAIN r.queries : GoodQuery(r.queries[j])
      BY DEF GoodStep
    <3> QED
      BY <2>1, <2>2, <2>4, <3>1 DEF GoodReply, ReplyOK
  <2> QED
    BY <2>1, <2>3, <2>4
<1>8. \A x \in replies' \ replies :
        x.reply.client \in Issuers /\ GoodReply(primary'.log, primary'.commit_number, x.reply)
  BY <1>1, <1>7
<1>9. \A c \in Issuers : IssuerInv(c)'
  BY <1>1, <1>3, <1>4, <1>5, <1>6, <1>8, IssuerStays
<1>10. MessagesInv'
  <2>1. MessagesInv
    BY DEF IInv
  <2> QED
    BY <1>1, <2>1 DEF MessagesInv
<1>11. LogInv'
  <2> SUFFICES ASSUME NEW i \in 1 .. primary'.op_number, primary'.log[i].session # 0
               PROVE  /\ primary'.log[i].client \in Issuers
                      /\ SentRequest(clients[primary'.log[i].client], primary'.log[i].session,
                                     primary'.log[i].number, primary'.log[i].answered)
    BY <1>1 DEF LogInv
  <2>1. CASE i <= primary.op_number /\ primary'.log[i] = primary.log[i]
    <3>1. i \in 1 .. primary.op_number
      BY <2>1, KnownOps
    <3> QED
      BY <2>1, <3>1 DEF IInv, LogInv
  <2>2. CASE GoodEntry(primary'.log[i])
    BY <2>2 DEF GoodEntry
  <2> QED
    BY <1>5, <2>1, <2>2
<1>12. RepliesInv'
  <2> SUFFICES ASSUME NEW x \in replies'
               PROVE  /\ x.view_number \in Nat
                      /\ x.reply.client \in Issuers
                      /\ x.reply.type \in {"Registered", "Executed", "Evicted", "Queried"}
                      /\ x.reply.type \in {"Registered", "Evicted"} => x.reply.session \in Nat \ {0}
                      /\ x.reply.type = "Executed" =>
                           /\ x.reply.result \in DOMAIN committed'
                           /\ ExecutedAt(committed', x.reply.result, x.reply.client,
                                         x.reply.session, x.reply.number)
    BY DEF RepliesInv
  <2>1. ASSUME NEW i, NEW log, i \in DOMAIN committed', i \in Nat \ {0},
               \A j \in 1 .. i : log[j] = committed'[j],
               NEW c, NEW s, NEW number, ExecutedAt(log, i, c, s, number)
        PROVE  ExecutedAt(committed', i, c, s, number)
    BY <2>1, ExecutedPrefix
  <2>2. CASE x \in replies
    <3>1. /\ x.view_number \in Nat
          /\ x.reply.client \in Issuers
          /\ x.reply.type \in {"Registered", "Executed", "Evicted", "Queried"}
          /\ x.reply.type \in {"Registered", "Evicted"} => x.reply.session \in Nat \ {0}
          /\ x.reply.type = "Executed" =>
               /\ x.reply.result \in DOMAIN committed
               /\ ExecutedAt(committed, x.reply.result, x.reply.client,
                             x.reply.session, x.reply.number)
      BY <2>2 DEF IInv, RepliesInv
    <3>2. ASSUME x.reply.type = "Executed"
          PROVE  /\ x.reply.result \in DOMAIN committed'
                 /\ ExecutedAt(committed', x.reply.result, x.reply.client,
                               x.reply.session, x.reply.number)
      <4>1. /\ x.reply.result \in DOMAIN committed' /\ x.reply.result \in Nat \ {0}
            /\ \A j \in 1 .. x.reply.result : committed[j] = committed'[j]
        BY <1>3, <3>1, <3>2 DEF Grown
      <4> QED
        BY <2>1, <3>1, <3>2, <4>1
    <3> QED
      BY <3>1, <3>2
  <2>3. CASE x \notin replies
    <3>1. /\ x.reply.client \in Issuers /\ x.view_number \in Nat
          /\ GoodReply(primary'.log, primary'.commit_number, x.reply)
      BY <1>1, <1>7, <2>3
    <3>2. ASSUME x.reply.type = "Executed"
          PROVE  /\ x.reply.result \in DOMAIN committed'
                 /\ ExecutedAt(committed', x.reply.result, x.reply.client,
                               x.reply.session, x.reply.number)
      <4>1. x.reply.result \in 1 .. primary'.commit_number
        BY <3>1, <3>2 DEF GoodReply
      <4>2. /\ x.reply.result \in DOMAIN committed' /\ x.reply.result \in Nat \ {0}
            /\ \A j \in 1 .. x.reply.result : primary'.log[j] = committed'[j]
        BY <1>3, <4>1 DEF Grown
      <4>3. ExecutedAt(primary'.log, x.reply.result, x.reply.client,
                       x.reply.session, x.reply.number)
        BY <3>1, <3>2 DEF GoodReply
      <4> QED
        BY <2>1, <4>2, <4>3
    <3> QED
      BY <3>1, <3>2 DEF GoodReply
  <2> QED
    BY <2>2, <2>3
<1>13. /\ pending' = pending /\ answers' = answers /\ batches' = batches /\ got' = got
       /\ Batches' = Batches
  BY DEF connections, Batches
<1>14. /\ (DOMAIN clients = Issuers /\ DOMAIN ops = Issuers)'
       /\ (DOMAIN pending = Issuers /\ DOMAIN got = Issuers)'
       /\ (answers \in Seq(ReadyAnswers) /\ batches \in Seq(Seq(ReadyAnswers)))'
       /\ (\A b \in DOMAIN Batches : \A p \in DOMAIN Batches[b] : AnswerOK(Batches[b][p]))'
  <2>1. /\ DOMAIN clients = Issuers /\ DOMAIN ops = Issuers
        /\ DOMAIN pending = Issuers /\ DOMAIN got = Issuers
        /\ answers \in Seq(ReadyAnswers) /\ batches \in Seq(Seq(ReadyAnswers))
        /\ \A b \in DOMAIN Batches : \A p \in DOMAIN Batches[b] : AnswerOK(Batches[b][p])
    BY DEF IInv
  <2> QED
    BY <1>1, <1>13, <2>1 DEF AnswerOK
<1> QED
  BY <1>3, <1>4, <1>9, <1>10, <1>11, <1>12, <1>14 DEF IInv

\* The queries that wait at the primary are such.
LEMMA QueriesGood ==
  ASSUME IInv, NEW i \in DOMAIN primary.queries
  PROVE  GoodQuery(primary.queries[i])
<1> DEFINE q == primary.queries[i]
<1>1. primary.queries \in Seq(WaitingQueries)
  BY DEF IInv, PrimaryInv, Serving, Committing
<1>2. q \in WaitingQueries
  BY <1>1, SeqIs
<1>3. q.client \in Issuers /\ q.number \in Nat /\ q.op_number \in Nat
  BY <1>2 DEF WaitingQueries
<1>4. QueriedInv(ops[q.client], clients[q.client], q.client)
  BY <1>3 DEF IInv, IssuerInv
<1> QED
  BY <1>3, <1>4 DEF QueriedInv, GoodQuery

\* The primary as it is.
LEMMA PrimaryGood ==
  ASSUME IInv
  PROVE  /\ GoodStep(primary) /\ Serving(primary) /\ Synced(primary) /\ primary.replies = {}
         /\ Known <= Higher(primary.commit_number, primary.view_start_op)
<1>1. /\ PrimaryInv(primary) /\ CommittedInv
  BY DEF IInv
<1>2. /\ Known \in Nat /\ Known <= primary.op_number /\ primary.op_number \in Nat
  BY KnownOps
<1>3. CanSettle(primary) /\ Serving(primary) /\ Synced(primary) /\ primary.replies = {}
  BY <1>1 DEF PrimaryInv, CanSettle
<1>4. Known <= Higher(primary.commit_number, primary.view_start_op)
  BY <1>1 DEF CommittedInv
<1>5. \A i \in 1 .. primary.op_number : i <= primary.op_number
  BY <1>2
<1> QED
  BY <1>2, <1>3, <1>4, <1>5, QueriesGood DEF GoodStep

\* The primary executes some ops and queries.
LEMMA ProgressGood ==
  ASSUME IInv, NEW r, Progress(primary, r)
  PROVE  GoodStep(r)
<1>1. /\ GoodStep(primary) /\ Serving(primary) /\ primary.replies = {}
      /\ Known <= Higher(primary.commit_number, primary.view_start_op)
      /\ Known \in Nat /\ Known <= primary.op_number /\ primary.op_number \in Nat
  BY PrimaryGood, KnownOps
<1>2. /\ r.id = primary.id /\ r.status = primary.status /\ r.view_number = primary.view_number
      /\ r.op_number = primary.op_number /\ r.log = primary.log /\ r.outstanding = primary.outstanding
      /\ r.view_start_op = primary.view_start_op
  BY DEF Progress, ServingFields
<1>3. CanSettle(r)
  BY <1>1, <1>2 DEF Progress, GoodStep, CanSettle
<1>4. Known <= r.op_number /\ Known <= Higher(r.commit_number, r.view_start_op)
  <2>1. /\ primary.commit_number \in 0 .. r.commit_number /\ r.commit_number \in Nat
        /\ r.view_start_op \in Nat
    BY <1>2 DEF Progress, Serving, Committing
  <2> HIDE DEF Known
  <2> QED
    BY <1>1, <1>2, <2>1 DEF Higher
<1>5. \A i \in 1 .. r.op_number : i <= primary.op_number /\ r.log[i] = primary.log[i]
  BY <1>1, <1>2
<1>6. \A i \in DOMAIN r.queries : GoodQuery(r.queries[i])
  BY QueriesGood DEF Progress
<1>7. ASSUME NEW x \in r.replies
      PROVE  GoodReply(r.log, r.commit_number, x)
  <2>1. ReplyOK(primary, r.commit_number, x)
    BY <1>1 DEF Progress
  <2> QED
    BY <1>2, <2>1, QueriesGood DEF ReplyOK, GoodReply
<1> QED
  BY <1>3, <1>4, <1>5, <1>6, <1>7 DEF GoodStep

\* The primary appends an entry.
LEMMA PrepareGood ==
  ASSUME IInv, NEW e, GoodEntry(e),
         OrderedLog([i \in 1 .. primary.op_number + 1 |->
                       IF i = primary.op_number + 1 THEN e ELSE primary.log[i]],
                    primary.op_number + 1)
  PROVE  GoodStep(Prepare(primary, e))
<1> DEFINE r == primary
           op == r.op_number + 1
           g == [i \in 1 .. op |-> IF i = op THEN e ELSE r.log[i]]
           a == AppendToLog(r, e)
           m == [type |-> "Prepare", view_number |-> a.view_number, op_number |-> a.op_number,
                 entry |-> e, commit_number |-> a.commit_number]
           s == Prepare(r, e)
<1>1. /\ GoodStep(r) /\ Serving(r) /\ CanSettle(r) /\ r.replies = {}
      /\ Known \in Nat /\ Known <= r.op_number /\ r.op_number \in Nat /\ op \in Nat
      /\ Known <= Higher(r.commit_number, r.view_start_op)
  BY PrimaryGood, KnownOps DEF GoodStep
<1>2. DOMAIN r = Fields /\ r.log_start = 0
  BY <1>1 DEF Serving, Committing
<1>3. /\ SameBut(r, a, {"op_number", "log", "log_changed_from"})
      /\ a.op_number = op /\ a.log = g
  <2> DEFINE b == MarkLogChanged(r, op)
             grown == [i \in r.log_start + 1 .. op |-> IF i = op THEN e ELSE r.log[i]]
  <2>1. SameBut(r, b, {"log_changed_from"})
    BY <1>2 DEF MarkLogChanged, SameBut, Fields
  <2>2. a = [b EXCEPT !.op_number = op, !.log = grown]
    BY DEF AppendToLog
  <2>3. grown = g
    BY <1>2
  <2> HIDE DEF a, b, grown, g
  <2> QED
    BY <2>1, <2>2, <2>3 DEF SameBut, Fields
<1>4. s = SendToOthers(a, m)
  BY DEF Prepare
<1> HIDE DEF a, m, s, g
<1>5. SameBut(a, s, {"early", "outbox"})
  BY <1>3, <1>4, SendToOthersFrame DEF SameBut
<1>6. /\ DOMAIN s = Fields /\ s.view_number = r.view_number /\ s.op_number = op
      /\ s.log_start = r.log_start /\ s.log = g /\ s.applied = r.applied /\ s.sm = r.sm
      /\ s.acked = r.acked /\ s.view_start_op = r.view_start_op
      /\ s.queries = r.queries /\ s.ok = r.ok /\ s.commit_number = r.commit_number
      /\ s.replies = r.replies /\ s.round = r.round
      /\ s.id = r.id /\ s.status = r.status /\ s.outstanding = r.outstanding
  BY <1>3, <1>5 DEF SameBut, Fields
<1>7. /\ \A i \in 1 .. r.op_number : i \in 1 .. op /\ g[i] = r.log[i]
      /\ g[op] = e /\ OrderedLog(g, op)
      /\ \A i \in 1 .. op : i \in 1 .. r.op_number \/ i = op
  BY <1>1 DEF g
<1>8. Serving(s)
  <2>1. /\ r.commit_number \in 0 .. r.op_number /\ r.applied = r.commit_number
        /\ r.view_start_op \in 0 .. r.op_number
        /\ r.acked \in [ReplicaID -> 0 .. r.op_number]
        /\ r.sm = [i \in 1 .. r.applied |-> r.log[i]]
    BY <1>1 DEF Serving, Committing
  <2>2. s.commit_number \in 0 .. op /\ s.view_start_op \in 0 .. op
    BY <1>1, <1>6, <2>1
  <2>3. s.acked \in [ReplicaID -> 0 .. op]
    BY <1>1, <1>6, <2>1
  <2>4. s.sm = [i \in 1 .. s.applied |-> s.log[i]]
    BY <1>1, <1>6, <1>7, <2>1
  <2> QED
    BY <1>1, <1>6, <1>7, <2>1, <2>2, <2>3, <2>4 DEF Serving, Committing
<1>9. CanSettle(s)
  BY <1>1, <1>6, <1>8 DEF CanSettle
<1>10. Known <= s.op_number
  BY <1>1, <1>6
<1>11. \A i \in 1 .. s.op_number : \/ i <= r.op_number /\ s.log[i] = r.log[i]
                                   \/ i > r.op_number /\ GoodEntry(s.log[i])
  BY <1>1, <1>6, <1>7
<1> QED
  BY <1>1, <1>6, <1>9, <1>10, <1>11 DEF GoodStep, s

\* The primary replies.
LEMMA ReplyGood ==
  ASSUME IInv, NEW x, GoodReply(primary.log, primary.commit_number, x)
  PROVE  GoodStep([primary EXCEPT !.replies = @ \union {x}])
<1> DEFINE s == [primary EXCEPT !.replies = @ \union {x}]
<1>1. GoodStep(primary) /\ Serving(primary) /\ CanSettle(primary)
  BY PrimaryGood DEF GoodStep
<1>2. DOMAIN primary = Fields
  BY <1>1 DEF Serving, Committing
<1>3. SameBut(primary, s, {"replies"}) /\ s.replies = primary.replies \union {x}
  BY <1>2 DEF SameBut, Fields
<1> HIDE DEF s
<1>4. /\ DOMAIN s = Fields /\ s.view_number = primary.view_number /\ s.op_number = primary.op_number
      /\ s.log_start = primary.log_start /\ s.log = primary.log /\ s.applied = primary.applied
      /\ s.sm = primary.sm /\ s.acked = primary.acked /\ s.view_start_op = primary.view_start_op
      /\ s.queries = primary.queries /\ s.ok = primary.ok /\ s.commit_number = primary.commit_number
      /\ s.round = primary.round
      /\ s.id = primary.id /\ s.status = primary.status /\ s.outstanding = primary.outstanding
  BY <1>3 DEF SameBut, Fields
<1>5. CanSettle(s)
  BY <1>1, <1>4 DEF CanSettle, Serving, Committing
<1> QED
  BY <1>1, <1>3, <1>4, <1>5 DEF GoodStep, s

\* A client registers.
LEMMA OnRegisterGood ==
  ASSUME IInv, NEW c \in Client
  PROVE  GoodStep(OnRegister(primary, c))
<1> DEFINE r == primary
           record == ClientTable(r.sm, r.applied)[c]
           last == Pending(r, c)
           x == [type |-> "Registered", client |-> c, session |-> record.session,
                 number |-> 0, result |-> 0]
<1>1. \/ OnRegister(r, c) = r
      \/ record # NoRecord /\ OnRegister(r, c) = [r EXCEPT !.replies = @ \union {x}]
      \/ OnRegister(r, c) = Prepare(r, Registration(c))
  BY Zenon DEF OnRegister
<1>2. GoodStep(r) /\ Serving(r)
  BY PrimaryGood
<1>3. GoodStep(Prepare(r, Registration(c)))
  <2>1. GoodEntry(Registration(c))
    BY DEF GoodEntry, Registration
  <2> QED
    BY <1>2, <2>1, ServingReads, RegistrationInOrder, PrepareGood
<1>4. ASSUME record # NoRecord
      PROVE  GoodStep([r EXCEPT !.replies = @ \union {x}])
  <2>1. /\ r.applied \in 0 .. r.op_number /\ r.op_number \in Nat
        /\ History(r.log, r.op_number) /\ r.applied \in 0 .. r.applied
    BY <1>2, OrderedLogTyped DEF Serving, Committing
  <2>2. record = ClientTable(r.log, r.applied)[c]
    BY <1>2, <2>1, ServingTable
  <2>3. record.session \in Nat \ {0}
    BY <1>4, <2>1, <2>2, TableTyped DEF Records
  <2> HIDE DEF record
  <2>4. GoodReply(r.log, r.commit_number, x)
    BY <2>3 DEF GoodReply
  <2> QED
    BY <2>4, ReplyGood
<1> QED
  BY <1>1, <1>2, <1>3, <1>4

\* A request arrives.
LEMMA OnRequestGood ==
  ASSUME IInv, NEW c \in Issuers, NEW session, NEW number, NEW answered,
         SentRequest(clients[c], session, number, answered)
  PROVE  GoodStep(OnRequest(primary, c, session, number, answered))
<1> DEFINE r == primary
           record == ClientTable(r.sm, r.applied)[c]
           last == Pending(r, c)
           latest == IF last # NoPending /\ last.session = session
                     THEN last.number ELSE record.number
           place == Len(record.replies) - (record.number - number)
           evicted == [type |-> "Evicted", client |-> c, session |-> session,
                       number |-> 0, result |-> 0]
           executed == [type |-> "Executed", client |-> c, session |-> session,
                        number |-> number, result |-> record.replies[place]]
           e == Request(c, session, number, answered)
<1>1. \/ OnRequest(r, c, session, number, answered) = r
      \/ OnRequest(r, c, session, number, answered) = [r EXCEPT !.replies = @ \union {evicted}]
      \/ /\ record.session = session /\ number <= record.number /\ ~(place < 1)
         /\ OnRequest(r, c, session, number, answered) = [r EXCEPT !.replies = @ \union {executed}]
      \/ /\ record.session = session /\ ~(last # NoPending /\ last.session > session)
         /\ number = latest + 1
         /\ OnRequest(r, c, session, number, answered) = Prepare(r, e)
  BY Zenon DEF OnRequest
<1>2. GoodStep(r) /\ Serving(r)
  BY PrimaryGood
<1>3. session \in Nat \ {0} /\ number \in Nat \ {0} /\ answered \in Nat /\ c \in Client
  BY ClientsAssumption DEF SentRequest
<1>4. /\ r.applied \in 0 .. r.op_number /\ r.op_number \in Nat /\ r.applied = r.commit_number
      /\ OrderedLog(r.log, r.op_number) /\ History(r.log, r.op_number)
      /\ r.applied \in 0 .. r.applied
  BY <1>2, OrderedLogTyped DEF Serving, Committing
<1>5. record = ClientTable(r.log, r.applied)[c]
  BY <1>2, <1>4, ServingTable
<1>6. record \in Records
  BY <1>3, <1>4, <1>5, TableTyped
<1>7. GoodStep([r EXCEPT !.replies = @ \union {evicted}])
  <2>1. GoodReply(r.log, r.commit_number, evicted)
    BY <1>3 DEF GoodReply
  <2> QED
    BY <2>1, ReplyGood
<1>8. ASSUME record.session = session, number <= record.number, ~(place < 1)
      PROVE  GoodStep([r EXCEPT !.replies = @ \union {executed}])
  <2>1. KeepsResults(r.log, r.applied, c)
    BY <1>3, <1>4, ResultsKept
  <2>2. /\ Len(record.replies) \in Nat /\ record.number \in Nat
    BY <1>6, SeqIs DEF Records
  <2>3. place \in 1 .. Len(record.replies) /\ record.number - Len(record.replies) + place = number
    BY SMTT(30), <1>3, <1>8, <2>2
  <2>4. /\ record.replies[place] \in 1 .. r.applied
        /\ ExecutedAt(r.log, record.replies[place], c, session,
                      record.number - Len(record.replies) + place)
    BY <1>3, <1>5, <1>8, <2>1, <2>3 DEF KeepsResults
  <2> HIDE DEF record, place
  <2>5. GoodReply(r.log, r.commit_number, executed)
    BY <1>4, <2>3, <2>4 DEF GoodReply
  <2> QED
    BY <2>5, ReplyGood
<1>9. ASSUME record.session = session, ~(last # NoPending /\ last.session > session),
             number = latest + 1
      PROVE  GoodStep(Prepare(r, e))
  <2>1. OrderedLog([i \in 1 .. r.op_number + 1 |-> IF i = r.op_number + 1 THEN e ELSE r.log[i]],
                   r.op_number + 1)
    <3> DEFINE log == r.log
    <3>1. Reads(r, log)
      BY <1>2, ServingReads
    <3>2. NextOf(r, log, c, session, number)
      BY <1>5, <1>9 DEF NextOf
    <3>3. e = Request(c, session, number, answered)
      OBVIOUS
    <3> DEFINE g == [i \in 1 .. r.op_number + 1 |-> IF i = r.op_number + 1 THEN e ELSE log[i]]
    <3>4. g = [i \in 1 .. r.op_number + 1 |-> IF i = r.op_number + 1 THEN e ELSE log[i]]
      OBVIOUS
    <3> HIDE DEF log, e, g
    <3>5. OrderedLog(g, r.op_number + 1)
      BY ONLY <1>3, <3>1, <3>2, <3>3, <3>4, NextInOrder
    <3> QED
      BY <3>5 DEF g, log
  <2>2. GoodEntry(e)
    BY DEF GoodEntry, Request
  <2> QED
    BY <2>1, <2>2, PrepareGood
<1> QED
  BY <1>1, <1>2, <1>7, <1>8, <1>9

\* A query arrives: it waits for all that is committed, so for the requests its
\* client issued before it.
LEMMA NewQueryGood ==
  ASSUME IInv, NEW c \in Issuers, NEW number \in Nat, number < Unsent(clients[c], "Query"),
         NEW q, q.client = c, q.number = number, q.op_number \in Nat, Known <= q.op_number
  PROVE  GoodQuery(q)
<1> DEFINE k == clients[c]
           o == ops[c]
<1>1. ClientOK(k) /\ IssuedInv(o, k) /\ DoneInv(o, c)
  BY DEF IInv, IssuerInv
<1>2. QueueOK(k, "Query") /\ k.queued \in Seq([kind : Kinds, number : Nat])
  BY <1>1 DEF ClientOK, Kinds
<1>3. Len(o) \in Nat /\ DOMAIN o = 1 .. Len(o) /\ \A i \in 1 .. Len(o) : o[i] \in Operations
  BY <1>1, SeqIs DEF IssuedInv
<1>4. Known \in Nat /\ DOMAIN committed = 1 .. Known
  BY KnownOps
<1> HIDE DEF Known
<1>5. ASSUME NEW j \in DOMAIN o, o[j].kind = "Query", o[j].end = Open, o[j].number = number
      PROVE  Reflects(o, j, q.op_number)
  <2>1. \A i \in 1 .. j - 1 : o[i].kind # "Query" => o[i].end # Open
    BY <1>1, <1>2, <1>5, SentBefore DEF Kinds
  <2>2. q.op_number >= o[j].floor
    <3>1. o[j].floor <= Known /\ o[j].floor \in Nat
      BY <1>1, <1>3 DEF DoneInv, Operations
    <3> QED
      BY <1>4, <3>1
  <2>3. ASSUME NEW i \in 1 .. j - 1, o[i].kind = "Request"
        PROVE  o[i].end # Open /\ o[i].end <= q.op_number
    <3>1. i \in DOMAIN o /\ o[i].end \in Int
      BY <1>3 DEF Operations
    <3>2. o[i].end # Open
      BY <2>1, <2>3
    <3>3. CASE Done(o[i])
      <4>1. o[i].end \in 1 .. Known
        BY <1>1, <1>4, <2>3, <3>1, <3>3 DEF DoneInv
      <4> QED
        BY <1>4, <3>2, <4>1
    <3>4. CASE ~Done(o[i])
      BY <3>2, <3>4 DEF Done, Failed
    <3> QED
      BY <3>3, <3>4
  <2> QED
    BY <2>2, <2>3 DEF Reflects
<1> QED
  BY <1>5 DEF GoodQuery

LEMMA OnQueryGood ==
  ASSUME IInv, NEW c \in Issuers, NEW number \in Nat, number < Unsent(clients[c], "Query")
  PROVE  GoodStep(OnQuery(primary, c, number))
<1> DEFINE r == primary
           round == RoundFor(r)
           q == [client |-> c, number |-> number, round |-> round,
                 op_number |-> Higher(r.commit_number, r.view_start_op)]
           t == StartRound(r)
<1>1. \/ OnQuery(r, c, number) = r
      \/ OnQuery(r, c, number) = [t EXCEPT !.queries = Append(@, q)]
      \/ OnQuery(r, c, number) = [r EXCEPT !.queries = Append(@, q)]
  BY Zenon DEF OnQuery
<1>2. GoodStep(r) /\ Serving(r)
  BY PrimaryGood
<1>3. /\ r.round \in Nat /\ DOMAIN r = Fields /\ Known \in Nat
      /\ Known <= Higher(r.commit_number, r.view_start_op)
      /\ Higher(r.commit_number, r.view_start_op) \in Nat
  BY <1>2, PrimaryGood, KnownOps DEF Serving, Committing, Higher
<1>4. q \in WaitingQueries
  BY <1>3 DEF WaitingQueries, RoundFor
<1>5. GoodQuery(q)
  BY <1>3, NewQueryGood
<1> HIDE DEF q
<1>6. ASSUME NEW s, Progress(r, s), s.replies = r.replies
      PROVE  GoodStep([s EXCEPT !.queries = Append(@, q)])
  <2> DEFINE u == [s EXCEPT !.queries = Append(@, q)]
  <2>1. GoodStep(s)
    BY <1>6, ProgressGood
  <2>2. Serving(s) /\ CanSettle(s) /\ DOMAIN s = Fields /\ s.queries \in Seq(WaitingQueries)
    BY <2>1 DEF GoodStep, CanSettle, Serving, Committing
  <2>3. SameBut(s, u, {"queries"}) /\ u.queries = Append(s.queries, q)
    BY <2>2 DEF SameBut, Fields
  <2> HIDE DEF u
  <2>4. /\ DOMAIN u = Fields /\ u.view_number = s.view_number /\ u.op_number = s.op_number
        /\ u.log_start = s.log_start /\ u.log = s.log /\ u.applied = s.applied /\ u.sm = s.sm
        /\ u.acked = s.acked /\ u.view_start_op = s.view_start_op
        /\ u.ok = s.ok /\ u.commit_number = s.commit_number
        /\ u.replies = s.replies /\ u.round = s.round
        /\ u.id = s.id /\ u.status = s.status /\ u.outstanding = s.outstanding
    BY <2>3 DEF SameBut, Fields
  <2>5. /\ u.queries \in Seq(WaitingQueries)
        /\ \A i \in DOMAIN u.queries : \/ i \in DOMAIN s.queries /\ u.queries[i] = s.queries[i]
                                       \/ u.queries[i] = q
    BY <1>4, <2>2, <2>3
  <2>6. CanSettle(u)
    BY <2>2, <2>4, <2>5 DEF CanSettle, Serving, Committing
  <2>7. \A i \in DOMAIN u.queries : GoodQuery(u.queries[i])
    BY <1>5, <2>1, <2>5 DEF GoodStep
  <2> QED
    BY <2>1, <2>4, <2>6, <2>7 DEF GoodStep, u
<1>7. Progress(r, r)
  BY <1>2, ProgressSelf
<1>8. Progress(r, t) /\ t.replies = r.replies
  <2>1. SameBut(r, t, RoundFields) /\ t.round \in Nat
    BY <1>3, StartRoundFrame
  <2> HIDE DEF t
  <2>2. t.replies = r.replies
    BY <2>1 DEF SameBut, RoundFields, Fields
  <2> QED
    BY <1>2, <2>1, <2>2, RoundProgress
<1> QED
  BY <1>1, <1>2, <1>6, <1>7, <1>8

\* A message of a client arrives.
LEMMA ReceivedGood ==
  ASSUME IInv, NEW e \in net
  PROVE  GoodStep(Received(e[1], e[2]))
<1> DEFINE c == e[1]
           m == e[2]
<1>1. /\ c \in Issuers /\ c \in Client
      /\ m.type \in {"Register", "Request", "Query"}
      /\ m.type = "Request" => SentRequest(clients[c], m.session, m.number, m.answered)
      /\ m.type = "Query" => m.number \in Nat /\ m.number < Unsent(clients[c], "Query")
  BY ClientsAssumption DEF IInv, MessagesInv
<1>2. CASE m.type = "Register"
  BY <1>1, <1>2, OnRegisterGood DEF Received
<1>3. CASE m.type = "Request"
  BY <1>1, <1>3, OnRequestGood DEF Received
<1>4. CASE m.type = "Query"
  BY <1>1, <1>4, OnQueryGood DEF Received
<1> QED
  BY <1>1, <1>2, <1>3, <1>4

\* A backup acknowledges an op or confirms a round.
LEMMA BackupGood ==
  ASSUME IInv
  PROVE  /\ Backup \in ReplicaID
         /\ \A op \in Nat :
              GoodStep(OnPrepareOk(primary, [view_number |-> primary.view_number,
                                             op_number |-> op, replica_id |-> Backup]))
         /\ \A m : GoodStep(OnConfirmViewOk(primary, m))
<1>1. Backup \in ReplicaID
  <2>1. \E id \in ReplicaID : id # primary.id
    <3>1. 0 \in ReplicaID /\ 1 \in ReplicaID
      BY ConfigAssumption DEF ReplicaID
    <3> QED
      BY <3>1
  <2> QED
    BY <2>1 DEF Backup
<1>2. Serving(primary) /\ Synced(primary) /\ GoodStep(primary)
  BY PrimaryGood
<1>3. ASSUME NEW op \in Nat
      PROVE  GoodStep(OnPrepareOk(primary, [view_number |-> primary.view_number,
                                            op_number |-> op, replica_id |-> Backup]))
  <2> DEFINE m == [view_number |-> primary.view_number, op_number |-> op, replica_id |-> Backup]
  <2>1. OnPrepareOk(primary, m) \in {primary, RegisterAck(primary, Backup, op)}
    BY DEF OnPrepareOk
  <2>2. Progress(primary, RegisterAck(primary, Backup, op))
    BY <1>1, <1>2, RegisterAckProgress
  <2> QED
    BY <1>2, <2>1, <2>2, ProgressGood
<1>4. ASSUME NEW m
      PROVE  GoodStep(OnConfirmViewOk(primary, m))
  BY <1>2, OnConfirmViewOkProgress, ProgressGood
<1> QED
  BY <1>1, <1>3, <1>4

\* The replica that starts the next view.
Successor(n) ==
  [New(PrimaryOf(primary.view_number + 1)) EXCEPT
     !.view_number = primary.view_number + 1, !.status = "ViewChange",
     !.log = [i \in 1 .. n |-> primary.log[i]], !.op_number = n, !.durable = n]

\* A view starts with all that is committed.
LEMMA SuccessorGood ==
  ASSUME IInv, NEW n \in Known .. primary.op_number, NEW commit \in 0 .. Known
  PROVE  GoodStep(EnterNormal(CommitUpTo(Successor(n), commit, TRUE)))
<1> DEFINE v == primary.view_number + 1
           log == [i \in 1 .. n |-> primary.log[i]]
           r == Successor(n)
           s == CommitUpTo(r, commit, TRUE)
           t == EnterNormal(s)
<1>1. /\ Known \in Nat /\ Known <= primary.op_number /\ primary.op_number \in Nat
      /\ OrderedLog(primary.log, primary.op_number) /\ primary.view_number \in Nat
  BY KnownOps DEF IInv, PrimaryInv, Serving, Committing
<1> HIDE DEF Known
<1>2. n \in Nat /\ Known <= n /\ n \in 0 .. primary.op_number /\ commit \in 0 .. n /\ v \in Nat
  BY <1>1
<1>3. OrderedLog(log, n)
  BY <1>1, <1>2, LogPrefix
<1>4. /\ DOMAIN r = Fields /\ r.view_number = v /\ r.op_number = n
      /\ r.log_start = 0 /\ r.log = log /\ r.applied = 0 /\ r.sm = NoEntries
      /\ r.acked = [q \in ReplicaID |-> 0] /\ r.view_start_op = 0
      /\ r.queries = <<>> /\ r.ok /\ r.commit_number = 0
      /\ r.replies = {} /\ r.round = 0 /\ r.log_changed_from = 0 /\ r.durable = n
      /\ r.id = PrimaryOf(v) /\ r.outstanding = NoWrite
  BY DEF Successor, New, Fields
<1> HIDE DEF log, r, v
<1>5. Serving(r) /\ Synced(r)
  <2>1. r.sm = [i \in 1 .. 0 |-> r.log[i]]
    BY <1>4 DEF NoEntries
  <2>2. r.acked \in [ReplicaID -> 0 .. n] /\ r.queries \in Seq(WaitingQueries)
    BY <1>2, <1>4
  <2> QED
    BY <1>2, <1>3, <1>4, <2>1, <2>2 DEF Serving, Committing, Synced
<1>6. Progress(r, s)
  BY <1>2, <1>4, <1>5, CommitUpToProgress
<1> HIDE DEF s
<1>7. /\ Serving(s) /\ s.id = r.id /\ s.view_number = r.view_number /\ s.log_start = r.log_start
      /\ s.op_number = r.op_number /\ s.log = r.log /\ s.outstanding = r.outstanding
      /\ \A x \in s.replies : ReplyOK(r, s.commit_number, x)
  BY <1>4, <1>6 DEF Progress, ServingFields
<1>8. DOMAIN s = Fields
  BY <1>7 DEF Serving, Committing
<1>9. /\ SameBut(s, t, {"status", "last_normal_view", "acked", "view_start_op",
                        "start_view_change_from", "do_view_change_sent", "do_view_change_from",
                        "catching_up", "fetch", "queries", "round", "round_confirmed",
                        "confirmed", "round_unsent"})
      /\ t.status = "Normal" /\ t.acked = [q \in ReplicaID |-> 0]
      /\ t.view_start_op = s.op_number /\ t.queries = <<>> /\ t.round = 0
  BY <1>8 DEF EnterNormal, ClearViewChangeState, SameBut, Fields
<1> HIDE DEF t
<1>10. /\ DOMAIN t = Fields /\ t.view_number = s.view_number /\ t.op_number = s.op_number
       /\ t.log_start = s.log_start /\ t.log = s.log /\ t.applied = s.applied /\ t.sm = s.sm
       /\ t.ok = s.ok /\ t.commit_number = s.commit_number
       /\ t.replies = s.replies /\ t.id = s.id /\ t.outstanding = s.outstanding
  BY <1>9 DEF SameBut, Fields
<1>11. CanSettle(t)
  <2>1. /\ t.acked \in [ReplicaID -> 0 .. t.op_number] /\ t.view_start_op \in 0 .. t.op_number
        /\ t.queries \in Seq(WaitingQueries) /\ t.round \in Nat
    BY <1>2, <1>4, <1>7, <1>9, <1>10
  <2>2. Serving(t)
    BY <1>7, <1>10, <2>1 DEF Serving, Committing
  <2> QED
    BY <1>4, <1>7, <1>9, <1>10, <2>2 DEF CanSettle, NoWrite
<1>12. Known <= t.op_number /\ Known <= Higher(t.commit_number, t.view_start_op)
  <2>1. t.commit_number \in 0 .. t.op_number /\ t.view_start_op = n /\ t.op_number = n
    BY <1>4, <1>7, <1>9, <1>10 DEF Serving, Committing
  <2> QED
    BY <1>1, <1>2, <2>1 DEF Higher
<1>13. \A i \in 1 .. t.op_number : i <= primary.op_number /\ t.log[i] = primary.log[i]
  BY <1>1, <1>2, <1>4, <1>7, <1>10 DEF log
<1>14. \A x \in t.replies : GoodReply(t.log, t.commit_number, x)
  BY <1>4, <1>7, <1>10 DEF ReplyOK, GoodReply
<1>15. \A i \in DOMAIN t.queries : GoodQuery(t.queries[i])
  BY <1>9
<1> QED
  BY <1>11, <1>12, <1>13, <1>14, <1>15 DEF GoodStep, t, s, r

\* What the replicas do keeps the invariant.
LEMMA PrimaryKeeps ==
  ASSUME IInv, UNCHANGED connections,
         PrimaryReceives \/ OthersRegister \/ BackupAcks \/ BackupConfirms \/ ViewStarts
  PROVE  IInv'
<1>1. CASE PrimaryReceives
  <2>1. PICK e \in net : Leave(Received(e[1], e[2]))
    BY <1>1 DEF PrimaryReceives, Arriving
  <2> QED
    BY <2>1, ReceivedGood, PrimaryStep
<1>2. CASE OthersRegister
  <2>1. PICK c \in Client : Leave(OnRegister(primary, c))
    BY <1>2 DEF OthersRegister
  <2> QED
    BY <2>1, OnRegisterGood, PrimaryStep
<1>3. CASE BackupAcks
  <2>1. PICK op \in primary.acked[Backup] + 1 .. primary.op_number :
          Leave(OnPrepareOk(primary, [view_number |-> primary.view_number, op_number |-> op,
                                      replica_id |-> Backup]))
    BY <1>3 DEF BackupAcks
  <2>2. op \in Nat
    <3>1. /\ primary.op_number \in Nat /\ primary.acked \in [ReplicaID -> 0 .. primary.op_number]
          /\ Backup \in ReplicaID
      BY BackupGood DEF IInv, PrimaryInv, Serving, Committing
    <3>2. primary.acked[Backup] \in Nat
      BY <3>1
    <3> QED
      BY <3>1, <3>2
  <2> QED
    BY <2>1, <2>2, BackupGood, PrimaryStep
<1>4. CASE BackupConfirms
  <2>1. PICK m : Leave(OnConfirmViewOk(primary, m))
    BY <1>4 DEF BackupConfirms
  <2> QED
    BY <2>1, BackupGood, PrimaryStep
<1>5. CASE ViewStarts
  <2>1. PICK n \in Known .. primary.op_number, commit \in 0 .. Known :
          Leave(EnterNormal(CommitUpTo(Successor(n), commit, TRUE)))
    BY <1>5 DEF ViewStarts, Successor, Known
  <2> QED
    BY <2>1, SuccessorGood, PrimaryStep
<1> QED
  BY <1>1, <1>2, <1>3, <1>4, <1>5

-----------------------------------------------------------------------------
(* The client *)

\* s is client k with other values in some fields.
ClientBut(k, s, changed) ==
  DOMAIN s = ClientFields /\ \A f \in ClientFields \ changed : s[f] = k[f]

\* A message that client k sent.
MessageOK(k, m) ==
  /\ m.type \in {"Register", "Request", "Query"}
  /\ m.type = "Request" => SentRequest(k, m.session, m.number, m.answered)
  /\ m.type = "Query" => m.number \in Nat /\ m.number < Unsent(k, "Query")

\* What k sent is what s sent too.
Forward(k, s) ==
  /\ \A session, number, answered :
       SentRequest(k, session, number, answered) => SentRequest(s, session, number, answered)
  /\ Unsent(k, "Query") \in Nat /\ Unsent(s, "Query") \in Nat
  /\ Unsent(k, "Query") <= Unsent(s, "Query")

LEMMA ForwardMessages ==
  ASSUME NEW k, NEW s, Forward(k, s), NEW m, MessageOK(k, m)
  PROVE  MessageOK(s, m)
  BY DEF Forward, MessageOK

LEMMA ForwardThrough ==
  ASSUME NEW k, NEW s, NEW t, Forward(k, s), Forward(s, t)
  PROVE  Forward(k, t)
  BY DEF Forward

\* The first number that is not sent, from the numbers queued.
LEMMA UnsentIs ==
  ASSUME NEW k, NEW kind, NextNumber(k, kind) \in Nat, NEW a \in 1 .. NextNumber(k, kind),
         QueuedNumbers(k, kind) = a .. NextNumber(k, kind) - 1
  PROVE  Unsent(k, kind) = a
<1> DEFINE S == {NextNumber(k, kind)} \union QueuedNumbers(k, kind)
<1>1. S \in SUBSET Nat /\ S # {} /\ a \in S /\ \A n \in S : a <= n
  OBVIOUS
<1> HIDE DEF S
<1>2. Min(S) \in S /\ \A n \in S : Min(S) <= n
  BY <1>1, MinIsLeast
<1>3. Min(S) = a
  <2>1. Min(S) \in Nat /\ a \in Nat /\ a <= Min(S) /\ Min(S) <= a
    BY <1>1, <1>2
  <2> QED
    BY <2>1
<1> QED
  BY <1>3 DEF Unsent, S

\* What a window holds, by number.
LEMMA WindowIs ==
  ASSUME NEW w, NEW b \in Nat, WindowOK(w, b)
  PROVE  /\ Len(w) \in Nat /\ DOMAIN w = 1 .. Len(w) /\ Len(w) < b
         /\ \A i \in 1 .. Len(w) : w[i].number = b - 1 - Len(w) + i /\ w[i].waits \in BOOLEAN
         /\ \A n \in Nat : w # <<>> => Oldest(w, n) = b - Len(w)
         /\ w = <<>> <=> Len(w) = 0
         /\ Oldest(w, b) = b - Len(w)
         /\ \A n \in Nat : Awaited(w, n) <=> Awaits(w, n)
<1>1. /\ Len(w) \in Nat /\ DOMAIN w = 1 .. Len(w) /\ Len(w) < b
      /\ \A i \in 1 .. Len(w) : w[i] \in [number : Nat, waits : BOOLEAN]
      /\ \A i \in 1 .. Len(w) : w[i].number = b - 1 - Len(w) + i
  BY SeqIs DEF WindowOK
<1>2. w = <<>> <=> Len(w) = 0
  BY DEF WindowOK
<1>3. w # <<>> => 1 \in 1 .. Len(w) /\ w[1].number = b - Len(w)
  BY <1>1, <1>2
<1>4. /\ \A n \in Nat : w # <<>> => Oldest(w, n) = b - Len(w)
      /\ Oldest(w, b) = b - Len(w)
  BY <1>1, <1>2, <1>3 DEF Oldest
<1>5. ASSUME NEW n \in Nat
      PROVE  Awaited(w, n) <=> Awaits(w, n)
  <2>1. CASE w = <<>>
    BY <1>1, <1>2, <2>1 DEF Awaited, Awaits
  <2>2. CASE w # <<>>
    <3> DEFINE i == n - Oldest(w, n) + 1
    <3>1. i = n - (b - Len(w)) + 1
      BY <1>4, <2>2
    <3>2. \A p \in 1 .. Len(w) : w[p].number = n <=> p = i
      BY <1>1, <3>1
    <3>3. Awaited(w, n) <=> i \in DOMAIN w /\ w[i].waits
      BY DEF Awaited
    <3> HIDE DEF i
    <3> QED
      BY <1>1, <3>2, <3>3 DEF Awaits
  <2> QED
    BY <2>1, <2>2
<1> QED
  BY <1>1, <1>2, <1>4, <1>5

\* The next is sent.
LEMMA WindowGrows ==
  ASSUME NEW w, NEW b \in Nat, WindowOK(w, b)
  PROVE  LET g == Append(w, InFlight(b))
         IN  /\ WindowOK(g, b + 1) /\ Len(g) = Len(w) + 1
             /\ Oldest(g, b + 1) = b - Len(w)
             /\ \A n : Awaits(g, n) <=> Awaits(w, n) \/ n = b
<1> DEFINE g == Append(w, InFlight(b))
           S == [number : Nat, waits : BOOLEAN]
<1>1. /\ Len(w) \in Nat /\ DOMAIN w = 1 .. Len(w) /\ Len(w) < b /\ w \in Seq(S)
      /\ \A i \in 1 .. Len(w) : w[i].number = b - 1 - Len(w) + i
      /\ w = <<>> <=> Len(w) = 0
      /\ w # <<>> => w[1].waits
  BY WindowIs DEF WindowOK
<1>2. InFlight(b) \in S /\ InFlight(b).number = b /\ InFlight(b).waits
  BY DEF InFlight
<1>3. /\ g \in Seq(S) /\ Len(g) = Len(w) + 1 /\ DOMAIN g = 1 .. Len(w) + 1
      /\ \A i \in 1 .. Len(w) : g[i] = w[i]
      /\ g[Len(w) + 1] = InFlight(b)
  <2> HIDE DEF S
  <2> QED
    BY <1>1, <1>2
<1> HIDE DEF g
<1>4. \A i \in DOMAIN g : i \in 1 .. Len(w) \/ i = Len(w) + 1
  BY <1>1, <1>3
<1>5. \A i \in DOMAIN g : g[i].number = b + 1 - 1 - Len(g) + i
  BY SMTT(30), <1>1, <1>2, <1>3, <1>4
<1>6. g[1].waits
  <2>1. CASE w = <<>>
    BY <1>1, <1>2, <1>3, <2>1
  <2>2. CASE w # <<>>
    BY <1>1, <1>3, <2>2
  <2> QED
    BY <2>1, <2>2
<1>7. WindowOK(g, b + 1)
  BY <1>1, <1>3, <1>5, <1>6 DEF WindowOK
<1>8. Oldest(g, b + 1) = b - Len(w)
  <2>1. b + 1 \in Nat
    OBVIOUS
  <2>2. Oldest(g, b + 1) = b + 1 - Len(g)
    BY <1>7, <2>1, WindowIs
  <2> QED
    BY <1>1, <1>3, <2>2
<1>9. ASSUME NEW n
      PROVE  Awaits(g, n) <=> Awaits(w, n) \/ n = b
  <2>1. Len(w) + 1 \in DOMAIN g /\ \A p \in DOMAIN w : p \in DOMAIN g
    BY <1>1, <1>3
  <2> QED
    BY <1>1, <1>2, <1>3, <1>4, <2>1 DEF Awaits
<1> QED
  BY <1>3, <1>7, <1>8, <1>9 DEF g

\* A reply comes.
LEMMA WindowAnswered ==
  ASSUME NEW w, NEW b \in Nat, WindowOK(w, b), NEW n \in Nat, Awaited(w, n)
  PROVE  LET g == Answered(w, n)
         IN  /\ WindowOK(g, b) /\ Len(g) <= Len(w) /\ Len(g) \in Nat
             /\ \A m \in Nat : Awaits(g, m) <=> Awaits(w, m) /\ m # n
<1> DEFINE S == [number : Nat, waits : BOOLEAN]
           i == n - Oldest(w, n) + 1
           left == [w EXCEPT ![i] = [@ EXCEPT !.waits = FALSE]]
           waiting == {j \in DOMAIN left : left[j].waits}
           first == Min(waiting)
           g == Answered(w, n)
<1>1. /\ Len(w) \in Nat /\ DOMAIN w = 1 .. Len(w) /\ Len(w) < b /\ w \in Seq(S)
      /\ \A p \in 1 .. Len(w) : w[p].number = b - 1 - Len(w) + p /\ w[p] \in S
  BY WindowIs, SeqIs DEF WindowOK
<1>2. i \in 1 .. Len(w) /\ w[i].waits
  BY <1>1 DEF Awaited
<1>3. w # <<>>
  BY <1>1, <1>2
<1>4. i = n - (b - Len(w)) + 1
  BY <1>3, WindowIs
<1>5. w[i].number = n
  BY <1>1, <1>2, <1>4
<1> HIDE DEF i
<1>6. /\ DOMAIN left = 1 .. Len(w)
      /\ \A p \in 1 .. Len(w) : left[p] \in S /\ left[p].number = w[p].number
      /\ \A p \in 1 .. Len(w) : left[p].waits <=> w[p].waits /\ p # i
  <2>1. \A p \in 1 .. Len(w) : p # i => left[p] = w[p]
    BY <1>1
  <2>2. left[i] = [w[i] EXCEPT !.waits = FALSE] /\ w[i] \in S
    BY <1>1, <1>2
  <2>3. left[i] \in S /\ left[i].number = w[i].number /\ left[i].waits = FALSE
    BY <2>2
  <2> HIDE DEF left
  <2>4. DOMAIN left = 1 .. Len(w)
    BY <1>1 DEF left
  <2> QED
    BY <1>1, <2>1, <2>3, <2>4
<1>7. left \in Seq(S) /\ Len(left) = Len(w)
  <2>1. left \in [1 .. Len(w) -> S]
    BY <1>1, <1>2, <1>6
  <2> HIDE DEF left, S
  <2> QED
    BY <1>1, <2>1
<1>8. g = IF waiting = {} THEN <<>> ELSE SubSeq(left, first, Len(left))
  BY DEF Answered, i
<1> HIDE DEF left, g
<1>9. \A m \in Nat : Awaits(left, m) <=> Awaits(w, m) /\ m # n
  <2>1. \A p \in 1 .. Len(w) : w[p].number = n <=> p = i
    BY <1>1, <1>2, <1>5
  <2> QED
    BY <1>1, <1>6, <2>1 DEF Awaits
<1>10. CASE waiting = {}
  <2>1. g = <<>>
    BY <1>8, <1>10
  <2>2. WindowOK(g, b) /\ Len(g) = 0
    BY <1>1, <2>1 DEF WindowOK
  <2>3. \A m : ~Awaits(g, m) /\ ~Awaits(left, m)
    BY <1>10, <2>1 DEF Awaits
  <2> QED
    BY <1>1, <1>9, <2>2, <2>3 DEF g
<1>11. CASE waiting # {}
  <2>1. waiting \in SUBSET Nat
    BY <1>6
  <2> HIDE DEF waiting
  <2>2. first \in waiting /\ \A p \in waiting : first <= p
    BY <1>11, <2>1, MinIsLeast
  <2> HIDE DEF first
  <2>3. first \in 1 .. Len(w) /\ left[first].waits
    BY <1>6, <2>2 DEF waiting
  <2> DEFINE d == first - 1
  <2>4. d \in 0 .. Len(left) /\ d + 1 = first /\ d \in Nat /\ d < Len(w)
    BY <1>1, <1>7, <2>3
  <2> HIDE DEF d
  <2>5. g = SubSeq(left, d + 1, Len(left))
    BY <1>8, <1>11, <2>4
  <2>6. /\ g \in Seq(S) /\ Len(g) = Len(w) - d /\ DOMAIN g = 1 .. Len(w) - d
        /\ \A j \in 1 .. Len(w) - d : g[j] = left[d + j] /\ d + j \in 1 .. Len(w)
    <3> HIDE DEF S
    <3> QED
      BY <1>7, <2>4, <2>5, EndOf
  <2> HIDE DEF g
  <2>7. \A j \in DOMAIN g : g[j].number = b - 1 - Len(g) + j
    <3> TAKE j \in DOMAIN g
    <3>1. j \in 1 .. Len(w) - d /\ g[j] = left[d + j] /\ d + j \in 1 .. Len(w)
      BY <2>6
    <3>2. g[j].number = b - 1 - Len(w) + (d + j)
      BY <1>1, <1>6, <3>1
    <3> QED
      BY <1>1, <2>4, <2>6, <3>1, <3>2
  <2>8. g[1].waits
    <3>1. 1 \in 1 .. Len(w) - d
      BY <1>1, <2>4
    <3>2. g[1] = left[first]
      BY <2>4, <2>6, <3>1
    <3> QED
      BY <2>3, <3>2
  <2>9. WindowOK(g, b)
    <3>1. g \in Seq([number : Nat, waits : BOOLEAN])
      BY ONLY <2>6
    <3>2. Len(g) < b
      BY ONLY <1>1, <2>4, <2>6, b \in Nat
    <3> QED
      BY ONLY <2>7, <2>8, <3>1, <3>2 DEF WindowOK
  <2>10. ASSUME NEW m
         PROVE  Awaits(g, m) <=> Awaits(left, m)
    <3>1. ASSUME NEW p \in DOMAIN left, left[p].number = m, left[p].waits
          PROVE  Awaits(g, m)
      <4>1. p \in waiting /\ p \in 1 .. Len(w)
        BY <1>6, <3>1 DEF waiting
      <4>2. p - d \in 1 .. Len(w) - d /\ d + (p - d) = p
        BY <1>1, <2>2, <2>4, <4>1
      <4>3. g[p - d] = left[p]
        BY <2>6, <4>2
      <4> QED
        BY <2>6, <3>1, <4>2, <4>3 DEF Awaits
    <3>2. ASSUME NEW p \in DOMAIN g, g[p].number = m, g[p].waits
          PROVE  Awaits(left, m)
      BY <1>6, <2>6, <3>2 DEF Awaits
    <3> QED
      BY <3>1, <3>2 DEF Awaits
  <2> QED
    <3>1. Len(g) <= Len(w) /\ Len(g) \in Nat
      BY ONLY SMTT(30), <1>1, <2>4, <2>6
    <3>2. \A m \in Nat : Awaits(g, m) <=> Awaits(w, m) /\ m # n
      BY ONLY <1>9, <2>10
    <3> QED
      BY ONLY <2>9, <3>1, <3>2 DEF g
<1> QED
  BY <1>10, <1>11

\* The front of the queue is the first of its kind that is not sent.
LEMMA FrontIs ==
  ASSUME NEW s, ClientOK(s), s.queued # <<>>
  PROVE  LET f == s.queued[1]
         IN  /\ f.kind \in Kinds /\ f.number = Unsent(s, f.kind) /\ f.number \in Nat \ {0}
             /\ f.number < NextNumber(s, f.kind)
             /\ f = [kind |-> f.kind, number |-> f.number]
<1> DEFINE q == s.queued
           f == q[1]
           K == f.kind
<1>1. /\ q \in Seq([kind : Kinds, number : Nat]) /\ Len(q) \in Nat /\ DOMAIN q = 1 .. Len(q)
      /\ \A i \in 1 .. Len(q) : q[i] \in [kind : Kinds, number : Nat]
  BY SeqIs DEF ClientOK
<1>2. 1 \in DOMAIN q
  BY <1>1
<1>3. f \in [kind : Kinds, number : Nat]
  BY <1>1, <1>2
<1> HIDE DEF f, K
<1>4. K \in Kinds /\ QueueOK(s, K) /\ f.number \in Nat
  BY <1>3 DEF K, ClientOK
<1>5. f.number \in QueuedNumbers(s, K)
  BY <1>2 DEF QueuedNumbers, f, K
<1>6. /\ f.number \in Unsent(s, K) .. NextNumber(s, K) - 1 /\ NextNumber(s, K) \in Nat
      /\ Unsent(s, K) \in 1 .. NextNumber(s, K)
  BY <1>4, <1>5 DEF QueueOK
<1>7. Unsent(s, K) \in QueuedNumbers(s, K)
  <2>1. Unsent(s, K) \in Unsent(s, K) .. NextNumber(s, K) - 1
    BY <1>6
  <2> QED
    BY <1>4, <2>1 DEF QueueOK
<1>8. PICK j \in DOMAIN q : q[j].kind = K /\ q[j].number = Unsent(s, K)
  BY <1>7 DEF QueuedNumbers
<1>9. f.number <= Unsent(s, K)
  <2>1. CASE j = 1
    BY <1>4, <1>6, <1>8, <2>1 DEF f
  <2>2. CASE j # 1
    <3>1. 1 < j
      BY <1>1, <2>2
    <3>2. f.number < Unsent(s, K)
      BY <1>2, <1>4, <1>8, <3>1 DEF QueueOK, f, K
    <3> QED
      BY <1>4, <1>6, <3>2
  <2> QED
    BY <2>1, <2>2
<1>10. f.number = Unsent(s, K) /\ f.number # 0 /\ f.number < NextNumber(s, K)
  BY <1>4, <1>6, <1>9
<1>11. f = [kind |-> f.kind, number |-> f.number]
  BY <1>3
<1> QED
  BY <1>4, <1>10, <1>11 DEF K, f

\* The queue without its front.
WithoutFront(s, t) ==
  /\ t.queued = Tail(s.queued)
  /\ t.next_request_number = s.next_request_number
  /\ t.next_query_number = s.next_query_number

QueueLeft(s, t, kind) ==
  LET f == s.queued[1] IN
  /\ Unsent(t, kind) = IF kind = f.kind THEN f.number + 1 ELSE Unsent(s, kind)
  /\ NextNumber(t, kind) = NextNumber(s, kind)
  /\ Unsent(t, kind) \in 1 .. NextNumber(t, kind)
  /\ QueuedNumbers(t, kind) = Unsent(t, kind) .. NextNumber(t, kind) - 1
  /\ t.queued \in Seq([kind : Kinds, number : Nat])
  /\ \A i, j \in DOMAIN t.queued :
       i < j /\ t.queued[i].kind = kind /\ t.queued[j].kind = kind =>
         t.queued[i].number < t.queued[j].number

LEMMA TailIs ==
  ASSUME NEW s, ClientOK(s), s.queued # <<>>, NEW t, WithoutFront(s, t), NEW kind \in Kinds
  PROVE  QueueLeft(s, t, kind)
<1> USE DEF WithoutFront
<1> DEFINE q == s.queued
           u == t.queued
           f == q[1]
           Q == [kind : Kinds, number : Nat]
           a == IF kind = f.kind THEN f.number + 1 ELSE Unsent(s, kind)
<1>1. /\ q \in Seq(Q) /\ Len(q) \in Nat /\ DOMAIN q = 1 .. Len(q)
      /\ \A i \in 1 .. Len(q) : q[i] \in Q
  BY SeqIs DEF ClientOK
<1>2. /\ u \in Seq(Q) /\ Len(u) = Len(q) - 1 /\ DOMAIN u = 1 .. Len(q) - 1
      /\ \A i \in 1 .. Len(q) - 1 : u[i] = q[i + 1] /\ i + 1 \in 1 .. Len(q)
      /\ 1 \in 1 .. Len(q)
  <2> HIDE DEF Q
  <2> QED
    BY <1>1
<1>3. NextNumber(t, kind) = NextNumber(s, kind)
  BY DEF NextNumber
<1>4. QueueOK(s, kind)
  BY DEF ClientOK
<1>5. /\ f.kind \in Kinds /\ f.number = Unsent(s, f.kind) /\ f.number \in Nat \ {0}
      /\ f.number < NextNumber(s, f.kind)
  BY FrontIs
<1>6. \A i, j \in DOMAIN u : i < j /\ u[i].kind = kind /\ u[j].kind = kind =>
        u[i].number < u[j].number
  <2> TAKE i, j \in DOMAIN u
  <2>1. /\ u[i] = q[i + 1] /\ u[j] = q[j + 1] /\ i + 1 \in DOMAIN q /\ j + 1 \in DOMAIN q
        /\ i < j => i + 1 < j + 1
    BY SMTT(30), <1>1, <1>2
  <2> QED
    BY <1>4, <2>1 DEF QueueOK
<1>7. \A n : n \in QueuedNumbers(t, kind) <=>
               \E i \in 2 .. Len(q) : q[i].kind = kind /\ q[i].number = n
  <2> TAKE n
  <2>1. ASSUME n \in QueuedNumbers(t, kind)
        PROVE  \E i \in 2 .. Len(q) : q[i].kind = kind /\ q[i].number = n
    <3>1. PICK i \in DOMAIN u : u[i].kind = kind /\ u[i].number = n
      BY <2>1 DEF QueuedNumbers
    <3>2. i + 1 \in 2 .. Len(q) /\ u[i] = q[i + 1]
      BY <1>1, <1>2
    <3> QED
      BY <3>1, <3>2
  <2>2. ASSUME NEW i \in 2 .. Len(q), q[i].kind = kind, q[i].number = n
        PROVE  n \in QueuedNumbers(t, kind)
    <3>1. i - 1 \in DOMAIN u /\ i - 1 + 1 = i
      BY <1>1, <1>2
    <3>2. u[i - 1] = q[i]
      BY <1>2, <3>1
    <3> QED
      BY <2>2, <3>1, <3>2 DEF QueuedNumbers
  <2> QED
    BY <2>1, <2>2
<1>8. \A n : n \in QueuedNumbers(s, kind) <=>
               \E i \in 1 .. Len(q) : q[i].kind = kind /\ q[i].number = n
  BY <1>1 DEF QueuedNumbers
<1>9. /\ NextNumber(s, kind) \in Nat /\ Unsent(s, kind) \in 1 .. NextNumber(s, kind)
      /\ QueuedNumbers(s, kind) = Unsent(s, kind) .. NextNumber(s, kind) - 1
  BY <1>4 DEF QueueOK
<1>10. a \in 1 .. NextNumber(t, kind)
  BY <1>3, <1>5, <1>9
<1>11. \A i \in 1 .. Len(q) : i \in 2 .. Len(q) \/ i = 1
  BY <1>1
<1>12. \A i \in 2 .. Len(q) : i \in 1 .. Len(q)
  BY <1>1
<1>13. QueuedNumbers(t, kind) = a .. NextNumber(t, kind) - 1
  <2>1. CASE kind # f.kind
    <3>1. \A n : n \in QueuedNumbers(t, kind) <=> n \in QueuedNumbers(s, kind)
      BY <1>7, <1>8, <1>11, <1>12, <2>1
    <3> QED
      BY <1>3, <1>9, <2>1, <3>1
  <2>2. CASE kind = f.kind
    <3>1. \A i \in 2 .. Len(q) : q[i].kind = kind => q[i].number > f.number
      <4> TAKE i \in 2 .. Len(q)
      <4>1. 1 \in DOMAIN q /\ i \in DOMAIN q /\ 1 < i
        BY <1>1
      <4> QED
        BY <1>1, <1>4, <2>2, <4>1 DEF QueueOK
    <3>2. ASSUME NEW n
          PROVE  n \in QueuedNumbers(t, kind) <=> n \in QueuedNumbers(s, kind) /\ n # f.number
      <4>1. ASSUME n \in QueuedNumbers(t, kind)
            PROVE  n \in QueuedNumbers(s, kind) /\ n # f.number
        <5>1. PICK i \in 2 .. Len(q) : q[i].kind = kind /\ q[i].number = n
          BY <1>7, <4>1
        <5>2. n > f.number
          BY <3>1, <5>1
        <5> QED
          BY <1>5, <1>8, <1>12, <5>1, <5>2
      <4>2. ASSUME n \in QueuedNumbers(s, kind), n # f.number
            PROVE  n \in QueuedNumbers(t, kind)
        BY <1>7, <1>8, <1>11, <4>2
      <4> QED
        BY <4>1, <4>2
    <3>3. \A n : n \in QueuedNumbers(s, kind) /\ n # f.number <=> n \in a .. NextNumber(s, kind) - 1
      <4> HIDE DEF f
      <4> QED
        BY <1>5, <1>9, <2>2
    <3> HIDE DEF a
    <3> QED
      BY <1>3, <3>2, <3>3
  <2> QED
    BY <2>1, <2>2
<1> HIDE DEF a
<1>14. NextNumber(t, kind) \in Nat
  BY <1>3, <1>9
<1>15. Unsent(t, kind) = a
  BY <1>10, <1>13, <1>14, UnsentIs
<1> QED
  BY <1>2, <1>3, <1>6, <1>10, <1>13, <1>15 DEF a, QueueLeft

\* The other kind.
OtherKind(kind) == IF kind = "Request" THEN "Query" ELSE "Request"

\* The message that operation f of client s goes out as.
MessageOf(s, f) ==
  IF f.kind = "Request" THEN RequestMessage(s, f.number, Oldest(s.requests, f.number) - 1)
                        ELSE QueryMessage(f.number)

\* send_queued takes the front of the queue.
TakeFront(s) == SendOp([s EXCEPT !.queued = Tail(@)], s.queued[1])

LEMMA TakeFrontIs ==
  ASSUME NEW s, ClientOK(s), s.queued # <<>>
  PROVE  LET t == TakeFront(s) f == s.queued[1]
         IN  /\ ClientBut(s, t, {"queued", "outbox", "requests", "queries"})
             /\ t.queued = Tail(s.queued)
             /\ Window(t, f.kind) = Append(Window(s, f.kind), InFlight(f.number))
             /\ Window(t, OtherKind(f.kind)) = Window(s, OtherKind(f.kind))
             /\ t.outbox = s.outbox \union {<<PrimaryOf(s.view_number), MessageOf(s, f)>>}
<1> DEFINE f == s.queued[1]
           a == [s EXCEPT !.queued = Tail(@)]
           t == TakeFront(s)
<1>1. DOMAIN s = ClientFields
  BY DEF ClientOK
<1>2. /\ ClientBut(s, a, {"queued"}) /\ a.queued = Tail(s.queued)
  BY <1>1 DEF ClientBut, ClientFields
<1>3. f.kind \in Kinds
  BY FrontIs
<1> HIDE DEF a
<1>4. /\ DOMAIN a = ClientFields /\ a.requests = s.requests /\ a.queries = s.queries
      /\ a.session = s.session /\ a.outbox = s.outbox /\ a.view_number = s.view_number
  BY <1>2 DEF ClientBut, ClientFields
<1>5. CASE f.kind = "Request"
  <2> DEFINE m == RequestMessage(a, f.number, Oldest(a.requests, f.number) - 1)
             b == [a EXCEPT !.requests = Append(@, InFlight(f.number))]
  <2>1. t = [b EXCEPT !.outbox = @ \union {<<PrimaryOf(b.view_number), m>>}]
    BY <1>5 DEF TakeFront, SendOp, SendRequest, ToPrimary, a
  <2>2. m = MessageOf(s, f)
    BY <1>4, <1>5 DEF MessageOf, RequestMessage
  <2> HIDE DEF m
  <2>3. /\ ClientBut(a, b, {"requests"}) /\ b.requests = Append(s.requests, InFlight(f.number))
    BY <1>4 DEF ClientBut, ClientFields
  <2> HIDE DEF b
  <2>4. /\ DOMAIN b = ClientFields /\ b.queries = s.queries /\ b.outbox = s.outbox
        /\ b.view_number = s.view_number
    BY <1>4, <2>3 DEF ClientBut, ClientFields
  <2>5. /\ ClientBut(b, t, {"outbox"})
        /\ t.outbox = s.outbox \union {<<PrimaryOf(s.view_number), MessageOf(s, f)>>}
    BY <2>1, <2>2, <2>4 DEF ClientBut, ClientFields
  <2> HIDE DEF t, f
  <2>6. /\ t.requests = b.requests /\ t.queries = b.queries /\ t.queued = b.queued
        /\ b.queued = a.queued
    BY <2>3, <2>5 DEF ClientBut, ClientFields
  <2>7. ClientBut(s, t, {"queued", "outbox", "requests", "queries"})
    BY <1>2, <2>3, <2>5 DEF ClientBut
  <2> QED
    BY <1>2, <1>5, <2>3, <2>4, <2>5, <2>6, <2>7 DEF Window, OtherKind, t, f
<1>6. CASE f.kind = "Query"
  <2> DEFINE m == QueryMessage(f.number)
             b == [a EXCEPT !.queries = Append(@, InFlight(f.number))]
  <2>1. t = [b EXCEPT !.outbox = @ \union {<<PrimaryOf(b.view_number), m>>}]
    BY <1>6 DEF TakeFront, SendOp, SendQuery, ToPrimary, a
  <2>2. m = MessageOf(s, f)
    BY <1>6 DEF MessageOf
  <2> HIDE DEF m
  <2>3. /\ ClientBut(a, b, {"queries"}) /\ b.queries = Append(s.queries, InFlight(f.number))
    BY <1>4 DEF ClientBut, ClientFields
  <2> HIDE DEF b
  <2>4. /\ DOMAIN b = ClientFields /\ b.requests = s.requests /\ b.outbox = s.outbox
        /\ b.view_number = s.view_number
    BY <1>4, <2>3 DEF ClientBut, ClientFields
  <2>5. /\ ClientBut(b, t, {"outbox"})
        /\ t.outbox = s.outbox \union {<<PrimaryOf(s.view_number), MessageOf(s, f)>>}
    BY <2>1, <2>2, <2>4 DEF ClientBut, ClientFields
  <2> HIDE DEF t, f
  <2>6. /\ t.requests = b.requests /\ t.queries = b.queries /\ t.queued = b.queued
        /\ b.queued = a.queued
    BY <2>3, <2>5 DEF ClientBut, ClientFields
  <2>7. ClientBut(s, t, {"queued", "outbox", "requests", "queries"})
    BY <1>2, <2>3, <2>5 DEF ClientBut
  <2> QED
    BY <1>2, <1>6, <2>3, <2>4, <2>5, <2>6, <2>7 DEF Window, OtherKind, t, f
<1> QED
  BY <1>3, <1>5, <1>6 DEF Kinds

\* What sending leaves alone.
SendingKeeps ==
  {"view_number", "session", "registering", "evicted", "next_request_number",
   "next_query_number"}

\* k, who issued o, sends some of its queue and is s then.
Goes(k, s, o) ==
  /\ ClientOK(s) /\ IssuedInv(o, s)
  /\ \A f \in SendingKeeps : s[f] = k[f]
  /\ Forward(k, s)
  /\ \A e \in s.outbox : MessageOK(s, e[2])

\* The windows and the queue without its front make a client.
LEMMA TakeFrontOK ==
  ASSUME NEW s, ClientOK(s), s.queued # <<>>, Sendable(s, s.queued[1])
  PROVE  LET t == TakeFront(s) f == s.queued[1]
         IN  /\ ClientOK(t)
             /\ Unsent(t, f.kind) = f.number + 1
             /\ Unsent(t, OtherKind(f.kind)) = Unsent(s, OtherKind(f.kind))
             /\ OldestRequest(t) = OldestRequest(s)
             /\ f.kind = "Request" =>
                  /\ Oldest(s.requests, f.number) = OldestRequest(s) /\ s.session # 0
                  /\ f.number < OldestRequest(s) + InFlightMax
             /\ Window(s, OtherKind(f.kind)) = <<>>
             /\ \A n : Awaits(Window(t, f.kind), n) <=> Awaits(Window(s, f.kind), n) \/ n = f.number
<1> DEFINE f == s.queued[1]
           K == f.kind
           t == TakeFront(s)
<1>1. /\ K \in Kinds /\ f.number = Unsent(s, K) /\ f.number \in Nat \ {0}
      /\ f.number < NextNumber(s, K)
  BY FrontIs
<1>2. /\ ClientBut(s, t, {"queued", "outbox", "requests", "queries"})
      /\ t.queued = Tail(s.queued)
      /\ Window(t, K) = Append(Window(s, K), InFlight(f.number))
      /\ Window(t, OtherKind(K)) = Window(s, OtherKind(K))
  BY TakeFrontIs
<1> HIDE DEF t, f
<1>3. /\ DOMAIN t = ClientFields /\ t.view_number = s.view_number /\ t.session = s.session
      /\ t.evicted = s.evicted /\ t.registering = s.registering
      /\ t.next_request_number = s.next_request_number
      /\ t.next_query_number = s.next_query_number
  BY <1>2 DEF ClientBut, ClientFields
<1>4. Sendable(s, f)
  BY DEF f
<1>5. ASSUME NEW kind \in Kinds
      PROVE  /\ Unsent(t, kind) = IF kind = K THEN f.number + 1 ELSE Unsent(s, kind)
             /\ NextNumber(t, kind) \in Nat
             /\ Unsent(t, kind) \in 1 .. NextNumber(t, kind)
             /\ QueuedNumbers(t, kind) = Unsent(t, kind) .. NextNumber(t, kind) - 1
             /\ t.queued \in Seq([kind : Kinds, number : Nat])
             /\ \A i, j \in DOMAIN t.queued :
                  i < j /\ t.queued[i].kind = kind /\ t.queued[j].kind = kind =>
                    t.queued[i].number < t.queued[j].number
  <2>1. NextNumber(t, kind) = NextNumber(s, kind) /\ NextNumber(s, kind) \in Nat
    BY <1>3 DEF NextNumber, ClientOK, QueueOK
  <2>2. /\ Unsent(t, kind) = IF kind = s.queued[1].kind THEN s.queued[1].number + 1
                              ELSE Unsent(s, kind)
        /\ Unsent(t, kind) \in 1 .. NextNumber(t, kind)
        /\ QueuedNumbers(t, kind) = Unsent(t, kind) .. NextNumber(t, kind) - 1
        /\ t.queued \in Seq([kind : Kinds, number : Nat])
        /\ \A i, j \in DOMAIN t.queued :
             i < j /\ t.queued[i].kind = kind /\ t.queued[j].kind = kind =>
               t.queued[i].number < t.queued[j].number
    <3>1. WithoutFront(s, t)
      BY <1>2, <1>3 DEF WithoutFront
    <3>2. QueueLeft(s, t, kind)
      BY <3>1, TailIs
    <3> QED
      BY <3>2 DEF QueueLeft
  <2> QED
    BY <2>1, <2>2 DEF f
<1>6. WindowOK(Window(s, K), f.number) /\ QueueOK(s, OtherKind(K)) /\ OtherKind(K) \in Kinds
      /\ OtherKind(K) # K
  BY <1>1 DEF ClientOK, QueueOK, OtherKind, Kinds
<1>7. /\ WindowOK(Window(t, K), f.number + 1) /\ Len(Window(t, K)) = Len(Window(s, K)) + 1
      /\ Oldest(Window(t, K), f.number + 1) = f.number - Len(Window(s, K))
      /\ \A n : Awaits(Window(t, K), n) <=> Awaits(Window(s, K), n) \/ n = f.number
  BY SMTT(30), <1>1, <1>2, <1>6, WindowGrows
<1>8. /\ Len(Window(s, K)) \in Nat
      /\ Oldest(Window(s, K), f.number) = f.number - Len(Window(s, K))
  BY <1>1, <1>6, WindowIs
<1>9. ASSUME NEW kind \in Kinds
      PROVE  QueueOK(t, kind)
  <2>1. WindowOK(Window(t, kind), Unsent(t, kind))
    <3>1. CASE kind = K
      BY <1>5, <1>7, <3>1
    <3>2. CASE kind # K
      <4>1. kind = OtherKind(K)
        BY <1>1, <3>2 DEF OtherKind, Kinds
      <4> QED
        BY <1>2, <1>5, <1>6, <3>2, <4>1 DEF QueueOK
    <3> QED
      BY <3>1, <3>2
  <2> QED
    BY <1>5, <2>1 DEF QueueOK
<1>10. Window(s, OtherKind(K)) = <<>>
  BY <1>1, <1>4 DEF Sendable, RequestMayGo, QueryMayGo, Window, OtherKind, Kinds
<1>11. K = "Request" => /\ s.session # 0 /\ Oldest(s.requests, f.number) = OldestRequest(s)
                        /\ f.number < OldestRequest(s) + InFlightMax
  BY <1>1, <1>4 DEF Sendable, RequestMayGo, OldestRequest
<1>12. OldestRequest(t) = OldestRequest(s)
  <2>1. CASE K = "Request"
    BY <1>1, <1>5, <1>7, <1>8, <2>1 DEF OldestRequest, Window, Kinds
  <2>2. CASE K = "Query"
    BY <1>2, <1>5, <2>2 DEF OldestRequest, Window, OtherKind, Kinds
  <2> QED
    BY <1>1, <2>1, <2>2 DEF Kinds
<1>13. /\ t.requests = <<>> \/ t.queries = <<>>
       /\ t.requests # <<>> => t.session # 0
       /\ Len(t.requests) <= InFlightMax
  <2>1. CASE K = "Request"
    <3>1. t.queries = <<>> /\ t.session # 0
      BY <1>2, <1>3, <1>10, <1>11, <2>1 DEF Window, OtherKind
    <3>2. OldestRequest(s) = f.number - Len(Window(s, K))
      BY <1>8, <1>11, <2>1 DEF Window
    <3>3. Len(t.requests) = Len(Window(s, K)) + 1
      BY <1>7, <2>1 DEF Window
    <3> QED
      BY <1>1, <1>8, <1>11, <2>1, <3>1, <3>2, <3>3, ConfigAssumption
  <2>2. CASE K = "Query"
    <3>1. t.requests = <<>>
      BY <1>2, <1>10, <2>2 DEF Window, OtherKind
    <3> QED
      BY <3>1, ConfigAssumption
  <2> QED
    BY <1>1, <2>1, <2>2 DEF Kinds
<1>14. ClientOK(t)
  <2>1. t.queued \in Seq([kind : Kinds, number : Nat])
    BY <1>1, <1>5
  <2> QED
    BY <1>3, <1>9, <1>13, <2>1 DEF ClientOK
<1> QED
  BY <1>1, <1>5, <1>6, <1>7, <1>10, <1>11, <1>12, <1>14 DEF t, f

\* The front of the queue may go.
FrontMayGo(s) == s.queued # <<>> /\ Sendable(s, s.queued[1])

\* What was issued still matches the windows and the queue once the front is sent.
LEMMA TakeFrontIssued ==
  ASSUME NEW s, ClientOK(s), FrontMayGo(s), NEW o, IssuedInv(o, s)
  PROVE  IssuedInv(o, TakeFront(s))
<1> DEFINE f == s.queued[1]
           K == f.kind
           t == TakeFront(s)
           m == SentUpTo(o, s)
           Q == [kind : Kinds, number : Nat]
<1>1. /\ K \in Kinds /\ f = [kind |-> f.kind, number |-> f.number]
  BY FrontIs DEF FrontMayGo
<1>2. /\ t.queued = Tail(s.queued)
      /\ Window(t, OtherKind(K)) = Window(s, OtherKind(K))
      /\ Window(t, K) = Append(Window(s, K), InFlight(f.number))
  BY TakeFrontIs DEF FrontMayGo
<1>3. /\ Window(s, OtherKind(K)) = <<>>
      /\ \A n : Awaits(Window(t, K), n) <=> Awaits(Window(s, K), n) \/ n = f.number
  BY TakeFrontOK DEF FrontMayGo
<1>0. s.queued \in Seq(Q) /\ o \in Seq(Operations)
  BY DEF ClientOK, IssuedInv
<1> DEFINE q == s.queued
           u == t.queued
<1> HIDE DEF t, f, Q, m, q, u
<1>4. Len(q) \in Nat /\ Len(o) \in Nat /\ m \in Nat /\ m = Len(o) - Len(q)
  BY <1>0, SeqIs DEF IssuedInv, SentUpTo, m, q
<1>5. /\ Len(u) = Len(q) - 1 /\ DOMAIN u = 1 .. Len(q) - 1
      /\ \A i \in 1 .. Len(q) - 1 : u[i] = q[i + 1]
      /\ 1 \in 1 .. Len(q) /\ DOMAIN q = 1 .. Len(q)
  <2>1. q \in Seq(Q) /\ u = Tail(q) /\ q # <<>>
    BY <1>0, <1>2 DEF q, u, FrontMayGo
  <2> QED
    BY <2>1
<1>6. SentUpTo(o, t) = m + 1 /\ m + 1 \in 1 .. Len(o)
  <2>1. SentUpTo(o, t) = Len(o) - Len(u)
    BY DEF SentUpTo, u
  <2>2. Len(u) = Len(q) - 1 /\ 1 \in 1 .. Len(q)
    BY <1>5
  <2> QED
    BY <1>4, <2>1, <2>2
<1>7. o[m + 1].kind = K /\ o[m + 1].number = f.number /\ o[m + 1].end = Open
  <2>1. s.queued[1] = [kind |-> o[m + 1].kind, number |-> o[m + 1].number] /\ o[m + 1].end = Open
    BY <1>5 DEF IssuedInv, m, q
  <2> QED
    BY <2>1 DEF f
<1>8. ASSUME NEW i \in DOMAIN t.queued
      PROVE  LET x == o[SentUpTo(o, t) + i]
             IN  t.queued[i] = [kind |-> x.kind, number |-> x.number] /\ x.end = Open
  <2>0. i \in DOMAIN u
    BY DEF u
  <2>1. i + 1 \in DOMAIN q /\ m + (i + 1) = SentUpTo(o, t) + i
    <3>1. i \in 1 .. Len(q) - 1
      BY <1>5, <2>0
    <3>2. i + 1 \in 1 .. Len(q) /\ m + (i + 1) = SentUpTo(o, t) + i
      BY <1>4, <1>6, <3>1
    <3> QED
      BY <1>5, <3>2
  <2>2. u[i] = q[i + 1]
    BY <1>5, <2>0
  <2> QED
    BY <2>1, <2>2 DEF IssuedInv, m, q, u
<1>9. \A i \in 1 .. m + 1 : i \in 1 .. m \/ i = m + 1
  BY <1>4
<1>10. \A i \in 1 .. m : i \in 1 .. Len(o) /\ o[i].kind \in Kinds
  <2>1. \A i \in 1 .. Len(o) : o[i] \in Operations
    BY <1>0, SeqIs
  <2> QED
    BY <1>4, <2>1 DEF Operations
<1>11. ASSUME NEW i \in 1 .. m + 1, o[i].end = Open
       PROVE  Awaits(Window(t, o[i].kind), o[i].number)
  <2>1. CASE i = m + 1
    BY <1>3, <1>7, <2>1
  <2>2. CASE i \in 1 .. m
    <3>1. Awaits(Window(s, o[i].kind), o[i].number)
      BY <1>11, <2>2 DEF IssuedInv, m
    <3>2. o[i].kind = K \/ o[i].kind = OtherKind(K)
      BY <1>1, <1>10, <2>2 DEF OtherKind, Kinds
    <3> QED
      BY <1>2, <1>3, <3>1, <3>2
  <2> QED
    BY <1>9, <2>1, <2>2
<1>12. ASSUME NEW kind \in Kinds, NEW p \in DOMAIN Window(t, kind), Window(t, kind)[p].waits
       PROVE  \E i \in 1 .. m + 1 :
                o[i].kind = kind /\ o[i].number = Window(t, kind)[p].number /\ o[i].end = Open
  <2> DEFINE n == Window(t, kind)[p].number
  <2>1. Awaits(Window(t, kind), n)
    BY <1>12 DEF Awaits
  <2> HIDE DEF n
  <2>2. kind = K \/ kind = OtherKind(K)
    BY <1>1 DEF OtherKind, Kinds
  <2>3. Awaits(Window(s, kind), n) \/ (kind = K /\ n = f.number)
    BY <1>2, <1>3, <2>1, <2>2
  <2>4. CASE Awaits(Window(s, kind), n)
    <3>1. PICK w \in DOMAIN Window(s, kind) :
            Window(s, kind)[w].number = n /\ Window(s, kind)[w].waits
      BY <2>4 DEF Awaits
    <3>2. \E i \in 1 .. m : o[i].kind = kind /\ o[i].number = n /\ o[i].end = Open
      BY <3>1 DEF IssuedInv, m
    <3>3. \A i \in 1 .. m : i \in 1 .. m + 1
      BY <1>4
    <3> QED
      BY <3>2, <3>3 DEF n
  <2>5. CASE kind = K /\ n = f.number
    <3>1. m + 1 \in 1 .. m + 1
      BY <1>4
    <3> QED
      BY <1>7, <2>5, <3>1 DEF n
  <2> QED
    BY <2>3, <2>4, <2>5
<1>13. ASSUME NEW j \in 1 .. m + 1, NEW i \in 1 .. Len(o), i < j, o[i].kind # o[j].kind
       PROVE  o[i].end # Open
  <2>1. CASE j \in 1 .. m
    BY <1>13, <2>1 DEF IssuedInv, m
  <2>2. CASE j = m + 1
    <3>1. i \in 1 .. m
      BY <1>4, <1>13, <2>2
    <3>2. o[i].kind = OtherKind(K)
      BY <1>1, <1>7, <1>10, <1>13, <2>2, <3>1 DEF OtherKind, Kinds
    <3>3. o[i].end = Open => Awaits(<<>>, o[i].number)
      BY <1>3, <3>1, <3>2 DEF IssuedInv, m
    <3> QED
      BY <3>3 DEF Awaits
  <2> QED
    BY <1>9, <2>1, <2>2
<1>14. SentUpTo(o, t) \in Nat
  BY <1>4, <1>6
<1> QED
  BY <1>0, <1>6, <1>8, <1>11, <1>12, <1>13, <1>14 DEF IssuedInv, t

\* One turn of send_queued.
SendFront(s) ==
  IF FrontMayGo(s) THEN TakeFront(s) ELSE s

\* Requests sent stay so while the session lasts.
LEMMA SessionForward ==
  ASSUME NEW s, NEW t, ClientOK(s), ClientOK(t), t.session = s.session, t.evicted = s.evicted,
         Unsent(s, "Request") <= Unsent(t, "Request"),
         Unsent(s, "Query") <= Unsent(t, "Query"), OldestRequest(s) <= OldestRequest(t)
  PROVE  Forward(s, t)
<1>1. ASSUME NEW k, ClientOK(k)
      PROVE  /\ Unsent(k, "Request") \in Nat \ {0} /\ Unsent(k, "Query") \in Nat \ {0}
             /\ OldestRequest(k) \in Nat \ {0}
  <2>1. QueueOK(k, "Request") /\ QueueOK(k, "Query")
    BY <1>1 DEF ClientOK, Kinds
  <2>2. /\ Unsent(k, "Request") \in Nat \ {0} /\ Unsent(k, "Query") \in Nat \ {0}
        /\ WindowOK(k.requests, Unsent(k, "Request"))
    BY <2>1 DEF QueueOK, Window
  <2>3. /\ OldestRequest(k) = Unsent(k, "Request") - Len(k.requests) /\ Len(k.requests) \in Nat
        /\ Len(k.requests) < Unsent(k, "Request")
    BY <2>2, WindowIs DEF OldestRequest
  <2> QED
    BY <2>2, <2>3
<1>2. InFlightMax \in Nat
  BY ConfigAssumption
<1> QED
  BY <1>1, <1>2 DEF Forward, SentRequest

LEMMA GoesSelf ==
  ASSUME NEW s, ClientOK(s), NEW o, IssuedInv(o, s), \A e \in s.outbox : MessageOK(s, e[2])
  PROVE  Goes(s, s, o)
<1>1. QueueOK(s, "Query")
  BY DEF ClientOK, Kinds
<1>2. Unsent(s, "Query") \in Nat
  BY <1>1 DEF QueueOK
<1>3. Forward(s, s)
  BY <1>2 DEF Forward
<1> QED
  BY <1>3 DEF Goes

LEMMA GoesThrough ==
  ASSUME NEW k, NEW s, NEW t, NEW o, Goes(k, s, o), Goes(s, t, o)
  PROVE  Goes(k, t, o)
  BY ForwardThrough DEF Goes

LEMMA SendFrontGoes ==
  ASSUME NEW s, ClientOK(s), NEW o, IssuedInv(o, s), \A e \in s.outbox : MessageOK(s, e[2])
  PROVE  Goes(s, SendFront(s), o)
<1>1. CASE ~FrontMayGo(s)
  BY <1>1, GoesSelf DEF SendFront
<1>2. CASE FrontMayGo(s)
  <2> DEFINE f == s.queued[1]
             K == f.kind
             t == TakeFront(s)
  <2>1. SendFront(s) = t
    BY <1>2 DEF SendFront
  <2>2. /\ K \in Kinds /\ f.number = Unsent(s, K) /\ f.number \in Nat \ {0}
    BY <1>2, FrontIs DEF FrontMayGo
  <2>3. /\ ClientBut(s, t, {"queued", "outbox", "requests", "queries"})
        /\ t.outbox = s.outbox \union {<<PrimaryOf(s.view_number), MessageOf(s, f)>>}
    BY <1>2, TakeFrontIs DEF FrontMayGo
  <2>4. /\ ClientOK(t)
        /\ Unsent(t, K) = f.number + 1
        /\ Unsent(t, OtherKind(K)) = Unsent(s, OtherKind(K))
        /\ OldestRequest(t) = OldestRequest(s)
        /\ K = "Request" =>
             /\ Oldest(s.requests, f.number) = OldestRequest(s) /\ s.session # 0
             /\ f.number < OldestRequest(s) + InFlightMax
    BY <1>2, TakeFrontOK DEF FrontMayGo
  <2>5. IssuedInv(o, t)
    BY <1>2, TakeFrontIssued
  <2> HIDE DEF t, f
  <2>6. \A x \in SendingKeeps : t[x] = s[x]
    BY <2>3 DEF ClientBut, SendingKeeps, ClientFields
  <2>7. t.session = s.session /\ t.evicted = s.evicted
    BY <2>6 DEF SendingKeeps
  <2>8. QueueOK(s, "Request") /\ QueueOK(s, "Query")
    BY DEF ClientOK, Kinds
  <2>9. Unsent(s, "Request") \in Nat /\ Unsent(s, "Query") \in Nat
    BY <2>8 DEF QueueOK
  <2>10. /\ WindowOK(s.requests, Unsent(s, "Request"))
         /\ OldestRequest(s) = Unsent(s, "Request") - Len(s.requests) /\ Len(s.requests) \in Nat
         /\ Len(s.requests) < Unsent(s, "Request")
    BY <2>8, <2>9, WindowIs DEF OldestRequest, QueueOK, Window
  <2>11. OldestRequest(s) \in Nat \ {0}
    BY <2>9, <2>10
  <2>12. /\ Unsent(s, "Request") <= Unsent(t, "Request")
         /\ Unsent(s, "Query") <= Unsent(t, "Query")
    <3>1. CASE K = "Request"
      BY <2>2, <2>4, <2>9, <3>1 DEF OtherKind
    <3>2. CASE K = "Query"
      BY <2>2, <2>4, <2>9, <3>2 DEF OtherKind
    <3> QED
      BY <2>2, <3>1, <3>2 DEF Kinds
  <2>13. Forward(s, t)
    BY <2>4, <2>7, <2>11, <2>12, SessionForward
  <2>14. MessageOK(t, MessageOf(s, f))
    <3>1. CASE K = "Request"
      <4> DEFINE m == MessageOf(s, f)
      <4>1. /\ m.type = "Request" /\ m.session = s.session /\ m.number = f.number
            /\ m.answered = OldestRequest(s) - 1
        BY <2>4, <3>1 DEF MessageOf, RequestMessage
      <4> HIDE DEF m
      <4>2. s.session \in Nat
        BY DEF ClientOK
      <4>3. SentRequest(t, m.session, m.number, m.answered)
        BY <2>2, <2>4, <2>7, <2>11, <3>1, <4>1, <4>2 DEF SentRequest
      <4> QED
        BY <4>1, <4>3 DEF MessageOK, m
    <3>2. CASE K = "Query"
      <4> DEFINE m == MessageOf(s, f)
      <4>1. m.type = "Query" /\ m.number = f.number
        BY <3>2 DEF MessageOf, QueryMessage
      <4> HIDE DEF m
      <4> QED
        BY <2>2, <2>4, <3>2, <4>1 DEF MessageOK, m
    <3> QED
      BY <2>2, <3>1, <3>2 DEF Kinds
  <2>15. \A e \in t.outbox : MessageOK(t, e[2])
    BY <2>3, <2>13, <2>14, ForwardMessages
  <2> QED
    BY <2>1, <2>4, <2>5, <2>6, <2>13, <2>15 DEF Goes
<1> QED
  BY <1>1, <1>2

\* f holds k after 0 to n turns of send_queued.
Turns(k, n, f) == f = [i \in 0 .. n |-> IF i = 0 THEN k ELSE SendFront(f[i - 1])]

LEMMA TurnsExist ==
  ASSUME NEW k, NEW n \in Nat
  PROVE  \E f : Turns(k, n, f)
<1> DEFINE S == {j \in Nat : ~ \E f : Turns(k, j, f)}
<1> SUFFICES ASSUME S # {} PROVE FALSE
  OBVIOUS
<1>1. PICK j \in S : \A i \in S : j <= i
  <2>1. S \in SUBSET Nat
    OBVIOUS
  <2> HIDE DEF S
  <2> QED
    BY <2>1, LeastExists
<1>2. CASE j = 0
  <2> DEFINE f == [i \in 0 .. 0 |-> k]
  <2>1. Turns(k, 0, f)
    BY DEF Turns
  <2> QED
    BY <1>2, <2>1
<1>3. CASE j # 0
  <2>1. j - 1 \in Nat /\ j - 1 \notin S
    BY <1>1, <1>3
  <2>2. PICK f : Turns(k, j - 1, f)
    BY <2>1
  <2> DEFINE g == [i \in 0 .. j |-> IF i = j THEN SendFront(f[j - 1]) ELSE f[i]]
  <2>3. Turns(k, j, g)
    <3>1. \A i \in 0 .. j - 1 : f[i] = IF i = 0 THEN k ELSE SendFront(f[i - 1])
      BY <2>2 DEF Turns
    <3>2. ASSUME NEW i \in 0 .. j
          PROVE  g[i] = IF i = 0 THEN k ELSE SendFront(g[i - 1])
      <4>1. CASE i = j
        <5>1. i # 0 /\ g[i] = SendFront(f[j - 1]) /\ j - 1 \in 0 .. j /\ j - 1 # j
          BY <1>3, <4>1
        <5>2. g[i - 1] = f[j - 1]
          BY <4>1, <5>1
        <5> HIDE DEF g
        <5> QED
          BY <4>1, <5>1, <5>2
      <4>2. CASE i # j
        <5>1. i \in 0 .. j - 1 /\ (i # 0 => i - 1 \in 0 .. j /\ i - 1 # j)
          BY <4>2
        <5>2. g[i] = f[i] /\ (i # 0 => g[i - 1] = f[i - 1])
          BY <4>2, <5>1
        <5> HIDE DEF g
        <5> QED
          BY <3>1, <5>1, <5>2
      <4> QED
        BY <4>1, <4>2
    <3> QED
      BY <3>2 DEF Turns
  <2> QED
    BY <1>1, <2>3
<1> QED
  BY <1>2, <1>3

\* send_queued keeps a client one.
LEMMA SendQueuedGoes ==
  ASSUME NEW k, ClientOK(k), NEW o, IssuedInv(o, k), \A e \in k.outbox : MessageOK(k, e[2])
  PROVE  Goes(k, SendQueued(k), o)
<1> DEFINE n == Len(k.queued)
           f == CHOOSE f : Turns(k, n, f)
<1>1. n \in Nat
  BY SeqIs DEF ClientOK
<1>2. Turns(k, n, f)
  <2> HIDE DEF n
  <2>1. \E x : Turns(k, n, x)
    BY <1>1, TurnsExist
  <2> QED
    BY <2>1, Zenon
<1>3. SendQueued(k) = f[n]
  BY DEF SendQueued, Turns, SendFront, FrontMayGo, TakeFront
<1> HIDE DEF f, n
<1> DEFINE S == {i \in 0 .. n : ~Goes(k, f[i], o)}
<1>4. S = {}
  <2> SUFFICES ASSUME S # {} PROVE FALSE
    OBVIOUS
  <2>1. PICK j \in S : \A i \in S : j <= i
    <3>1. S \in SUBSET Nat
      BY <1>1
    <3> HIDE DEF S
    <3> QED
      BY <3>1, LeastExists
  <2>2. j \in 0 .. n /\ f[j] = IF j = 0 THEN k ELSE SendFront(f[j - 1])
    BY <1>2 DEF Turns
  <2>3. CASE j = 0
    BY <2>2, <2>3, GoesSelf
  <2>4. CASE j # 0
    <3>1. j - 1 \in 0 .. n /\ ~(j <= j - 1)
      BY <1>1, <2>2, <2>4
    <3>2. Goes(k, f[j - 1], o)
      BY <2>1, <3>1
    <3>3. Goes(f[j - 1], SendFront(f[j - 1]), o)
      BY <3>2, SendFrontGoes DEF Goes
    <3>4. Goes(k, f[j], o)
      BY <2>2, <2>4, <3>2, <3>3, GoesThrough
    <3> QED
      BY <3>4
  <2> QED
    BY <2>3, <2>4
<1>5. n \in 0 .. n
  BY <1>1
<1> QED
  BY <1>3, <1>4, <1>5

\* The client after a call, whatever the call was.
Leaves(k, t, o) ==
  /\ ClientOK(t) /\ IssuedInv(o, t) /\ Forward(k, t)
  /\ \A e \in t.outbox : MessageOK(t, e[2])

\* The view a client knows, whether it registers and its outbox make no difference
\* to its windows and its queue.
LEMMA ClientSame ==
  ASSUME NEW s, ClientOK(s), NEW t, ClientBut(s, t, {"view_number", "registering", "outbox"}),
         t.view_number \in Nat, t.registering \in BOOLEAN, s.session # 0 => ~t.registering
  PROVE  /\ ClientOK(t) /\ Forward(s, t)
         /\ \A o : IssuedInv(o, s) => IssuedInv(o, t)
         /\ \A kind : NextNumber(t, kind) = NextNumber(s, kind) /\ Unsent(t, kind) = Unsent(s, kind)
         /\ t.session = s.session /\ t.evicted = s.evicted
<1>1. /\ DOMAIN t = ClientFields /\ t.session = s.session /\ t.evicted = s.evicted
      /\ t.next_request_number = s.next_request_number
      /\ t.next_query_number = s.next_query_number
      /\ t.requests = s.requests /\ t.queries = s.queries /\ t.queued = s.queued
  BY DEF ClientBut, ClientFields
<1>2. \A kind : /\ NextNumber(t, kind) = NextNumber(s, kind)
                /\ QueuedNumbers(t, kind) = QueuedNumbers(s, kind)
                /\ Window(t, kind) = Window(s, kind)
  BY <1>1 DEF NextNumber, QueuedNumbers, Window
<1>3. \A kind : Unsent(t, kind) = Unsent(s, kind)
  BY <1>2 DEF Unsent
<1>4. \A kind : QueueOK(s, kind) => QueueOK(t, kind)
  BY <1>1, <1>2, <1>3 DEF QueueOK
<1>5. ClientOK(t)
  BY <1>1, <1>4 DEF ClientOK
<1>6. OldestRequest(t) = OldestRequest(s)
  BY <1>1, <1>3 DEF OldestRequest
<1>7. QueueOK(s, "Query")
  BY DEF ClientOK, Kinds
<1>8. Forward(s, t)
  <2>1. Unsent(s, "Query") \in Nat
    BY <1>7 DEF QueueOK
  <2> QED
    BY <1>1, <1>3, <1>6, <2>1 DEF Forward, SentRequest
<1>9. ASSUME NEW o, IssuedInv(o, s)
      PROVE  IssuedInv(o, t)
  <2>1. SentUpTo(o, t) = SentUpTo(o, s)
    BY <1>1 DEF SentUpTo
  <2> QED
    BY <1>1, <1>2, <1>9, <2>1 DEF IssuedInv
<1> QED
  BY <1>1, <1>2, <1>3, <1>5, <1>8, <1>9

\* s is k with a new operation at the end of its queue.
Queues(k, s, kind) ==
  /\ ClientBut(k, s, {"queued", "next_request_number", "next_query_number"})
  /\ s.queued = Append(k.queued, [kind |-> kind, number |-> NextNumber(k, kind)])
  /\ NextNumber(s, kind) = NextNumber(k, kind) + 1
  /\ NextNumber(s, OtherKind(kind)) = NextNumber(k, OtherKind(kind))

\* The numbers in the queue.
LEMMA QueuesNumbers ==
  ASSUME NEW k, ClientOK(k), NEW new \in Kinds, NEW s, Queues(k, s, new), NEW kind \in Kinds
  PROVE  /\ Unsent(s, kind) = Unsent(k, kind)
         /\ s.queued \in Seq([kind : Kinds, number : Nat])
         /\ Len(s.queued) = Len(k.queued) + 1
         /\ \A i \in 1 .. Len(k.queued) : s.queued[i] = k.queued[i]
         /\ s.queued[Len(k.queued) + 1] = [kind |-> new, number |-> NextNumber(k, new)]
         /\ QueueOK(s, kind)
<1> DEFINE q == k.queued
           u == s.queued
           last == [kind |-> new, number |-> NextNumber(k, new)]
           Q == [kind : Kinds, number : Nat]
<1>1. QueueOK(k, kind) /\ QueueOK(k, new) /\ q \in Seq(Q)
  BY DEF ClientOK
<1>2. /\ NextNumber(k, kind) \in Nat /\ Unsent(k, kind) \in 1 .. NextNumber(k, kind)
      /\ QueuedNumbers(k, kind) = Unsent(k, kind) .. NextNumber(k, kind) - 1
      /\ NextNumber(k, new) \in Nat
  BY <1>1 DEF QueueOK
<1>3. last \in Q /\ last.kind = new /\ last.number = NextNumber(k, new)
  BY <1>2
<1> HIDE DEF last, Q
<1>4. u = Append(q, last)
  BY DEF Queues, last
<1> HIDE DEF q, u
<1>5. /\ u \in Seq(Q) /\ Len(u) = Len(q) + 1 /\ Len(q) \in Nat
      /\ DOMAIN q = 1 .. Len(q) /\ DOMAIN u = 1 .. Len(q) + 1
      /\ \A i \in 1 .. Len(q) : u[i] = q[i]
      /\ u[Len(q) + 1] = last
  BY <1>1, <1>3, <1>4
<1>6. \A i \in 1 .. Len(q) + 1 : i \in 1 .. Len(q) \/ i = Len(q) + 1
  BY <1>5
<1>7. \A n : n \in QueuedNumbers(k, kind) <=> \E i \in DOMAIN q : q[i].kind = kind /\ q[i].number = n
  BY DEF QueuedNumbers, q
<1>8. \A n : n \in QueuedNumbers(s, kind) <=> \E i \in DOMAIN u : u[i].kind = kind /\ u[i].number = n
  BY DEF QueuedNumbers, u
<1>9. \A n : n \in QueuedNumbers(s, kind) <=>
               n \in QueuedNumbers(k, kind) \/ (new = kind /\ n = NextNumber(k, kind))
  <2>1. /\ Len(q) + 1 \in DOMAIN u /\ \A i \in DOMAIN q : i \in DOMAIN u /\ u[i] = q[i]
        /\ \A i \in DOMAIN u : i \in DOMAIN q \/ i = Len(q) + 1
    BY <1>5, <1>6
  <2>2. u[Len(q) + 1].kind = new /\ u[Len(q) + 1].number = NextNumber(k, new)
    BY <1>3, <1>5
  <2> QED
    BY <1>7, <1>8, <2>1, <2>2
<1>10. NextNumber(s, kind) = IF kind = new THEN NextNumber(k, kind) + 1 ELSE NextNumber(k, kind)
  BY DEF Queues, OtherKind, Kinds
<1>11. QueuedNumbers(s, kind) = Unsent(k, kind) .. NextNumber(s, kind) - 1
  <2>1. CASE kind = new
    <3>1. \A n : n \in QueuedNumbers(s, kind) <=> n \in Unsent(k, kind) .. NextNumber(k, kind)
      BY <1>2, <1>9, <2>1
    <3>2. NextNumber(s, kind) - 1 = NextNumber(k, kind)
      BY <1>2, <1>10, <2>1
    <3> QED
      BY <3>1, <3>2
  <2>2. CASE kind # new
    BY <1>2, <1>9, <1>10, <2>2
  <2> QED
    BY <2>1, <2>2
<1>12. NextNumber(s, kind) \in Nat /\ Unsent(k, kind) \in 1 .. NextNumber(s, kind)
  BY <1>2, <1>10
<1>13. Unsent(s, kind) = Unsent(k, kind)
  BY <1>11, <1>12, UnsentIs
<1>14. ASSUME NEW i \in DOMAIN u, NEW j \in DOMAIN u, i < j, u[i].kind = kind, u[j].kind = kind
       PROVE  u[i].number < u[j].number
  <2>1. i \in 1 .. Len(q) /\ i \in DOMAIN q /\ u[i] = q[i]
    BY <1>5, <1>6, <1>14
  <2>2. CASE j \in 1 .. Len(q)
    <3>1. j \in DOMAIN q /\ u[j] = q[j]
      BY <1>5, <2>2
    <3> QED
      BY <1>1, <1>14, <2>1, <3>1 DEF QueueOK, q
  <2>3. CASE j = Len(q) + 1
    <3>1. u[j].kind = new /\ u[j].number = NextNumber(k, new)
      BY <1>3, <1>5, <2>3
    <3>2. u[i].number \in QueuedNumbers(k, kind)
      BY <1>7, <1>14, <2>1
    <3> QED
      BY <1>2, <1>14, <3>1, <3>2
  <2> QED
    BY <1>5, <1>6, <2>2, <2>3
<1>15. Window(s, kind) = Window(k, kind)
  BY DEF Queues, ClientBut, ClientFields, Window
<1>16. WindowOK(Window(k, kind), Unsent(k, kind))
  BY <1>1 DEF QueueOK
<1>17. QueueOK(s, kind)
  BY <1>11, <1>12, <1>13, <1>14, <1>15, <1>16 DEF QueueOK, u
<1> QED
  BY <1>5, <1>13, <1>17 DEF q, u, last, Q

\* A client that queues an operation it issues is one.
LEMMA QueuesOK ==
  ASSUME NEW k, ClientOK(k), NEW o, IssuedInv(o, k), NEW kind \in Kinds, NEW s,
         Queues(k, s, kind), NEW op \in Operations, op.kind = kind,
         op.number = NextNumber(k, kind), op.end = Open
  PROVE  /\ ClientOK(s) /\ IssuedInv(Append(o, op), s) /\ Forward(k, s)
         /\ s.session = k.session /\ s.evicted = k.evicted
<1> DEFINE q == k.queued
           u == s.queued
           g == Append(o, op)
           m == SentUpTo(o, k)
<1>1. /\ DOMAIN s = ClientFields /\ s.view_number = k.view_number /\ s.session = k.session
      /\ s.evicted = k.evicted /\ s.registering = k.registering
      /\ s.requests = k.requests /\ s.queries = k.queries /\ s.outbox = k.outbox
  BY DEF Queues, ClientBut, ClientFields
<1>2. \A other \in Kinds : /\ Unsent(s, other) = Unsent(k, other) /\ QueueOK(s, other)
                           /\ Window(s, other) = Window(k, other)
  BY ZenonT(60), <1>1, QueuesNumbers DEF Window
<1>3. /\ s.queued \in Seq([kind : Kinds, number : Nat])
      /\ Len(u) = Len(q) + 1
      /\ \A i \in 1 .. Len(q) : u[i] = q[i]
      /\ u[Len(q) + 1] = [kind |-> kind, number |-> NextNumber(k, kind)]
  BY ZenonT(60), QueuesNumbers
<1>4. ClientOK(s)
  BY <1>1, <1>2, <1>3 DEF ClientOK
<1>5. Forward(k, s)
  <2>1. OldestRequest(s) = OldestRequest(k)
    BY <1>1, <1>2 DEF OldestRequest, Kinds
  <2>2. QueueOK(s, "Query")
    BY <1>2 DEF Kinds
  <2>3. Unsent(s, "Query") \in Nat
    BY <2>2 DEF QueueOK
  <2> QED
    BY <1>1, <1>2, <2>1, <2>3 DEF Forward, SentRequest, Kinds
<1>6. /\ o \in Seq(Operations) /\ q \in Seq([kind : Kinds, number : Nat])
  BY DEF ClientOK, IssuedInv
<1>7. /\ Len(q) \in Nat /\ Len(o) \in Nat /\ m \in Nat /\ m = Len(o) - Len(q)
      /\ DOMAIN q = 1 .. Len(q) /\ DOMAIN u = 1 .. Len(u)
  BY <1>3, <1>6, SeqIs DEF IssuedInv, SentUpTo
<1>8. /\ g \in Seq(Operations) /\ Len(g) = Len(o) + 1
      /\ \A i \in 1 .. Len(o) : g[i] = o[i]
      /\ g[Len(o) + 1] = op
  <2> HIDE DEF q, u, m
  <2> QED
    BY <1>6
<1> HIDE DEF q, u, g, m
<1>9. SentUpTo(g, s) = m
  <2>1. SentUpTo(g, s) = Len(g) - Len(u)
    BY DEF SentUpTo, u
  <2> QED
    BY <1>3, <1>7, <1>8, <2>1
<1>10. \A i \in 1 .. m : i \in 1 .. Len(o) /\ g[i] = o[i]
  BY <1>7, <1>8
<1>11. ASSUME NEW i \in DOMAIN u
       PROVE  u[i] = [kind |-> g[m + i].kind, number |-> g[m + i].number] /\ g[m + i].end = Open
  <2>1. CASE i \in 1 .. Len(q)
    <3>1. m + i \in 1 .. Len(o) /\ i \in DOMAIN q
      BY <1>7, <2>1
    <3>2. q[i] = [kind |-> o[m + i].kind, number |-> o[m + i].number] /\ o[m + i].end = Open
      BY <3>1 DEF IssuedInv, q, m
    <3> QED
      BY <1>3, <1>8, <2>1, <3>1, <3>2
  <2>2. CASE i \notin 1 .. Len(q)
    <3>1. i = Len(q) + 1 /\ m + i = Len(o) + 1
      BY <1>3, <1>7, <2>2
    <3> QED
      BY <1>3, <1>8, <3>1
  <2> QED
    BY <2>1, <2>2
<1>12. \A i \in 1 .. m : g[i].end = Open => Awaits(Window(s, g[i].kind), g[i].number)
  <2> TAKE i \in 1 .. m
  <2>1. g[i] = o[i] /\ o[i].kind \in Kinds
    <3>1. o[i] \in Operations
      BY <1>6, <1>10, SeqIs
    <3> QED
      BY <1>10, <3>1 DEF Operations
  <2> QED
    BY <1>2, <2>1 DEF IssuedInv, m
<1>13. ASSUME NEW other \in Kinds, NEW p \in DOMAIN Window(s, other), Window(s, other)[p].waits
       PROVE  \E i \in 1 .. m :
                g[i].kind = other /\ g[i].number = Window(s, other)[p].number /\ g[i].end = Open
  <2>1. \E i \in 1 .. m :
          o[i].kind = other /\ o[i].number = Window(s, other)[p].number /\ o[i].end = Open
    BY <1>2, <1>13 DEF IssuedInv, m
  <2> QED
    BY <1>10, <2>1
<1>14. ASSUME NEW j \in 1 .. m, NEW i \in 1 .. Len(g), i < j, g[i].kind # g[j].kind
       PROVE  g[i].end # Open
  <2>1. i \in 1 .. Len(o) /\ j \in 1 .. Len(o)
    BY <1>7, <1>14
  <2> QED
    BY <1>8, <1>14, <2>1 DEF IssuedInv, m
<1>15. IssuedInv(g, s)
  <2>1. g \in Seq(Operations) /\ SentUpTo(g, s) \in Nat
    BY <1>7, <1>8, <1>9
  <2>2. \A i \in DOMAIN s.queued :
          LET x == g[SentUpTo(g, s) + i] IN
          s.queued[i] = [kind |-> x.kind, number |-> x.number] /\ x.end = Open
    BY <1>9, <1>11 DEF u
  <2> QED
    BY <1>9, <1>12, <1>13, <1>14, <2>1, <2>2 DEF IssuedInv
<1> QED
  BY <1>1, <1>4, <1>5, <1>15 DEF g

\* What a call that issues an operation leaves.
Issues(k, t, o, kind) ==
  /\ Leaves(k, t, o)
  /\ t.session = k.session /\ t.evicted = k.evicted
  /\ NextNumber(t, kind) = NextNumber(k, kind) + 1
  /\ NextNumber(t, OtherKind(kind)) = NextNumber(k, OtherKind(kind))

LEMMA SentIssues ==
  ASSUME NEW k, NEW s, NEW kind \in Kinds, NEW o, Queues(k, s, kind), Forward(k, s),
         s.session = k.session, s.evicted = k.evicted, NEW t, Goes(s, t, o)
  PROVE  Issues(k, t, o, kind)
<1>1. /\ t.session = s.session /\ t.evicted = s.evicted
      /\ t.next_request_number = s.next_request_number
      /\ t.next_query_number = s.next_query_number
  BY DEF Goes, SendingKeeps
<1>2. \A x : NextNumber(t, x) = NextNumber(s, x)
  BY <1>1 DEF NextNumber
<1>3. Forward(k, t)
  BY ForwardThrough DEF Goes
<1> QED
  BY <1>1, <1>2, <1>3 DEF Goes, Leaves, Issues, Queues

\* register
LEMMA RegisterGoes ==
  ASSUME NEW s, ClientOK(s), NEW o, IssuedInv(o, s), s.outbox = {}
  PROVE  LET t == ClientRegister(s)
         IN  /\ Leaves(s, t, o) /\ t.session = s.session /\ t.evicted = s.evicted
             /\ \A kind : NextNumber(t, kind) = NextNumber(s, kind)
<1> DEFINE a == [s EXCEPT !.registering = TRUE]
           t == [a EXCEPT !.outbox = @ \union {<<PrimaryOf(a.view_number), RegisterMessage>>}]
<1>1. CASE s.session # 0 \/ s.registering
  <2>1. Goes(s, s, o)
    BY GoesSelf
  <2>2. ClientRegister(s) = s
    BY <1>1 DEF ClientRegister
  <2> QED
    BY <2>1, <2>2 DEF Goes, Leaves
<1>2. CASE ~(s.session # 0 \/ s.registering)
  <2>1. ClientRegister(s) = t
    BY <1>2 DEF ClientRegister, ToPrimary
  <2>2. DOMAIN s = ClientFields /\ s.view_number \in Nat
    BY DEF ClientOK
  <2>3. /\ ClientBut(s, t, {"registering", "outbox"}) /\ t.registering = TRUE
        /\ t.outbox = {<<PrimaryOf(a.view_number), RegisterMessage>>}
    BY <2>2 DEF ClientBut, ClientFields
  <2> HIDE DEF t
  <2>4. ClientBut(s, t, {"view_number", "registering", "outbox"}) /\ t.view_number \in Nat
    BY <2>2, <2>3 DEF ClientBut, ClientFields
  <2>5. t.registering \in BOOLEAN /\ (s.session # 0 => ~t.registering)
    BY <1>2, <2>3
  <2>6. /\ ClientOK(t) /\ Forward(s, t) /\ IssuedInv(o, t)
        /\ \A kind : NextNumber(t, kind) = NextNumber(s, kind)
        /\ t.session = s.session /\ t.evicted = s.evicted
    BY <2>4, <2>5, ClientSame
  <2>7. \A e \in t.outbox : MessageOK(t, e[2])
    BY <2>3 DEF MessageOK, RegisterMessage
  <2> QED
    BY <2>1, <2>6, <2>7 DEF Leaves
<1> QED
  BY <1>1, <1>2

\* An operation that finds the queue empty and may go goes at once, as it would from
\* the queue.
LEMMA AtOnce ==
  ASSUME NEW k, DOMAIN k = ClientFields, NEW next \in {"next_request_number", "next_query_number"},
         NEW f, k.queued = <<>>, Sendable(k, f)
  PROVE  LET a == [k EXCEPT ![next] = @ + 1]
             s == [a EXCEPT !.queued = Append(@, f)]
         IN  SendFront(s) = SendOp(a, f)
<1> DEFINE a == [k EXCEPT ![next] = @ + 1]
           s == [a EXCEPT !.queued = Append(@, f)]
           b == [s EXCEPT !.queued = Tail(@)]
<1>1. /\ a = [x \in ClientFields |-> IF x = next THEN k[next] + 1 ELSE k[x]]
      /\ "queued" \in ClientFields /\ next # "queued" /\ next \in ClientFields
  BY DEF ClientFields
<1>2. DOMAIN a = ClientFields /\ a.queued = <<>>
  BY <1>1
<1>3. Tail(<<f>>) = <<>> /\ Append(<<>>, f) = <<f>> /\ <<f>> # <<>> /\ <<f>>[1] = f
  OBVIOUS
<1>4. s = [x \in ClientFields |-> IF x = "queued" THEN <<f>> ELSE a[x]]
  <2> HIDE DEF a
  <2> QED
    BY <1>1, <1>2, <1>3
<1>5. b = [x \in ClientFields |-> IF x = "queued" THEN <<>> ELSE a[x]]
  <2> HIDE DEF a
  <2>1. DOMAIN s = ClientFields /\ s.queued = <<f>>
    BY <1>1, <1>4
  <2>2. b = [x \in ClientFields |-> IF x = "queued" THEN Tail(s.queued) ELSE s[x]]
    <3> HIDE DEF s
    <3> QED
      BY <1>1, <2>1
  <2>3. \A x \in ClientFields : x # "queued" => s[x] = a[x]
    BY <1>4
  <2> HIDE DEF s, b
  <2> QED
    BY <1>3, <2>1, <2>2, <2>3
<1>6. a = b
  <2>1. \A x \in ClientFields : a[x] = IF x = next THEN k[next] + 1 ELSE k[x]
    BY <1>1
  <2>2. b = [x \in ClientFields |-> a[x]]
    <3> HIDE DEF a, b
    <3> QED
      BY <1>2, <1>5
  <2>3. a = [x \in ClientFields |-> a[x]]
    BY <1>1, <2>1
  <2> HIDE DEF a, b
  <2> QED
    BY <2>2, <2>3
<1>7. /\ s.queued # <<>> /\ s.queued[1] = f /\ s.session = k.session /\ s.requests = k.requests
      /\ s.queries = k.queries
  <2>1. s.queued = <<f>> /\ s.session = a.session /\ s.requests = a.requests /\ s.queries = a.queries
    <3> HIDE DEF a
    <3> QED
      BY <1>1, <1>4 DEF ClientFields
  <2>2. a.session = k.session /\ a.requests = k.requests /\ a.queries = k.queries
    BY <1>1 DEF ClientFields
  <2> HIDE DEF s, a
  <2> QED
    BY <1>3, <2>1, <2>2
<1> HIDE DEF s, a
<1>8. FrontMayGo(s)
  BY <1>7 DEF FrontMayGo, Sendable, RequestMayGo, QueryMayGo
<1> QED
  BY <1>6, <1>7, <1>8 DEF SendFront, TakeFront, s, a

\* on_request
LEMMA ClientOnRequestIssues ==
  ASSUME NEW k, ClientOK(k), k.outbox = {}, NEW o, IssuedInv(o, k), NEW op \in Operations,
         op.kind = "Request", op.number = k.next_request_number, op.end = Open
  PROVE  Issues(k, ClientOnRequest(k), Append(o, op), "Request")
<1> DEFINE f == [kind |-> "Request", number |-> k.next_request_number]
           a == [k EXCEPT !.next_request_number = @ + 1]
           s == [a EXCEPT !.queued = Append(@, f)]
           g == Append(o, op)
<1>1. DOMAIN k = ClientFields /\ "Request" \in Kinds
  BY DEF ClientOK, Kinds
<1>2. Queues(k, s, "Request") /\ s.outbox = {}
  BY <1>1 DEF Queues, ClientBut, ClientFields, NextNumber, OtherKind
<1>3. ClientOnRequest(k) = IF k.queued = <<>> /\ Sendable(k, f) THEN SendOp(a, f)
                           ELSE ClientRegister(s)
  BY DEF ClientOnRequest
<1>4. k.queued = <<>> /\ Sendable(k, f) => SendFront(s) = SendOp(a, f)
  BY <1>1, AtOnce
<1> HIDE DEF s, a, g, f
<1>5. /\ ClientOK(s) /\ IssuedInv(g, s) /\ Forward(k, s)
      /\ s.session = k.session /\ s.evicted = k.evicted
  BY <1>1, <1>2, QueuesOK DEF NextNumber, g
<1>6. Issues(k, SendFront(s), g, "Request")
  BY <1>1, <1>2, <1>5, SendFrontGoes, SentIssues
<1>7. Issues(k, ClientRegister(s), g, "Request")
  <2> DEFINE t == ClientRegister(s)
  <2>1. /\ Leaves(s, t, g) /\ t.session = s.session /\ t.evicted = s.evicted
        /\ \A kind : NextNumber(t, kind) = NextNumber(s, kind)
    BY <1>2, <1>5, RegisterGoes
  <2> HIDE DEF t
  <2>2. Forward(k, t)
    BY <1>5, <2>1, ForwardThrough DEF Leaves
  <2> QED
    BY <1>2, <1>5, <2>1, <2>2 DEF Leaves, Issues, Queues, t
<1> QED
  BY <1>3, <1>4, <1>6, <1>7 DEF g

\* on_query
LEMMA ClientOnQueryIssues ==
  ASSUME NEW k, ClientOK(k), k.outbox = {}, NEW o, IssuedInv(o, k), NEW op \in Operations,
         op.kind = "Query", op.number = k.next_query_number, op.end = Open
  PROVE  Issues(k, ClientOnQuery(k), Append(o, op), "Query")
<1> DEFINE f == [kind |-> "Query", number |-> k.next_query_number]
           a == [k EXCEPT !.next_query_number = @ + 1]
           s == [a EXCEPT !.queued = Append(@, f)]
           g == Append(o, op)
<1>1. DOMAIN k = ClientFields /\ "Query" \in Kinds
  BY DEF ClientOK, Kinds
<1>2. Queues(k, s, "Query") /\ s.outbox = {}
  BY <1>1 DEF Queues, ClientBut, ClientFields, NextNumber, OtherKind
<1>3. ClientOnQuery(k) = IF k.queued = <<>> /\ Sendable(k, f) THEN SendOp(a, f) ELSE s
  BY DEF ClientOnQuery
<1>4. k.queued = <<>> /\ Sendable(k, f) => SendFront(s) = SendOp(a, f)
  BY <1>1, AtOnce
<1> HIDE DEF s, a, g, f
<1>5. /\ ClientOK(s) /\ IssuedInv(g, s) /\ Forward(k, s)
      /\ s.session = k.session /\ s.evicted = k.evicted
  BY <1>1, <1>2, QueuesOK DEF NextNumber, g
<1>6. Issues(k, SendFront(s), g, "Query")
  BY <1>1, <1>2, <1>5, SendFrontGoes, SentIssues
<1>7. Issues(k, s, g, "Query")
  BY <1>1, <1>2, <1>5, GoesSelf, SentIssues
<1> QED
  BY <1>3, <1>4, <1>6, <1>7 DEF g

\* What waits for a reply was sent.
LEMMA WaitingOK ==
  ASSUME NEW k, ClientOK(k), NEW m \in Waiting(k)
  PROVE  MessageOK(k, m)
<1> DEFINE Numbers(w) == {w[i].number : i \in {j \in DOMAIN w : w[j].waits}}
<1>1. /\ QueueOK(k, "Request") /\ QueueOK(k, "Query") /\ k.session \in Nat
      /\ k.requests # <<>> => k.session # 0
      /\ Len(k.requests) <= InFlightMax /\ InFlightMax \in Nat
  BY ConfigAssumption DEF ClientOK, Kinds
<1>2. /\ Unsent(k, "Request") \in Nat \ {0} /\ Unsent(k, "Query") \in Nat \ {0}
      /\ WindowOK(k.requests, Unsent(k, "Request")) /\ WindowOK(k.queries, Unsent(k, "Query"))
  BY <1>1 DEF QueueOK, Window
<1>3. \/ m = RegisterMessage
      \/ \E n \in Numbers(k.requests) : m = RequestMessage(k, n, Oldest(k.requests, n) - 1)
      \/ \E n \in Numbers(k.queries) : m = QueryMessage(n)
  BY DEF Waiting
<1>4. CASE m = RegisterMessage
  BY <1>4 DEF RegisterMessage, MessageOK
<1>5. CASE \E n \in Numbers(k.requests) : m = RequestMessage(k, n, Oldest(k.requests, n) - 1)
  <2> DEFINE b == Unsent(k, "Request")
             w == k.requests
  <2>1. PICK n \in Numbers(w) : m = RequestMessage(k, n, Oldest(w, n) - 1)
    BY <1>5
  <2>2. PICK i \in DOMAIN w : n = w[i].number
    BY <2>1
  <2> HIDE DEF w, b
  <2>3. /\ Len(w) \in Nat /\ DOMAIN w = 1 .. Len(w) /\ Len(w) < b /\ b \in Nat
        /\ \A j \in 1 .. Len(w) : w[j].number = b - 1 - Len(w) + j
        /\ \A j \in Nat : w # <<>> => Oldest(w, j) = b - Len(w)
        /\ w = <<>> <=> Len(w) = 0
        /\ Oldest(w, b) = b - Len(w)
    BY <1>2, WindowIs DEF w, b
  <2>4. n \in Nat \ {0} /\ n < b /\ n >= b - Len(w) /\ w # <<>>
    BY <2>2, <2>3
  <2>5. Oldest(w, n) = b - Len(w) /\ OldestRequest(k) = b - Len(w)
    <3>1. OldestRequest(k) = Oldest(w, b)
      BY DEF OldestRequest, w, b
    <3> QED
      BY <2>3, <2>4, <3>1
  <2>6. /\ m.type = "Request" /\ m.session = k.session /\ m.number = n
        /\ m.answered = b - Len(w) - 1
    BY <2>1, <2>5 DEF RequestMessage
  <2>7. k.session \in Nat \ {0} /\ Len(w) <= InFlightMax
    BY <1>1, <2>4 DEF w
  <2>8. /\ m.answered \in Nat /\ m.answered < OldestRequest(k)
        /\ n < OldestRequest(k) + InFlightMax
    BY <1>1, <2>3, <2>4, <2>5, <2>6, <2>7
  <2>9. SentRequest(k, m.session, m.number, m.answered)
    BY <2>4, <2>6, <2>7, <2>8 DEF SentRequest, b
  <2> QED
    BY <2>6, <2>9 DEF MessageOK
<1>6. CASE \E n \in Numbers(k.queries) : m = QueryMessage(n)
  <2> DEFINE b == Unsent(k, "Query")
             w == k.queries
  <2>1. PICK n \in Numbers(w) : m = QueryMessage(n)
    BY <1>6
  <2>2. PICK i \in DOMAIN w : n = w[i].number
    BY <2>1
  <2> HIDE DEF w, b
  <2>3. /\ Len(w) \in Nat /\ DOMAIN w = 1 .. Len(w) /\ Len(w) < b /\ b \in Nat
        /\ \A j \in 1 .. Len(w) : w[j].number = b - 1 - Len(w) + j
    BY <1>2, WindowIs DEF w, b
  <2>4. n \in Nat /\ n < b
    BY <2>2, <2>3
  <2> QED
    BY <2>1, <2>4 DEF QueryMessage, MessageOK, b
<1> QED
  BY <1>3, <1>4, <1>5, <1>6

\* on_idle
LEMMA ClientOnIdleLeaves ==
  ASSUME NEW k, ClientOK(k), k.outbox = {}, NEW o, IssuedInv(o, k)
  PROVE  LET t == ClientOnIdle(k)
         IN  /\ Leaves(k, t, o) /\ t.session = k.session /\ t.evicted = k.evicted
             /\ \A kind : NextNumber(t, kind) = NextNumber(k, kind)
<1> DEFINE t == ClientOnIdle(k)
<1>1. DOMAIN k = ClientFields /\ k.view_number \in Nat /\ k.registering \in BOOLEAN
      /\ (k.session # 0 => ~k.registering)
  BY DEF ClientOK
<1>2. /\ ClientBut(k, t, {"outbox"}) /\ t.outbox = ReplicaID \X Waiting(k)
  BY <1>1 DEF ClientOnIdle, ClientBut, ClientFields
<1> HIDE DEF t
<1>3. /\ ClientBut(k, t, {"view_number", "registering", "outbox"})
      /\ t.view_number = k.view_number /\ t.registering = k.registering
  BY <1>2 DEF ClientBut, ClientFields
<1>4. /\ ClientOK(t) /\ Forward(k, t) /\ IssuedInv(o, t)
      /\ t.session = k.session /\ t.evicted = k.evicted
      /\ \A kind : NextNumber(t, kind) = NextNumber(k, kind)
  BY <1>1, <1>3, ClientSame
<1>5. \A e \in t.outbox : MessageOK(t, e[2])
  <2> TAKE e \in t.outbox
  <2>1. e[2] \in Waiting(k)
    BY <1>2
  <2> QED
    BY <1>4, <2>1, WaitingOK, ForwardMessages
<1> QED
  BY <1>4, <1>5 DEF Leaves, t

\* The operation at t ends with value v and the others stay.
EndsOne(o, g, t, v) ==
  /\ g \in Seq(Operations) /\ Len(g) = Len(o)
  /\ \A i \in 1 .. Len(o) : /\ g[i].kind = o[i].kind /\ g[i].number = o[i].number
                            /\ g[i].floor = o[i].floor
                            /\ g[i].end = IF i = t THEN v ELSE o[i].end

\* t is the operation of a kind and number that has not ended.
Only(o, t, kind, n) ==
  /\ t \in DOMAIN o /\ o[t].kind = kind /\ o[t].number = n /\ o[t].end = Open
  /\ \A i \in DOMAIN o : o[i].kind = kind /\ o[i].number = n /\ o[i].end = Open => i = t

\* Client k takes the reply to number n of a kind.
Takes(k, s, kind, n) ==
  /\ ClientBut(k, s, {"view_number", "requests", "queries"}) /\ s.view_number \in Nat
  /\ Window(s, kind) = Answered(Window(k, kind), n)
  /\ Window(s, OtherKind(kind)) = Window(k, OtherKind(kind))

LEMMA TakesOK ==
  ASSUME NEW k, ClientOK(k), NEW kind \in Kinds, NEW n \in Nat, Awaited(Window(k, kind), n),
         NEW s, Takes(k, s, kind, n)
  PROVE  /\ ClientOK(s) /\ Forward(k, s)
         /\ \A m \in Nat : Awaits(Window(s, kind), m) <=> Awaits(Window(k, kind), m) /\ m # n
         /\ \A x : Unsent(s, x) = Unsent(k, x)
<1>1. /\ DOMAIN s = ClientFields /\ s.session = k.session /\ s.evicted = k.evicted
      /\ s.registering = k.registering /\ s.queued = k.queued
      /\ s.next_request_number = k.next_request_number
      /\ s.next_query_number = k.next_query_number /\ s.view_number \in Nat
  BY DEF Takes, ClientBut, ClientFields
<1>2. \A x : /\ NextNumber(s, x) = NextNumber(k, x)
             /\ QueuedNumbers(s, x) = QueuedNumbers(k, x)
  BY <1>1 DEF NextNumber, QueuedNumbers
<1>3. \A x : Unsent(s, x) = Unsent(k, x)
  BY <1>2 DEF Unsent
<1>4. \A x \in Kinds : QueueOK(k, x) /\ Unsent(k, x) \in Nat \ {0}
                       /\ WindowOK(Window(k, x), Unsent(k, x))
  BY DEF ClientOK, QueueOK
<1>5. /\ WindowOK(Window(s, kind), Unsent(k, kind)) /\ Len(Window(s, kind)) \in Nat
      /\ Len(Window(s, kind)) <= Len(Window(k, kind))
      /\ \A m \in Nat : Awaits(Window(s, kind), m) <=> Awaits(Window(k, kind), m) /\ m # n
  BY <1>4, WindowAnswered DEF Takes
<1>6. ASSUME NEW x \in Kinds
      PROVE  /\ WindowOK(Window(s, x), Unsent(k, x))
             /\ Len(Window(s, x)) \in Nat /\ Len(Window(k, x)) \in Nat
             /\ Len(Window(s, x)) <= Len(Window(k, x))
             /\ Window(k, x) = <<>> => Window(s, x) = <<>>
  <2>1. Len(Window(k, x)) \in Nat /\ (Window(k, x) = <<>> <=> Len(Window(k, x)) = 0)
    BY <1>4, WindowIs
  <2>2. CASE x = kind
    <3>1. Window(s, kind) = <<>> <=> Len(Window(s, kind)) = 0
      BY <1>4, <1>5, WindowIs
    <3> QED
      BY <1>5, <2>1, <2>2, <3>1
  <2>3. CASE x # kind
    <3>1. x = OtherKind(kind)
      BY <2>3 DEF OtherKind, Kinds
    <3> QED
      BY <1>4, <2>1, <3>1 DEF Takes
  <2> QED
    BY <2>2, <2>3
<1>7. \A x \in Kinds : QueueOK(s, x)
  BY <1>1, <1>2, <1>3, <1>4, <1>6 DEF QueueOK
<1>8. /\ Len(s.requests) \in Nat /\ Len(k.requests) \in Nat /\ Len(s.requests) <= Len(k.requests)
      /\ k.requests = <<>> => s.requests = <<>>
      /\ k.queries = <<>> => s.queries = <<>>
      /\ WindowOK(s.requests, Unsent(k, "Request"))
  BY <1>6 DEF Kinds, Window
<1>9. ClientOK(s)
  <2>1. /\ k.requests = <<>> \/ k.queries = <<>>
        /\ k.requests # <<>> => k.session # 0
        /\ Len(k.requests) <= InFlightMax /\ InFlightMax \in Nat
    BY ConfigAssumption DEF ClientOK
  <2>2. /\ s.requests = <<>> \/ s.queries = <<>>
        /\ s.requests # <<>> => s.session # 0
    BY <1>1, <1>8, <2>1
  <2>3. Len(s.requests) <= InFlightMax
    BY <1>8, <2>1
  <2>4. s.queued \in Seq([kind : Kinds, number : Nat])
    BY <1>1 DEF ClientOK
  <2> QED
    BY <1>1, <1>7, <2>2, <2>3, <2>4 DEF ClientOK
<1>10. OldestRequest(k) <= OldestRequest(s)
  <2>1. /\ OldestRequest(k) = Unsent(k, "Request") - Len(k.requests)
        /\ Unsent(k, "Request") \in Nat
    BY <1>4, WindowIs DEF OldestRequest, Window, Kinds
  <2>2. OldestRequest(s) = Unsent(k, "Request") - Len(s.requests)
    BY <1>3, <1>8, <2>1, WindowIs DEF OldestRequest
  <2> QED
    BY <1>8, <2>1, <2>2
<1>11. Forward(k, s)
  <2>1. /\ Unsent(k, "Request") <= Unsent(s, "Request") /\ Unsent(k, "Query") <= Unsent(s, "Query")
    BY <1>3, <1>4 DEF Kinds
  <2> QED
    BY <1>1, <1>9, <1>10, <2>1, SessionForward
<1> QED
  BY <1>3, <1>5, <1>9, <1>11

LEMMA TakesIssued ==
  ASSUME NEW k, ClientOK(k), NEW kind \in Kinds, NEW n \in Nat, Awaited(Window(k, kind), n),
         NEW s, Takes(k, s, kind, n), NEW o, IssuedInv(o, k), NEW t, Only(o, t, kind, n),
         NEW v, v # Open, NEW g, EndsOne(o, g, t, v)
  PROVE  IssuedInv(g, s)
<1> DEFINE m == SentUpTo(o, k)
<1>1. ClientOK(s) /\ \A x \in Nat : Awaits(Window(s, kind), x) <=> Awaits(Window(k, kind), x) /\ x # n
  BY TakesOK
<1>2. s.queued = k.queued /\ Window(s, OtherKind(kind)) = Window(k, OtherKind(kind))
  BY DEF Takes, ClientBut, ClientFields
<1>3. /\ o \in Seq(Operations) /\ k.queued \in Seq([kind : Kinds, number : Nat])
  BY DEF IssuedInv, ClientOK
<1>4. /\ Len(o) \in Nat /\ DOMAIN o = 1 .. Len(o) /\ \A i \in 1 .. Len(o) : o[i] \in Operations
  BY <1>3, SeqIs
<1>5. Len(g) = Len(o) /\ g \in Seq(Operations)
  BY DEF EndsOne
<1>6. /\ m \in Nat /\ SentUpTo(g, s) = m /\ m = Len(o) - Len(k.queued) /\ Len(k.queued) \in Nat
  BY <1>2, <1>3, <1>5, SeqIs DEF SentUpTo, IssuedInv
<1> HIDE DEF m
<1>7. \A i \in 1 .. Len(o) : /\ g[i].kind = o[i].kind /\ g[i].number = o[i].number
                             /\ g[i].end = Open <=> o[i].end = Open /\ i # t
                             /\ o[i].kind \in Kinds /\ o[i].number \in Nat
                             /\ i # t => g[i].end = o[i].end
  BY <1>4 DEF EndsOne, Operations
<1>8. \A i \in 1 .. m : i \in 1 .. Len(o)
  <2>1. m \in Nat /\ Len(o) \in Nat /\ m <= Len(o)
    <3> DEFINE x == Len(o)
               y == Len(k.queued)
    <3>1. m \in Nat /\ x \in Nat /\ y \in Nat /\ m = x - y
      BY <1>4, <1>6
    <3> HIDE DEF x, y
    <3>2. m <= x
      BY <3>1
    <3> QED
      BY <3>1, <3>2 DEF x
  <2> QED
    BY <2>1
<1>9. t \in 1 .. m
  <2>1. \A i \in DOMAIN k.queued :
          LET q == o[m + i] IN k.queued[i] = [kind |-> q.kind, number |-> q.number] /\ q.end = Open
    BY DEF IssuedInv, m
  <2>2. Awaits(Window(k, kind), n)
    <3>1. WindowOK(Window(k, kind), Unsent(k, kind)) /\ Unsent(k, kind) \in Nat
      BY DEF ClientOK, QueueOK
    <3> QED
      BY <3>1, WindowIs
  <2>3. PICK p \in DOMAIN Window(k, kind) : Window(k, kind)[p].number = n /\ Window(k, kind)[p].waits
    BY <2>2 DEF Awaits
  <2>4. PICK i \in 1 .. m : o[i].kind = kind /\ o[i].number = n /\ o[i].end = Open
    BY <2>3 DEF IssuedInv, m
  <2> QED
    BY <1>4, <1>8, <2>4 DEF Only
<1>10. ASSUME NEW i \in DOMAIN s.queued
       PROVE  LET q == g[m + i] IN s.queued[i] = [kind |-> q.kind, number |-> q.number] /\ q.end = Open
  <2>1. k.queued[i] = [kind |-> o[m + i].kind, number |-> o[m + i].number] /\ o[m + i].end = Open
    BY <1>2, <1>10 DEF IssuedInv, m
  <2>2. m + i \in 1 .. Len(o) /\ m + i # t
    <3>1. i \in 1 .. Len(k.queued)
      BY <1>2, <1>3, <1>10, SeqIs
    <3> QED
      BY <1>4, <1>6, <1>9, <3>1
  <2> QED
    BY <1>2, <1>7, <2>1, <2>2
<1>11. ASSUME NEW i \in 1 .. m, g[i].end = Open
       PROVE  Awaits(Window(s, g[i].kind), g[i].number)
  <2>1. /\ o[i].end = Open /\ i # t /\ i \in DOMAIN o
        /\ g[i].kind = o[i].kind /\ g[i].number = o[i].number
        /\ o[i].kind \in Kinds /\ o[i].number \in Nat
    BY <1>4, <1>7, <1>8, <1>11
  <2>2. Awaits(Window(k, o[i].kind), o[i].number)
    BY <2>1 DEF IssuedInv, m
  <2>3. CASE o[i].kind = kind
    <3>1. o[i].number # n
      BY <2>1, <2>3 DEF Only
    <3> QED
      BY <1>1, <2>1, <2>2, <2>3, <3>1
  <2>4. CASE o[i].kind = OtherKind(kind)
    BY <1>2, <2>1, <2>2, <2>4
  <2> QED
    BY <2>1, <2>3, <2>4 DEF OtherKind, Kinds
<1>12. ASSUME NEW x \in Kinds, NEW p \in DOMAIN Window(s, x), Window(s, x)[p].waits
       PROVE  \E i \in 1 .. m :
                g[i].kind = x /\ g[i].number = Window(s, x)[p].number /\ g[i].end = Open
  <2> DEFINE a == Window(s, x)[p].number
  <2>1. Awaits(Window(s, x), a)
    BY <1>12 DEF Awaits
  <2>2. a \in Nat
    <3>1. QueueOK(s, x)
      BY <1>1 DEF ClientOK
    <3>2. Window(s, x) \in Seq([number : Nat, waits : BOOLEAN])
      BY <3>1 DEF QueueOK, WindowOK
    <3>3. Window(s, x)[p] \in [number : Nat, waits : BOOLEAN]
      BY <3>2, SeqIs
    <3> QED
      BY <3>3
  <2> HIDE DEF a
  <2>3. Awaits(Window(k, x), a) /\ ~(x = kind /\ a = n)
    <3>1. x = kind \/ x = OtherKind(kind)
      BY DEF OtherKind, Kinds
    <3>2. OtherKind(kind) # kind
      BY DEF OtherKind, Kinds
    <3> QED
      BY <1>1, <1>2, <2>1, <2>2, <3>1, <3>2
  <2>4. PICK w \in DOMAIN Window(k, x) : Window(k, x)[w].number = a /\ Window(k, x)[w].waits
    BY <2>3 DEF Awaits
  <2>5. PICK i \in 1 .. m : o[i].kind = x /\ o[i].number = a /\ o[i].end = Open
    BY <2>4 DEF IssuedInv, m
  <2>6. i # t
    BY <2>3, <2>5 DEF Only
  <2> QED
    BY <1>7, <1>8, <2>5, <2>6 DEF a
<1>13. ASSUME NEW j \in 1 .. m, NEW i \in 1 .. Len(g), i < j, g[i].kind # g[j].kind
       PROVE  g[i].end # Open
  <2>1. i \in 1 .. Len(o) /\ o[i].kind # o[j].kind
    BY <1>5, <1>7, <1>8, <1>13
  <2>2. o[i].end # Open
    BY <1>13, <2>1 DEF IssuedInv, m
  <2> QED
    BY <1>7, <2>1, <2>2
<1>14. SentUpTo(g, s) \in Nat /\ SentUpTo(g, s) = m
  BY <1>6
<1> QED
  BY <1>5, <1>10, <1>11, <1>12, <1>13, <1>14 DEF IssuedInv

-----------------------------------------------------------------------------
(* Steps that leave the primary alone *)

\* What is said of a client stays when only its connection changes and replies
\* are lost.
LEMMA SameIssuer ==
  ASSUME NEW d \in Issuers, IssuerInv(d), clients'[d] = clients[d], ops'[d] = ops[d],
         pending'[d] = pending[d], UNCHANGED <<primary, committed>>, replies' \subseteq replies,
         ConnectionInv(d)'
  PROVE  IssuerInv(d)'
<1> DEFINE k == clients[d]
           o == ops[d]
<1>1. /\ ClientOK(k) /\ k.outbox = {}
      /\ IssuedInv(o, k) /\ DoneInv(o, d) /\ InOrderOf(o)
      /\ LoggedInv(o, k, d) /\ QueriedInv(o, k, d)
      /\ \E e \in 0 .. Answers(d) : EpochInv(o, k, e)
  BY DEF IssuerInv
<1>2. k' = k /\ o' = o /\ Known' = Known /\ Answers(d)' = Answers(d)
  BY DEF Known, Answers
<1> HIDE DEF k, o
<1>3. (ClientOK(k) /\ k.outbox = {} /\ IssuedInv(o, k) /\ InOrderOf(o))'
  BY <1>1, <1>2
<1>4. DoneInv(o, d)'
  <2> HIDE DEF Known
  <2> QED
    BY <1>1, <1>2 DEF DoneInv
<1>5. LoggedInv(o, k, d)'
  BY <1>1, <1>2 DEF LoggedInv
<1>6. QueriedInv(o, k, d)'
  <2> HIDE DEF Known
  <2> QED
    BY <1>1, <1>2 DEF QueriedInv
<1>7. (\E e \in 0 .. Answers(d) : EpochInv(o, k, e))'
  BY <1>1, <1>2 DEF EpochInv
<1> QED
  BY <1>3, <1>4, <1>5, <1>6, <1>7 DEF IssuerInv, k, o

\* A message or a reply is lost.
LEMMA LoseKeeps ==
  ASSUME IInv, Lose, UNCHANGED connections
  PROVE  IInv'
<1>1. /\ net' \subseteq net /\ replies' \subseteq replies
      /\ UNCHANGED <<clients, primary, committed, ops>>
      /\ UNCHANGED <<pending, answers, batches, got>>
  BY DEF Lose, connections
<1>2. Batches' = Batches /\ \A c : Answers(c)' = Answers(c)
  BY <1>1 DEF Batches, Answers
<1>3. ASSUME NEW c \in Issuers PROVE IssuerInv(c)'
  <2>1. IssuerInv(c)
    BY DEF IInv
  <2>2. ConnectionInv(c)'
    BY <1>1, <1>2, <2>1 DEF IssuerInv, ConnectionInv
  <2> QED
    BY <1>1, <2>1, <2>2, SameIssuer
<1>4. MessagesInv'
  BY <1>1 DEF IInv, MessagesInv
<1>5. LogInv'
  BY <1>1 DEF IInv, LogInv
<1>6. RepliesInv'
  BY <1>1 DEF IInv, RepliesInv
<1>7. PrimaryInv(primary)' /\ CommittedInv'
  BY <1>1 DEF IInv, CommittedInv, Known
<1>8. /\ (DOMAIN clients = Issuers /\ DOMAIN ops = Issuers)'
      /\ (DOMAIN pending = Issuers /\ DOMAIN got = Issuers)'
      /\ (answers \in Seq(ReadyAnswers) /\ batches \in Seq(Seq(ReadyAnswers)))'
  BY <1>1 DEF IInv
<1>9. (\A b \in DOMAIN Batches : \A p \in DOMAIN Batches[b] : AnswerOK(Batches[b][p]))'
  <2>1. \A b \in DOMAIN Batches : \A p \in DOMAIN Batches[b] : AnswerOK(Batches[b][p])
    BY DEF IInv
  <2> QED
    BY <1>1, <1>2, <2>1 DEF AnswerOK
<1> QED
  BY <1>3, <1>4, <1>5, <1>6, <1>7, <1>8, <1>9 DEF IInv

\* A client that leaves a call as t.
LEMMA ClientLeft ==
  ASSUME IInv, NEW c \in Issuers, NEW t, NEW o, Leaves(clients[c], t, o), LeaveClient(c, t)
  PROVE  /\ MessagesInv' /\ LogInv' /\ RepliesInv' /\ PrimaryInv(primary)' /\ CommittedInv'
         /\ DOMAIN clients' = Issuers /\ \A d \in Issuers \ {c} : clients'[d] = clients[d]
         /\ UNCHANGED <<primary, replies, committed>>
         /\ ClientBut(t, clients'[c], {"outbox"}) /\ clients'[c].outbox = {}
         /\ ClientOK(clients'[c]) /\ IssuedInv(o, clients'[c])
         /\ clients'[c].session = t.session /\ clients'[c].evicted = t.evicted
         /\ \A kind : /\ NextNumber(clients'[c], kind) = NextNumber(t, kind)
                      /\ Unsent(clients'[c], kind) = Unsent(t, kind)
<1> DEFINE k == clients[c]
           s == clients'[c]
<1>1. /\ ClientOK(t) /\ IssuedInv(o, t) /\ Forward(k, t) /\ DOMAIN t = ClientFields
      /\ t.view_number \in Nat /\ t.registering \in BOOLEAN /\ (t.session # 0 => ~t.registering)
      /\ \A e \in t.outbox : MessageOK(t, e[2])
  BY DEF Leaves, ClientOK
<1>2. /\ clients' = [clients EXCEPT ![c] = [t EXCEPT !.outbox = {}]]
      /\ net' = net \union Outgoing(c, t)
      /\ UNCHANGED <<primary, replies, committed>>
      /\ DOMAIN clients = Issuers
  BY DEF LeaveClient, IInv
<1>3. DOMAIN clients' = Issuers /\ s = [t EXCEPT !.outbox = {}]
      /\ \A d \in Issuers \ {c} : clients'[d] = clients[d]
  BY <1>2
<1>4. ClientBut(t, s, {"outbox"}) /\ s.outbox = {}
  BY <1>1, <1>3 DEF ClientBut, ClientFields
<1> HIDE DEF s
<1>5. /\ ClientBut(t, s, {"view_number", "registering", "outbox"})
      /\ s.view_number = t.view_number /\ s.registering = t.registering
  BY <1>4 DEF ClientBut, ClientFields
<1>6. /\ ClientOK(s) /\ Forward(t, s) /\ IssuedInv(o, s)
      /\ \A kind : NextNumber(s, kind) = NextNumber(t, kind) /\ Unsent(s, kind) = Unsent(t, kind)
      /\ s.session = t.session /\ s.evicted = t.evicted
  BY <1>1, <1>5, ClientSame
<1>7. Forward(k, s)
  BY <1>1, <1>6, ForwardThrough
<1>8. MessagesInv'
  <2> SUFFICES ASSUME NEW e \in net'
               PROVE  e[1] \in Issuers /\ MessageOK(clients'[e[1]], e[2])
    BY DEF MessagesInv, MessageOK
  <2>1. CASE e \in net
    <3>1. e[1] \in Issuers /\ MessageOK(clients[e[1]], e[2])
      BY <2>1 DEF IInv, MessagesInv, MessageOK
    <3> QED
      BY <1>3, <1>7, <3>1, ForwardMessages DEF s
  <2>2. CASE e \in Outgoing(c, t)
    <3>1. PICK d \in t.outbox : e = <<c, d[2]>>
      BY <2>2 DEF Outgoing
    <3>2. MessageOK(s, d[2]) /\ e[1] = c /\ e[2] = d[2]
      BY <1>1, <1>6, <3>1, ForwardMessages
    <3> QED
      BY <3>2 DEF s
  <2> QED
    BY <1>2, <2>1, <2>2
<1>9. LogInv'
  <2> SUFFICES ASSUME NEW i \in 1 .. primary.op_number, primary.log[i].session # 0
               PROVE  /\ primary.log[i].client \in Issuers
                      /\ SentRequest(clients'[primary.log[i].client], primary.log[i].session,
                                     primary.log[i].number, primary.log[i].answered)
    BY <1>2 DEF LogInv
  <2>1. /\ primary.log[i].client \in Issuers
        /\ SentRequest(clients[primary.log[i].client], primary.log[i].session,
                       primary.log[i].number, primary.log[i].answered)
    BY DEF IInv, LogInv
  <2> QED
    BY <1>3, <1>7, <2>1 DEF Forward, s
<1>10. RepliesInv'
  BY <1>2 DEF IInv, RepliesInv
<1>11. PrimaryInv(primary)' /\ CommittedInv'
  BY <1>2 DEF IInv, CommittedInv, Known
<1> QED
  BY <1>2, <1>3, <1>4, <1>6, <1>8, <1>9, <1>10, <1>11 DEF s

\* An operation issued has a number that was not sent before.
LEMMA NumberIsNew ==
  ASSUME IInv, NEW c \in Issuers
  PROVE  /\ \A kind \in Kinds : /\ NextNumber(clients[c], kind) \in Nat
                                /\ Unsent(clients[c], kind) \in Nat
                                /\ Unsent(clients[c], kind) <= NextNumber(clients[c], kind)
         /\ \A i \in 1 .. primary.op_number :
              clients[c].session = 0 \/ ~IsRequest(primary.log[i], c, clients[c].session,
                                                   NextNumber(clients[c], "Request"))
<1> DEFINE k == clients[c]
<1>1. ClientOK(k)
  BY DEF IInv, IssuerInv
<1>2. \A kind \in Kinds : /\ NextNumber(k, kind) \in Nat /\ Unsent(k, kind) \in Nat
                          /\ Unsent(k, kind) <= NextNumber(k, kind)
  <2> TAKE kind \in Kinds
  <2>1. NextNumber(k, kind) \in Nat /\ Unsent(k, kind) \in 1 .. NextNumber(k, kind)
    BY <1>1 DEF ClientOK, QueueOK
  <2> QED
    BY <2>1
<1>3. ASSUME NEW i \in 1 .. primary.op_number, k.session # 0,
             IsRequest(primary.log[i], c, k.session, NextNumber(k, "Request"))
      PROVE  FALSE
  <2>1. SentRequest(k, k.session, NextNumber(k, "Request"), primary.log[i].answered)
    BY <1>3 DEF IInv, LogInv, IsRequest
  <2>2. k.session \in Nat /\ k.evicted \in Nat /\ k.session > k.evicted
    BY <1>1, <1>3 DEF ClientOK
  <2>3. NextNumber(k, "Request") < Unsent(k, "Request")
    BY <2>1, <2>2 DEF SentRequest
  <2> QED
    BY <1>2, <2>3 DEF Kinds
<1> QED
  BY <1>2, <1>3

\* The client of an operation that is issued.
LEMMA IssuedIssuer ==
  ASSUME IInv, NEW c \in Issuers, NEW kind \in Kinds, NEW t, NEW op,
         op = Issued(kind, NextNumber(clients[c], kind)),
         ops'[c] = Append(ops[c], op), Issues(clients[c], t, Append(ops[c], op), kind),
         LeaveClient(c, t), Answers(c)' = Answers(c), ConnectionInv(c)'
  PROVE  IssuerInv(c)'
<1> DEFINE k == clients[c]
           o == ops[c]
           s == clients'[c]
           g == ops'[c]
           num == NextNumber(k, kind)
           n == Len(o)
<1>1. /\ ClientOK(k)
      /\ IssuedInv(o, k) /\ DoneInv(o, c) /\ InOrderOf(o)
      /\ LoggedInv(o, k, c) /\ QueriedInv(o, k, c)
      /\ \E e \in 0 .. Answers(c) : EpochInv(o, k, e)
  BY DEF IInv, IssuerInv
<1>2. /\ Leaves(k, t, g)
      /\ t.session = k.session /\ t.evicted = k.evicted
      /\ NextNumber(t, kind) = NextNumber(k, kind) + 1
      /\ NextNumber(t, OtherKind(kind)) = NextNumber(k, OtherKind(kind))
  BY DEF Issues
<1>3. /\ s.outbox = {} /\ ClientOK(s) /\ IssuedInv(g, s)
      /\ s.session = k.session /\ s.evicted = k.evicted
      /\ NextNumber(s, kind) = NextNumber(k, kind) + 1
      /\ NextNumber(s, OtherKind(kind)) = NextNumber(k, OtherKind(kind))
      /\ UNCHANGED <<primary, replies, committed>>
      /\ Unsent(s, "Query") = Unsent(t, "Query")
  <2>1. /\ s.outbox = {} /\ ClientOK(s) /\ IssuedInv(g, s)
        /\ s.session = t.session /\ s.evicted = t.evicted
        /\ \A x : NextNumber(s, x) = NextNumber(t, x) /\ Unsent(s, x) = Unsent(t, x)
        /\ UNCHANGED <<primary, replies, committed>>
    BY <1>2, ClientLeft
  <2> QED
    BY <1>2, <2>1
<1>4. /\ num \in Nat /\ \A x \in Kinds : /\ NextNumber(k, x) \in Nat /\ Unsent(k, x) \in Nat
                                       /\ Unsent(k, x) <= NextNumber(k, x)
  BY NumberIsNew
<1>5. o \in Seq(Operations) /\ n \in Nat /\ DOMAIN o = 1 .. n /\ \A i \in 1 .. n : o[i] \in Operations
  BY <1>1, SeqIs DEF IssuedInv
<1>6. /\ op.kind = kind /\ op.number = num /\ op.floor = Known /\ op.end = Open
  BY DEF Issued, Known
<1>7. /\ DOMAIN g = 1 .. n + 1 /\ Len(g) = n + 1 /\ g[n + 1] = op
      /\ \A i \in 1 .. n : g[i] = o[i]
  BY <1>5
<1>8. Known' = Known /\ Known \in Nat
  BY <1>3, KnownOps DEF Known
<1> HIDE DEF k, o, s, g, num, n, Known
<1>9. \A i \in 1 .. n + 1 : i \in 1 .. n \/ i = n + 1
  BY <1>5
<1>10. ~Done(op) /\ op.end # Failed
  BY <1>6 DEF Done, Open, Failed
<1>11. DoneInv(o, c)'
  <2>1. DOMAIN o' = 1 .. n + 1 /\ o'[n + 1] = op /\ \A i \in 1 .. n : o'[i] = o[i]
    BY <1>7 DEF o, g
  <2> QED
    BY <1>1, <1>3, <1>5, <1>6, <1>8, <1>9, <1>10, <2>1 DEF DoneInv
<1>12. InOrderOf(g)
  BY <1>1, <1>5, <1>7, <1>9, <1>10 DEF InOrderOf
<1>13. LoggedInv(o, k, c)'
  <2> SUFFICES ASSUME NEW j \in 1 .. n + 1, g[j].kind = "Request", g[j].end = Open,
                      NEW m \in 1 .. primary.op_number, k.session # 0,
                      IsRequest(primary.log[m], c, k.session, g[j].number)
               PROVE  /\ m > g[j].floor
                      /\ \A i \in 1 .. j - 1 : g[i].kind = "Query" => g[i].end # Open /\ g[i].end < m
    <3>1. o' = g /\ k' = s
      BY DEF g, s, o, k
    <3>2. primary' = primary /\ s.session = k.session /\ DOMAIN g = 1 .. n + 1
      BY <1>3, <1>7
    <3> QED
      BY <3>1, <3>2 DEF LoggedInv
  <2>1. j \in 1 .. n
    <3>1. CASE j = n + 1
      <4>1. g[j].number = NextNumber(clients[c], "Request")
        BY <1>6, <1>7, <3>1 DEF num, k
      <4> QED
        BY <4>1, NumberIsNew DEF k
    <3> QED
      BY <1>9, <3>1
  <2>2. g[j] = o[j] /\ \A i \in 1 .. j - 1 : i \in 1 .. n /\ g[i] = o[i]
    BY <1>5, <1>7, <2>1
  <2> QED
    BY <1>1, <1>5, <2>1, <2>2 DEF LoggedInv
<1>14. ASSUME NEW j \in 1 .. n, NEW op_number, Reflects(o, j, op_number)
       PROVE  Reflects(g, j, op_number)
  <2>1. g[j] = o[j] /\ \A i \in 1 .. j - 1 : i \in 1 .. n /\ g[i] = o[i]
    BY <1>5, <1>7
  <2> QED
    BY <1>14, <2>1 DEF Reflects
<1>15. Unsent(s, "Query") \in Nat /\ Unsent(k, "Query") <= Unsent(s, "Query")
  BY <1>2, <1>3 DEF Leaves, Forward, k
<1>16. ASSUME NEW number, number \in Nat, number < Unsent(k, "Query"), NEW op_number,
              \A j \in DOMAIN o :
                o[j].kind = "Query" /\ o[j].end = Open /\ o[j].number = number =>
                  Reflects(o, j, op_number)
       PROVE  /\ number < Unsent(s, "Query")
              /\ \A j \in DOMAIN g :
                   g[j].kind = "Query" /\ g[j].end = Open /\ g[j].number = number =>
                     Reflects(g, j, op_number)
  <2>1. number < Unsent(s, "Query")
    BY <1>4, <1>15, <1>16 DEF Kinds
  <2>2. ASSUME NEW j \in 1 .. n + 1, g[j].kind = "Query", g[j].end = Open, g[j].number = number
        PROVE  j \in 1 .. n
    <3>1. j # n + 1
      <4> SUFFICES ASSUME j = n + 1 PROVE FALSE
        OBVIOUS
      <4>1. number = NextNumber(k, "Query")
        BY <1>6, <1>7, <2>2 DEF num
      <4> QED
        BY <1>4, <1>16, <4>1 DEF Kinds
    <3> QED
      BY <1>9, <3>1
  <2> QED
    BY <1>5, <1>7, <1>14, <1>16, <2>1, <2>2
<1>17. QueriedInv(o, k, c)'
  <2>1. o' = g /\ k' = s
    BY DEF g, s, o, k
  <2>2. ASSUME NEW i \in DOMAIN primary.queries, primary.queries[i].client = c
        PROVE  /\ primary.queries[i].number < Unsent(s, "Query")
               /\ \A j \in DOMAIN g :
                    g[j].kind = "Query" /\ g[j].end = Open
                    /\ g[j].number = primary.queries[i].number =>
                      Reflects(g, j, primary.queries[i].op_number)
    <3>1. primary.queries \in Seq(WaitingQueries)
      BY DEF IInv, PrimaryInv, Serving, Committing
    <3>2. primary.queries[i].number \in Nat
      <4>1. primary.queries[i] \in WaitingQueries
        BY <3>1, SeqIs
      <4> QED
        BY <4>1 DEF WaitingQueries
    <3> QED
      BY <1>1, <1>16, <2>2, <3>2 DEF QueriedInv
  <2>3. ASSUME NEW x \in replies, x.reply.client = c /\ x.reply.type = "Queried"
        PROVE  /\ x.reply.number \in Nat /\ x.reply.number < Unsent(s, "Query")
               /\ x.reply.result \in 0 .. Known
               /\ \A j \in DOMAIN g :
                    g[j].kind = "Query" /\ g[j].end = Open /\ g[j].number = x.reply.number =>
                      Reflects(g, j, x.reply.result)
    BY <1>1, <1>16, <2>3 DEF QueriedInv
  <2> QED
    BY <1>3, <1>8, <2>1, <2>2, <2>3 DEF QueriedInv
<1>18. (\E e \in 0 .. Answers(c) : EpochInv(o, k, e))'
  <2>1. PICK e \in 0 .. Answers(c) : EpochInv(o, k, e)
    BY <1>1
  <2>2. e \in Nat /\ e <= n
    <3>1. Answers(c) \in Nat /\ Answers(c) = Len(ops[c]) - Len(pending[c])
          /\ pending[c] \in Seq([op : Nat, kind : Kinds, number : Nat, answer : Int])
      BY DEF IInv, IssuerInv, ConnectionInv, Answers
    <3>2. Len(pending[c]) \in Nat
      BY <3>1
    <3>3. n \in Nat /\ Answers(c) \in Nat /\ Answers(c) = n - Len(pending[c])
      BY <1>5, <3>1 DEF n, o
    <3>4. Answers(c) <= n
      BY <3>2, <3>3
    <3> QED
      BY <3>3, <3>4
  <2>3. ASSUME NEW i \in 1 .. e
        PROVE  /\ g[i].end # Open
               /\ g[i].kind = "Request" /\ Done(g[i]) => committed[g[i].end].session <= s.evicted
    <3>1. i \in 1 .. n
      BY <1>5, <2>2
    <3> QED
      BY <1>3, <1>7, <2>1, <3>1 DEF EpochInv
  <2>4. ASSUME NEW i \in e + 1 .. n
        PROVE  /\ g[i] = o[i] /\ i \in 1 .. n /\ o[i].kind \in Kinds /\ o[i].number \in Nat
               /\ o[i].end # Failed /\ o[i].number < NextNumber(k, o[i].kind)
               /\ o[i].kind = "Request" /\ Done(o[i]) => committed[o[i].end].session = k.session
    <3>1. i \in 1 .. n
      BY <1>5, <2>2
    <3>2. g[i] = o[i] /\ o[i] \in Operations
      BY <1>5, <1>7, <3>1
    <3> QED
      BY <2>1, <3>1, <3>2 DEF EpochInv, n, Operations
  <2>5. \A i \in e + 1 .. n + 1 : i \in e + 1 .. n \/ i = n + 1
    BY <1>5, <2>2
  <2>6. \A x \in Kinds : NextNumber(k, x) <= NextNumber(s, x)
    <3>1. \A x \in Kinds : x = kind \/ x = OtherKind(kind)
      BY DEF Kinds, OtherKind
    <3>2. NextNumber(s, kind) = NextNumber(k, kind) + 1 /\ NextNumber(k, kind) \in Nat
      BY <1>3, <1>4
    <3>3. OtherKind(kind) \in Kinds
      BY DEF Kinds, OtherKind
    <3>4. NextNumber(s, OtherKind(kind)) = NextNumber(k, OtherKind(kind))
          /\ NextNumber(k, OtherKind(kind)) \in Nat
      BY <1>3, <1>4, <3>3
    <3> QED
      BY <3>1, <3>2, <3>4
  <2>7. ASSUME NEW i \in e + 1 .. n + 1
        PROVE  /\ g[i].end # Failed /\ g[i].number < NextNumber(s, g[i].kind)
               /\ g[i].kind = "Request" /\ Done(g[i]) => committed[g[i].end].session = s.session
    <3>1. CASE i = n + 1
      <4>1. g[i] = op /\ op.kind = kind /\ op.number = num /\ ~Done(op) /\ op.end # Failed
        BY <1>6, <1>7, <1>10, <3>1
      <4>2. num < NextNumber(s, kind)
        BY <1>3, <1>4 DEF num
      <4> QED
        BY <4>1, <4>2
    <3>2. CASE i \in e + 1 .. n
      <4>1. /\ g[i] = o[i] /\ o[i].kind \in Kinds /\ o[i].number \in Nat
            /\ o[i].end # Failed /\ o[i].number < NextNumber(k, o[i].kind)
            /\ o[i].kind = "Request" /\ Done(o[i]) => committed[o[i].end].session = k.session
        BY <2>4, <3>2
      <4>2. ClientOK(s)
        BY <1>3
      <4>3. NextNumber(s, o[i].kind) \in Nat
        BY <4>1, <4>2 DEF ClientOK, QueueOK
      <4>4. o[i].number < NextNumber(s, o[i].kind)
        BY <1>4, <2>6, <4>1, <4>3
      <4> QED
        BY <1>3, <4>1, <4>4
    <3> QED
      BY <2>5, <3>1, <3>2
  <2>8. ASSUME NEW i \in e + 1 .. n + 1, NEW j \in e + 1 .. n + 1, i < j, g[i].kind = g[j].kind
        PROVE  g[i].number < g[j].number
    <3>1. i \in e + 1 .. n
      BY <1>5, <2>2, <2>8
    <3>2. CASE j = n + 1
      BY <1>6, <1>7, <2>4, <2>8, <3>1, <3>2 DEF num
    <3>3. CASE j \in e + 1 .. n
      BY <2>1, <2>4, <2>8, <3>1, <3>3 DEF EpochInv, n
    <3> QED
      BY <2>5, <3>2, <3>3
  <2>9. EpochInv(o, k, e)'
    <3>1. o' = g /\ k' = s /\ committed' = committed /\ Len(g) = n + 1
      BY <1>3, <1>7 DEF g, s, o, k
    <3> QED
      BY <2>3, <2>7, <2>8, <3>1 DEF EpochInv
  <2> QED
    BY <2>1, <2>9
<1> QED
  BY <1>3, <1>11, <1>12, <1>13, <1>17, <1>18 DEF IssuerInv, o, g, s, k

\* What was issued and the commands in flight are sequences.
LEMMA CommandsAre ==
  ASSUME IInv, NEW c \in Issuers
  PROVE  /\ ops[c] \in Seq(Operations) /\ Len(ops[c]) \in Nat /\ DOMAIN ops[c] = 1 .. Len(ops[c])
         /\ \A i \in 1 .. Len(ops[c]) : ops[c][i] \in Operations
         /\ Len(pending[c]) \in Nat /\ DOMAIN pending[c] = 1 .. Len(pending[c])
         /\ Answers(c) \in Nat /\ Answers(c) = Len(ops[c]) - Len(pending[c])
         /\ Answers(c) <= Len(ops[c])
<1>1. /\ ops[c] \in Seq(Operations) /\ Answers(c) \in Nat
      /\ pending[c] \in Seq([op : Nat, kind : Kinds, number : Nat, answer : Int])
  BY DEF IInv, IssuerInv, ConnectionInv, IssuedInv
<1>2. /\ Len(ops[c]) \in Nat /\ DOMAIN ops[c] = 1 .. Len(ops[c])
      /\ \A i \in 1 .. Len(ops[c]) : ops[c][i] \in Operations
      /\ Len(pending[c]) \in Nat /\ DOMAIN pending[c] = 1 .. Len(pending[c])
  BY <1>1, SeqIs
<1>3. Answers(c) <= Len(ops[c])
  <2> DEFINE x == Len(ops[c])
             y == Len(pending[c])
  <2>1. x \in Nat /\ y \in Nat /\ Answers(c) = x - y
    BY <1>2 DEF Answers
  <2> HIDE DEF x, y
  <2>2. Answers(c) <= x
    BY <2>1
  <2> QED
    BY <2>2 DEF x
<1> QED
  BY <1>1, <1>2, <1>3 DEF Answers

\* A connection whose commands stay as they are.
LEMMA SameConnection ==
  ASSUME NEW d \in Issuers, ConnectionInv(d), ops'[d] = ops[d],
         UNCHANGED <<pending[d], got[d], answers, batches>>
  PROVE  ConnectionInv(d)'
<1>1. Answers(d)' = Answers(d) /\ Batches' = Batches
  BY DEF Answers, Batches
<1>2. pending'[d] = pending[d] /\ got'[d] = got[d]
  OBVIOUS
<1> QED
  BY <1>1, <1>2 DEF ConnectionInv

\* The answers on their way.
LEMMA BatchesTyped ==
  ASSUME IInv
  PROVE  /\ Batches \in Seq(Seq(ReadyAnswers))
         /\ Len(Batches) = Len(batches) + 1 /\ Len(batches) \in Nat
         /\ DOMAIN Batches = 1 .. Len(batches) + 1
         /\ Batches[Len(batches) + 1] = answers
         /\ \A b \in 1 .. Len(batches) : Batches[b] = batches[b]
         /\ \A b \in DOMAIN Batches :
              /\ Len(Batches[b]) \in Nat /\ DOMAIN Batches[b] = 1 .. Len(Batches[b])
              /\ \A q \in DOMAIN Batches[b] :
                   Batches[b][q].client \in Issuers /\ Batches[b][q] \in ReadyAnswers
<1>1. answers \in Seq(ReadyAnswers) /\ batches \in Seq(Seq(ReadyAnswers))
  BY DEF IInv
<1>2. /\ Batches \in Seq(Seq(ReadyAnswers))
      /\ Len(Batches) = Len(batches) + 1 /\ Len(batches) \in Nat
      /\ DOMAIN Batches = 1 .. Len(batches) + 1
      /\ Batches[Len(batches) + 1] = answers
      /\ \A b \in 1 .. Len(batches) : Batches[b] = batches[b]
  BY <1>1 DEF Batches
<1>3. \A b \in DOMAIN Batches : Batches[b] \in Seq(ReadyAnswers)
  BY <1>2, SeqIs
<1>4. \A b \in DOMAIN Batches :
        /\ Len(Batches[b]) \in Nat /\ DOMAIN Batches[b] = 1 .. Len(Batches[b])
        /\ \A q \in DOMAIN Batches[b] : Batches[b][q] \in ReadyAnswers
  BY <1>3, SeqIs
<1>5. \A a \in ReadyAnswers : a.client \in Issuers
  BY DEF ReadyAnswers
<1> QED
  BY <1>2, <1>4, <1>5

\* A command is issued.
LEMMA CommandKeeps ==
  ASSUME IInv, NEW c \in Issuers, NEW kind \in Kinds, NEW t, NEW op,
         op = Issued(kind, NextNumber(clients[c], kind)),
         ops' = [ops EXCEPT ![c] = Append(@, op)],
         Issues(clients[c], t, Append(ops[c], op), kind),
         LeaveClient(c, t), Command(c, kind, NextNumber(clients[c], kind))
  PROVE  IInv'
<1> DEFINE o == ops[c]
           p == pending[c]
           n == Len(o)
           m == Len(p)
           num == NextNumber(clients[c], kind)
           e == [op |-> n + 1, kind |-> kind, number |-> num, answer |-> Open]
<1>1. /\ DOMAIN clients = Issuers /\ DOMAIN ops = Issuers
      /\ DOMAIN pending = Issuers /\ DOMAIN got = Issuers
      /\ ConnectionInv(c) /\ IssuerInv(c)
  BY DEF IInv, IssuerInv
<1>2. /\ DOMAIN ops' = Issuers /\ ops'[c] = Append(o, op)
      /\ \A d \in Issuers \ {c} : ops'[d] = ops[d]
  BY <1>1
<1>3. /\ DOMAIN pending' = Issuers /\ pending'[c] = Append(p, e)
      /\ \A d \in Issuers \ {c} : pending'[d] = pending[d]
      /\ UNCHANGED <<answers, batches, got>>
  BY <1>1 DEF Command
<1>4. /\ o \in Seq(Operations) /\ n \in Nat /\ DOMAIN o = 1 .. n /\ m \in Nat
      /\ DOMAIN p = 1 .. m /\ Answers(c) \in Nat /\ Answers(c) = n - m /\ Answers(c) <= n
      /\ p \in Seq([op : Nat, kind : Kinds, number : Nat, answer : Int])
  BY <1>1, CommandsAre DEF ConnectionInv
<1>5. /\ op.kind = kind /\ op.number = num /\ op.end = Open
  BY DEF Issued
<1>6. num \in Nat
  BY NumberIsNew
<1>7. Leaves(clients[c], t, Append(o, op))
  BY DEF Issues
<1>8. /\ DOMAIN ops'[c] = 1 .. n + 1 /\ Len(ops'[c]) = n + 1 /\ ops'[c][n + 1] = op
      /\ \A i \in 1 .. n : ops'[c][i] = o[i]
  BY <1>2, <1>4
<1>9. /\ DOMAIN pending'[c] = 1 .. m + 1 /\ Len(pending'[c]) = m + 1 /\ pending'[c][m + 1] = e
      /\ \A i \in 1 .. m : pending'[c][i] = p[i]
  BY <1>3, <1>4
<1> HIDE DEF o, p, n, m, num, e
<1>10. Answers(c)' = Answers(c)
  <2>1. Answers(c)' = (n + 1) - (m + 1)
    BY <1>8, <1>9 DEF Answers
  <2>2. n \in Nat /\ m \in Nat /\ Answers(c) = n - m
    BY <1>4
  <2> QED
    BY <2>1, <2>2
<1>11. e \in [op : Nat, kind : Kinds, number : Nat, answer : Int]
  BY <1>4, <1>6 DEF e, Open
<1>12. pending'[c] \in Seq([op : Nat, kind : Kinds, number : Nat, answer : Int])
  BY <1>3, <1>4, <1>11
<1>13. ASSUME NEW i \in DOMAIN pending'[c]
       PROVE  pending'[c][i] =
                [op |-> Answers(c) + i, kind |-> ops'[c][Answers(c) + i].kind,
                 number |-> ops'[c][Answers(c) + i].number,
                 answer |-> ops'[c][Answers(c) + i].end]
  <2>1. CASE i = m + 1
    <3>1. Answers(c) + i = n + 1
      BY <1>4, <2>1
    <3> QED
      BY <1>5, <1>8, <1>9, <2>1, <3>1 DEF e
  <2>2. CASE i \in 1 .. m
    <3>1. Answers(c) + i \in 1 .. n
      <4>1. n \in Nat /\ m \in Nat /\ Answers(c) \in Nat /\ Answers(c) = n - m
        BY <1>4
      <4> QED
        BY <2>2, <4>1
    <3>2. p[i] = [op |-> Answers(c) + i, kind |-> o[Answers(c) + i].kind,
                  number |-> o[Answers(c) + i].number, answer |-> o[Answers(c) + i].end]
      BY <1>1, <1>4, <2>2 DEF ConnectionInv, p, o
    <3> QED
      BY <1>8, <1>9, <2>2, <3>1, <3>2
  <2>3. i = m + 1 \/ i \in 1 .. m
    BY <1>4, <1>9
  <2> QED
    BY <2>1, <2>2, <2>3
<1>14. \A i \in 1 .. Answers(c) : ops'[c][i].end # Open
  <2> TAKE i \in 1 .. Answers(c)
  <2>1. i \in 1 .. n /\ o[i].end # Open
    BY <1>1, <1>4 DEF ConnectionInv, o
  <2> QED
    BY <1>8, <2>1
<1>15. ConnectionInv(c)'
  <2>1. Batches' = Batches /\ got' = got
    BY <1>3 DEF Batches
  <2>2. \A i \in DOMAIN got'[c] : got'[c][i].op = i /\ got'[c][i].answer = ops'[c][i].end
    <3> TAKE i \in DOMAIN got'[c]
    <3>1. got[c][i].op = i /\ got[c][i].answer = o[i].end
      BY <1>1, <2>1 DEF ConnectionInv, o
    <3>2. i \in 1 .. n
      <4>1. /\ got[c] \in Seq(ReadyAnswers)
            /\ Len(got[c]) <= Answers(c)
        BY <1>1 DEF ConnectionInv, Flows
      <4>2. Len(got[c]) \in Nat /\ DOMAIN got[c] = 1 .. Len(got[c])
        BY <4>1, SeqIs
      <4>3. n \in Nat /\ Answers(c) \in Nat /\ Answers(c) <= n
        BY <1>4
      <4>4. i \in 1 .. Len(got[c])
        BY <2>1, <4>2
      <4> QED
        BY <4>1, <4>2, <4>3, <4>4
    <3> QED
      BY <1>8, <2>1, <3>1, <3>2
  <2>3. Answers(c) \in Nat /\ got[c] \in Seq(ReadyAnswers)
        /\ Flows(got[c], Batches, 0, c, Answers(c))
    BY <1>1 DEF ConnectionInv
  <2>4. Answers(c)' \in Nat /\ got'[c] \in Seq(ReadyAnswers)
        /\ Flows(got[c], Batches, 0, c, Answers(c))'
    BY <1>10, <2>1, <2>3
  <2>5. \A i \in DOMAIN pending'[c] :
          pending'[c][i] =
            [op |-> Answers(c)' + i, kind |-> ops'[c][Answers(c)' + i].kind,
             number |-> ops'[c][Answers(c)' + i].number,
             answer |-> ops'[c][Answers(c)' + i].end]
    BY <1>10, <1>13
  <2>6. \A i \in 1 .. Answers(c)' : ops'[c][i].end # Open
    BY <1>10, <1>14
  <2> HIDE DEF Answers
  <2> QED
    BY <1>12, <2>2, <2>4, <2>5, <2>6 DEF ConnectionInv
<1>16. IssuerInv(c)'
  BY <1>2, <1>10, <1>15, IssuedIssuer DEF o
<1>17. \A d \in Issuers : IssuerInv(d)'
  <2> TAKE d \in Issuers
  <2>1. CASE d # c
    <3>1. IssuerInv(d) /\ ConnectionInv(d)
      BY DEF IInv, IssuerInv
    <3>2. ops'[d] = ops[d] /\ pending'[d] = pending[d] /\ got'[d] = got[d]
      BY <1>2, <1>3, <2>1
    <3>3. ConnectionInv(d)'
      BY <1>3, <3>1, <3>2, SameConnection
    <3>4. clients'[d] = clients[d] /\ UNCHANGED <<primary, replies, committed>>
      BY <1>7, <2>1, ClientLeft DEF o
    <3> QED
      BY <3>1, <3>2, <3>3, <3>4, SameIssuer
  <2> QED
    BY <1>16, <2>1
<1>18. (\A b \in DOMAIN Batches : \A q \in DOMAIN Batches[b] : AnswerOK(Batches[b][q]))'
  <2>1. Batches' = Batches
    BY <1>3 DEF Batches
  <2> SUFFICES ASSUME NEW b \in DOMAIN Batches, NEW q \in DOMAIN Batches[b]
               PROVE  AnswerOK(Batches[b][q])'
    BY <2>1
  <2> DEFINE a == Batches[b][q]
  <2>2. a.op \in DOMAIN ops[a.client] /\ a.answer = ops[a.client][a.op].end /\ a.answer # Open
    BY DEF IInv, AnswerOK
  <2>3. a.client \in Issuers
    BY BatchesTyped
  <2> HIDE DEF a
  <2>4. a.op \in DOMAIN ops'[a.client] /\ ops'[a.client][a.op] = ops[a.client][a.op]
    <3>1. CASE a.client = c
      <4>1. a.op \in 1 .. n
        BY <1>4, <2>2, <3>1 DEF o
      <4>2. a.op \in 1 .. n + 1
        BY <1>4, <4>1
      <4> QED
        BY <1>8, <3>1, <4>1, <4>2 DEF o
    <3>2. CASE a.client # c
      BY <1>2, <2>2, <2>3, <3>2
    <3> QED
      BY <3>1, <3>2
  <2>5. a' = a
    BY <2>1 DEF a
  <2> QED
    BY <2>2, <2>4, <2>5 DEF AnswerOK, a
<1>19. /\ MessagesInv' /\ LogInv' /\ RepliesInv' /\ PrimaryInv(primary)' /\ CommittedInv'
       /\ DOMAIN clients' = Issuers
  BY <1>7, ClientLeft DEF o
<1>20. DOMAIN got' = Issuers
       /\ (answers \in Seq(ReadyAnswers) /\ batches \in Seq(Seq(ReadyAnswers)))'
  BY <1>1, <1>3 DEF IInv
<1> QED
  BY <1>2, <1>3, <1>17, <1>18, <1>19, <1>20 DEF IInv

\* The two commands.
LEMMA CommandsKeep ==
  ASSUME IInv, NEW c \in Issuers, CommandSet(c) \/ CommandGet(c)
  PROVE  IInv'
<1>1. ClientOK(clients[c]) /\ clients[c].outbox = {} /\ IssuedInv(ops[c], clients[c])
  BY DEF IInv, IssuerInv
<1>2. \A kind \in Kinds : Issued(kind, NextNumber(clients[c], kind)) \in Operations
  <2>1. Known \in Nat /\ \A kind \in Kinds : NextNumber(clients[c], kind) \in Nat
    BY KnownOps, NumberIsNew
  <2> QED
    BY <2>1 DEF Issued, Operations, Known, Open
<1>3. CASE CommandSet(c)
  <2> DEFINE op == Issued("Request", NextNumber(clients[c], "Request"))
  <2>1. /\ LeaveClient(c, ClientOnRequest(clients[c]))
        /\ ops' = [ops EXCEPT ![c] = Append(@, op)]
        /\ Command(c, "Request", NextNumber(clients[c], "Request"))
    BY <1>3 DEF CommandSet, IssueRequest, NextNumber
  <2>2. "Request" \in Kinds /\ op \in Operations /\ op.kind = "Request" /\ op.end = Open
        /\ op.number = clients[c].next_request_number
    BY <1>2 DEF Kinds, Issued, NextNumber
  <2> HIDE DEF op
  <2>3. Issues(clients[c], ClientOnRequest(clients[c]), Append(ops[c], op), "Request")
    BY <1>1, <2>2, ClientOnRequestIssues
  <2> QED
    BY <2>1, <2>2, <2>3, CommandKeeps DEF op
<1>4. CASE CommandGet(c)
  <2> DEFINE op == Issued("Query", NextNumber(clients[c], "Query"))
  <2>1. /\ LeaveClient(c, ClientOnQuery(clients[c]))
        /\ ops' = [ops EXCEPT ![c] = Append(@, op)]
        /\ Command(c, "Query", NextNumber(clients[c], "Query"))
    BY <1>4 DEF CommandGet, IssueQuery, NextNumber
  <2>2. "Query" \in Kinds /\ op \in Operations /\ op.kind = "Query" /\ op.end = Open
        /\ op.number = clients[c].next_query_number
    BY <1>2 DEF Kinds, Issued, NextNumber
  <2> HIDE DEF op
  <2>3. Issues(clients[c], ClientOnQuery(clients[c]), Append(ops[c], op), "Query")
    BY <1>1, <2>2, ClientOnQueryIssues
  <2> QED
    BY <2>1, <2>2, <2>3, CommandKeeps DEF op
<1> QED
  BY <1>3, <1>4

\* A session goes on, or a new one starts.
SameOrNew(k, t) ==
  /\ t.evicted = k.evicted
  /\ t.session = k.session \/ (k.session = 0 /\ t.session > k.evicted)

\* The client of a call that ends no operation.
LEMMA SameOps ==
  ASSUME IInv, NEW c \in Issuers, NEW t, LeaveClient(c, t), Leaves(clients[c], t, ops[c]),
         ops'[c] = ops[c], SameOrNew(clients[c], t),
         \A kind : NextNumber(t, kind) = NextNumber(clients[c], kind),
         ConnectionInv(c)', Answers(c)' \in Nat, Answers(c) <= Answers(c)'
  PROVE  IssuerInv(c)'
<1> DEFINE k == clients[c]
           o == ops[c]
           s == clients'[c]
<1>1. /\ ClientOK(k)
      /\ IssuedInv(o, k) /\ DoneInv(o, c) /\ InOrderOf(o)
      /\ LoggedInv(o, k, c) /\ QueriedInv(o, k, c)
      /\ \E e \in 0 .. Answers(c) : EpochInv(o, k, e)
  BY DEF IInv, IssuerInv
<1>2. /\ s.outbox = {} /\ ClientOK(s) /\ IssuedInv(o, s)
      /\ s.session = t.session /\ s.evicted = t.evicted
      /\ \A x : NextNumber(s, x) = NextNumber(t, x) /\ Unsent(s, x) = Unsent(t, x)
      /\ UNCHANGED <<primary, replies, committed>>
  BY ClientLeft
<1>3. /\ \A x : NextNumber(s, x) = NextNumber(k, x)
      /\ Unsent(k, "Query") <= Unsent(s, "Query")
      /\ Unsent(k, "Query") \in Nat /\ Unsent(s, "Query") \in Nat
  BY <1>2 DEF Leaves, Forward
<1>4. /\ s.evicted = k.evicted /\ s.evicted \in Nat /\ k.session \in Nat /\ s.session \in Nat
      /\ s.session = k.session \/ (k.session = 0 /\ s.session > s.evicted)
  BY <1>1, <1>2 DEF SameOrNew, ClientOK
<1>5. Known' = Known
  BY <1>2 DEF Known
<1>6. o' = o /\ k' = s /\ DOMAIN o = 1 .. Len(o) /\ Len(o) \in Nat
  BY CommandsAre
<1>7. Answers(c) \in Nat /\ Answers(c) <= Len(o)
  BY CommandsAre
<1> HIDE DEF k, o, s, Known
<1>8. DoneInv(o, c)'
  BY <1>1, <1>2, <1>5, <1>6 DEF DoneInv
<1>9. LoggedInv(o, k, c)'
  <2>1. CASE s.session = k.session
    BY <1>1, <1>2, <1>6, <2>1 DEF LoggedInv
  <2>2. CASE s.session # k.session
    <3>1. ASSUME NEW n \in 1 .. primary.op_number, NEW number,
                 IsRequest(primary.log[n], c, s.session, number)
          PROVE  s.session = 0
      <4> SUFFICES ASSUME s.session # 0 PROVE FALSE
        OBVIOUS
      <4>1. SentRequest(k, s.session, number, primary.log[n].answered)
        BY <3>1 DEF IInv, LogInv, IsRequest, k
      <4> QED
        BY <1>4, <2>2, <4>1 DEF SentRequest
    <3> QED
      BY <1>2, <1>6, <3>1 DEF LoggedInv
  <2> QED
    BY <2>1, <2>2
<1>10. QueriedInv(o, k, c)'
  <2>1. ASSUME NEW i \in DOMAIN primary.queries, primary.queries[i].client = c
        PROVE  /\ primary.queries[i].number < Unsent(s, "Query")
               /\ \A j \in DOMAIN o :
                    o[j].kind = "Query" /\ o[j].end = Open
                    /\ o[j].number = primary.queries[i].number =>
                      Reflects(o, j, primary.queries[i].op_number)
    <3>1. primary.queries \in Seq(WaitingQueries)
      BY DEF IInv, PrimaryInv, Serving, Committing
    <3>2. primary.queries[i].number \in Nat
      <4>1. primary.queries[i] \in WaitingQueries
        BY <3>1, SeqIs
      <4> QED
        BY <4>1 DEF WaitingQueries
    <3>3. primary.queries[i].number < Unsent(k, "Query")
      BY <1>1, <2>1 DEF QueriedInv
    <3>4. primary.queries[i].number < Unsent(s, "Query")
      BY <1>3, <3>2, <3>3
    <3> QED
      BY <1>1, <2>1, <3>4 DEF QueriedInv
  <2>2. ASSUME NEW x \in replies, x.reply.client = c /\ x.reply.type = "Queried"
        PROVE  /\ x.reply.number \in Nat /\ x.reply.number < Unsent(s, "Query")
               /\ x.reply.result \in 0 .. Known
               /\ \A j \in DOMAIN o :
                    o[j].kind = "Query" /\ o[j].end = Open /\ o[j].number = x.reply.number =>
                      Reflects(o, j, x.reply.result)
    <3>1. x.reply.number \in Nat /\ x.reply.number < Unsent(k, "Query")
      BY <1>1, <2>2 DEF QueriedInv
    <3>2. x.reply.number < Unsent(s, "Query")
      BY <1>3, <3>1
    <3> QED
      BY <1>1, <2>2, <3>1, <3>2 DEF QueriedInv
  <2> QED
    BY <1>2, <1>5, <1>6, <2>1, <2>2 DEF QueriedInv
<1>11. (\E e \in 0 .. Answers(c) : EpochInv(o, k, e))'
  <2>1. PICK e \in 0 .. Answers(c) : EpochInv(o, k, e)
    BY <1>1
  <2>2. e \in 0 .. Answers(c)' /\ e \in Nat
    BY <1>7
  <2>3. ASSUME NEW i \in e + 1 .. Len(o), o[i].kind = "Request", Done(o[i])
        PROVE  committed[o[i].end].session = s.session
    <3>1. committed[o[i].end].session = k.session
      BY <2>1, <2>3 DEF EpochInv
    <3>2. committed[o[i].end].session # 0
      <4>1. i \in DOMAIN o
        BY <1>6, <2>2
      <4> QED
        BY <1>1, <2>3, <4>1 DEF DoneInv, ExecutedAt
    <3> QED
      BY <1>4, <3>1, <3>2
  <2>4. EpochInv(o, k, e)'
    BY <1>2, <1>3, <1>4, <1>6, <2>1, <2>3 DEF EpochInv
  <2> QED
    BY <2>2, <2>4
<1> QED
  BY <1>1, <1>2, <1>6, <1>8, <1>9, <1>10, <1>11 DEF IssuerInv, o, k, s

\* An idle period.
LEMMA IdleKeeps ==
  ASSUME IInv, NEW c \in Issuers, ClientIdles(c), UNCHANGED connections
  PROVE  IInv'
<1> DEFINE t == ClientOnIdle(clients[c])
<1>1. ClientOK(clients[c]) /\ clients[c].outbox = {} /\ IssuedInv(ops[c], clients[c])
  BY DEF IInv, IssuerInv
<1>2. LeaveClient(c, t) /\ ops' = ops
  BY DEF ClientIdles
<1>3. /\ Leaves(clients[c], t, ops[c]) /\ SameOrNew(clients[c], t)
      /\ \A kind : NextNumber(t, kind) = NextNumber(clients[c], kind)
  BY <1>1, ClientOnIdleLeaves DEF SameOrNew
<1> HIDE DEF t
<1>4. UNCHANGED <<pending, answers, batches, got>> /\ Batches' = Batches
      /\ \A d : Answers(d)' = Answers(d)
  BY <1>2 DEF connections, Answers, Batches
<1>5. \A d \in Issuers : ConnectionInv(d)'
  <2> TAKE d \in Issuers
  <2>1. ConnectionInv(d)
    BY DEF IInv, IssuerInv
  <2> QED
    BY <1>2, <1>4, <2>1, SameConnection
<1>6. IssuerInv(c)'
  <2>1. Answers(c) \in Nat
    BY CommandsAre
  <2> QED
    BY <1>2, <1>3, <1>4, <1>5, <2>1, SameOps
<1>7. /\ MessagesInv' /\ LogInv' /\ RepliesInv' /\ PrimaryInv(primary)' /\ CommittedInv'
      /\ DOMAIN clients' = Issuers /\ \A d \in Issuers \ {c} : clients'[d] = clients[d]
      /\ UNCHANGED <<primary, replies, committed>>
  BY <1>2, <1>3, ClientLeft
<1>8. \A d \in Issuers : IssuerInv(d)'
  <2> TAKE d \in Issuers
  <2>1. IssuerInv(d)
    BY DEF IInv
  <2>2. d # c => IssuerInv(d)'
    BY <1>2, <1>4, <1>5, <1>7, <2>1, SameIssuer
  <2> QED
    BY <1>6, <2>2
<1>9. (\A b \in DOMAIN Batches : \A q \in DOMAIN Batches[b] : AnswerOK(Batches[b][q]))'
  <2>1. \A b \in DOMAIN Batches : \A q \in DOMAIN Batches[b] : AnswerOK(Batches[b][q])
    BY DEF IInv
  <2> QED
    BY <1>2, <1>4, <2>1 DEF AnswerOK
<1>10. /\ (DOMAIN ops = Issuers /\ DOMAIN pending = Issuers /\ DOMAIN got = Issuers)'
       /\ (answers \in Seq(ReadyAnswers) /\ batches \in Seq(Seq(ReadyAnswers)))'
  BY <1>2, <1>4 DEF IInv
<1> QED
  BY <1>7, <1>8, <1>9, <1>10 DEF IInv

-----------------------------------------------------------------------------
(* Replies *)

\* on_reply to a reply that ends no operation: the session may start.
LEMMA ReplyEndsNothing ==
  ASSUME NEW k, ClientOK(k), k.outbox = {}, NEW o, IssuedInv(o, k), NEW x, NEW view \in Nat,
         ~Completes(k, x), ~Evicts(k, x), x.type = "Registered" => x.session \in Nat \ {0}
  PROVE  LET t == ClientOnReply(k, x, view)
         IN  /\ Leaves(k, t, o) /\ SameOrNew(k, t)
             /\ \A kind : NextNumber(t, kind) = NextNumber(k, kind)
<1> DEFINE v == [k EXCEPT !.view_number = Higher(@, view)]
           Starts == x.type = "Registered" /\ k.registering /\ x.session > k.evicted
           a == [v EXCEPT !.registering = FALSE, !.session = x.session]
           t == ClientOnReply(k, x, view)
<1>1. DOMAIN k = ClientFields /\ k.view_number \in Nat /\ k.registering \in BOOLEAN
      /\ (k.session # 0 => ~k.registering) /\ k.session \in Nat /\ k.evicted \in Nat
  BY DEF ClientOK
<1>2. Higher(k.view_number, view) \in Nat
  BY <1>1 DEF Higher
<1>3. t = IF Starts THEN SendQueued(a) ELSE v
  BY DEF ClientOnReply, Completes, Evicts
<1>4. ClientBut(k, v, {"view_number"}) /\ v.view_number \in Nat
  BY <1>1, <1>2 DEF ClientBut, ClientFields
<1>5. ClientBut(k, a, {"view_number", "registering", "session"}) /\ a.view_number \in Nat
      /\ a.registering = FALSE /\ a.session = x.session
  BY <1>1, <1>2 DEF ClientBut, ClientFields
<1> HIDE DEF t, v, a
<1>6. CASE ~Starts
  <2>1. /\ ClientBut(k, v, {"view_number", "registering", "outbox"}) /\ v.outbox = {}
        /\ v.registering = k.registering
    BY <1>4 DEF ClientBut, ClientFields
  <2>2. /\ ClientOK(v) /\ Forward(k, v) /\ IssuedInv(o, v)
        /\ \A kind : NextNumber(v, kind) = NextNumber(k, kind)
        /\ v.session = k.session /\ v.evicted = k.evicted
    BY <1>1, <1>4, <2>1, ClientSame
  <2>3. t = v
    BY <1>3, <1>6
  <2> QED
    BY <2>1, <2>2, <2>3 DEF Leaves, SameOrNew, t
<1>7. CASE Starts
  <2>1. /\ DOMAIN a = ClientFields /\ a.evicted = k.evicted /\ a.outbox = {}
        /\ a.next_request_number = k.next_request_number
        /\ a.next_query_number = k.next_query_number
        /\ a.requests = k.requests /\ a.queries = k.queries /\ a.queued = k.queued
    BY <1>5 DEF ClientBut, ClientFields
  <2>2. /\ x.session \in Nat \ {0} /\ k.session = 0 /\ x.session > k.evicted
    BY <1>1, <1>7
  <2>3. \A kind : /\ NextNumber(a, kind) = NextNumber(k, kind)
                  /\ QueuedNumbers(a, kind) = QueuedNumbers(k, kind)
                  /\ Window(a, kind) = Window(k, kind)
    BY <2>1 DEF NextNumber, QueuedNumbers, Window
  <2>4. \A kind : Unsent(a, kind) = Unsent(k, kind)
    BY <2>3 DEF Unsent
  <2>5. \A kind : QueueOK(k, kind) => QueueOK(a, kind)
    BY <2>1, <2>3, <2>4 DEF QueueOK
  <2>6. ClientOK(a)
    <3>1. /\ DOMAIN a = ClientFields /\ a.session # 0
          /\ a.view_number \in Nat /\ a.session \in Nat /\ a.evicted \in Nat
          /\ a.registering \in BOOLEAN
          /\ a.session > a.evicted /\ ~a.registering
      BY <1>1, <1>5, <2>1, <2>2
    <3>2. \A kind \in Kinds : QueueOK(a, kind)
      BY <2>5 DEF ClientOK
    <3>3. /\ a.queued \in Seq([kind : Kinds, number : Nat])
          /\ a.requests = <<>> \/ a.queries = <<>>
          /\ Len(a.requests) <= InFlightMax
      BY <2>1 DEF ClientOK
    <3> QED
      BY <3>1, <3>2, <3>3 DEF ClientOK
  <2>7. Forward(k, a)
    <3>1. QueueOK(k, "Query")
      BY DEF ClientOK, Kinds
    <3>2. Unsent(k, "Query") \in Nat
      BY <3>1 DEF QueueOK
    <3>3. ASSUME NEW session, NEW number, NEW answered, SentRequest(k, session, number, answered)
          PROVE  SentRequest(a, session, number, answered)
      BY <2>1, <2>2, <3>3 DEF SentRequest
    <3> QED
      BY <2>4, <3>2, <3>3 DEF Forward
  <2>8. IssuedInv(o, a)
    <3>1. SentUpTo(o, a) = SentUpTo(o, k)
      BY <2>1 DEF SentUpTo
    <3> QED
      BY <2>1, <2>3, <3>1 DEF IssuedInv
  <2>9. Goes(a, t, o)
    BY <1>3, <1>7, <2>1, <2>6, <2>8, SendQueuedGoes
  <2>10. /\ t.session = a.session /\ t.evicted = a.evicted
         /\ t.next_request_number = a.next_request_number
         /\ t.next_query_number = a.next_query_number
    BY <2>9 DEF Goes, SendingKeeps
  <2>11. \A kind : NextNumber(t, kind) = NextNumber(k, kind)
    BY <2>1, <2>10 DEF NextNumber
  <2>12. Leaves(k, t, o)
    BY <2>7, <2>9, ForwardThrough DEF Goes, Leaves
  <2>13. SameOrNew(k, t)
    BY <1>5, <2>1, <2>2, <2>10 DEF SameOrNew
  <2> QED
    BY <2>11, <2>12, <2>13 DEF t
<1> QED
  BY <1>6, <1>7

\* Every operation that has not ended fails.
FailsAll(o, g) ==
  /\ g \in Seq(Operations) /\ Len(g) = Len(o)
  /\ \A i \in 1 .. Len(o) : /\ g[i].kind = o[i].kind /\ g[i].number = o[i].number
                            /\ g[i].floor = o[i].floor
                            /\ g[i].end = IF o[i].end = Open THEN Failed ELSE o[i].end

\* on_reply to an eviction.
LEMMA ReplyEvicts ==
  ASSUME NEW k, ClientOK(k), k.outbox = {}, NEW o, IssuedInv(o, k), NEW x, NEW view \in Nat,
         Evicts(k, x), x.session \in Nat \ {0}, NEW g, FailsAll(o, g)
  PROVE  LET t == ClientOnReply(k, x, view)
         IN  /\ Leaves(k, t, g) /\ t.session = 0 /\ t.evicted = k.session
             /\ k.session > k.evicted /\ k.session # 0
             /\ Unsent(t, "Query") \in Nat /\ Unsent(k, "Query") <= Unsent(t, "Query")
<1> DEFINE v == [k EXCEPT !.view_number = Higher(@, view)]
           t == [v EXCEPT !.evicted = x.session, !.session = 0, !.next_request_number = 1,
                       !.requests = <<>>, !.queries = <<>>, !.queued = <<>>,
                       !.outbox = {e \in @ : e[2] = RegisterMessage}]
<1>1. DOMAIN k = ClientFields /\ k.view_number \in Nat /\ k.registering \in BOOLEAN
      /\ (k.session # 0 => k.session > k.evicted) /\ k.session \in Nat /\ k.evicted \in Nat
      /\ k.session = x.session /\ x.session # 0 /\ k.next_query_number \in Nat
  <2>1. QueueOK(k, "Query")
    BY DEF ClientOK, Kinds
  <2> QED
    BY <2>1 DEF ClientOK, Evicts, QueueOK, NextNumber
<1>2. Higher(k.view_number, view) \in Nat
  BY <1>1 DEF Higher
<1>3. t = ClientOnReply(k, x, view)
  BY DEF ClientOnReply, Completes, Evicts
<1>4. /\ DOMAIN t = ClientFields /\ t.view_number \in Nat /\ t.registering = k.registering
      /\ t.evicted = k.session /\ t.session = 0 /\ t.next_request_number = 1
      /\ t.next_query_number = k.next_query_number
      /\ t.requests = <<>> /\ t.queries = <<>> /\ t.queued = <<>>
      /\ t.outbox = {}
  BY <1>1, <1>2 DEF ClientFields
<1> HIDE DEF t, v
<1>5. QueueOK(k, "Query") /\ Unsent(k, "Query") \in 1 .. k.next_query_number
  BY DEF ClientOK, Kinds, QueueOK, NextNumber
<1>6. ASSUME NEW kind \in Kinds
      PROVE  /\ NextNumber(t, kind) \in Nat \ {0} /\ QueuedNumbers(t, kind) = {}
             /\ Unsent(t, kind) = NextNumber(t, kind) /\ Window(t, kind) = <<>>
  <2>1. NextNumber(t, kind) \in Nat \ {0} /\ Window(t, kind) = <<>>
    BY <1>1, <1>4, <1>5 DEF NextNumber, Window
  <2>2. QueuedNumbers(t, kind) = {}
    BY <1>4 DEF QueuedNumbers
  <2>3. QueuedNumbers(t, kind) = NextNumber(t, kind) .. NextNumber(t, kind) - 1
    BY <2>1, <2>2
  <2>4. Unsent(t, kind) = NextNumber(t, kind)
    BY <2>1, <2>3, UnsentIs
  <2> QED
    BY <2>1, <2>2, <2>4
<1>7. ASSUME NEW kind \in Kinds PROVE QueueOK(t, kind)
  <2> DEFINE n == NextNumber(t, kind)
  <2>1. n \in Nat \ {0} /\ QueuedNumbers(t, kind) = {} /\ Unsent(t, kind) = n
        /\ Window(t, kind) = <<>>
    BY <1>6
  <2> HIDE DEF n
  <2>2. n \in 1 .. n /\ {} = n .. n - 1
    BY <2>1
  <2>3. WindowOK(<<>>, n)
    BY <2>1 DEF WindowOK
  <2> QED
    BY <1>4, <2>1, <2>2, <2>3 DEF QueueOK, n
<1>8. ClientOK(t)
  <2>1. Len(t.requests) <= InFlightMax
    BY <1>4, ConfigAssumption
  <2> QED
    BY <1>1, <1>4, <1>7, <2>1 DEF ClientOK
<1>9. /\ g \in Seq(Operations) /\ Len(g) = Len(o) /\ Len(g) \in Nat
      /\ \A i \in 1 .. Len(g) : g[i].end # Open
  BY SeqIs DEF FailsAll, Open, Failed
<1>10. IssuedInv(g, t)
  <2>1. SentUpTo(g, t) = Len(g)
    BY <1>4, <1>9 DEF SentUpTo
  <2>2. DOMAIN t.queued = {} /\ \A kind \in Kinds : DOMAIN Window(t, kind) = {}
    BY <1>4, <1>6
  <2>3. \A i \in 1 .. SentUpTo(g, t) : g[i].end # Open
    BY <1>9, <2>1
  <2> QED
    BY <1>9, <2>1, <2>2, <2>3 DEF IssuedInv
<1>11. /\ Unsent(t, "Query") \in Nat /\ Unsent(k, "Query") \in Nat
       /\ Unsent(k, "Query") <= Unsent(t, "Query")
  <2>1. Unsent(t, "Query") = k.next_query_number
    BY <1>4, <1>6 DEF NextNumber, Kinds
  <2> QED
    BY <1>1, <1>5, <2>1
<1>12. Forward(k, t)
  <2>1. ASSUME NEW session, NEW number, NEW answered, SentRequest(k, session, number, answered)
        PROVE  SentRequest(t, session, number, answered)
    <3>1. session \in Nat /\ (session <= k.evicted \/ session = k.session)
      BY <2>1 DEF SentRequest
    <3>2. session <= t.evicted
      BY <1>1, <1>4, <3>1
    <3> QED
      BY <2>1, <3>2 DEF SentRequest
  <2> QED
    BY <1>11, <2>1 DEF Forward
<1> QED
  BY <1>1, <1>3, <1>4, <1>8, <1>10, <1>11, <1>12 DEF Leaves

\* on_reply to the result of a request or the answer to a query.
LEMMA ReplyCompletes ==
  ASSUME NEW k, ClientOK(k), k.outbox = {}, NEW o, IssuedInv(o, k), NEW x, NEW view \in Nat,
         Completes(k, x), x.number \in Nat, NEW kind,
         kind = (IF x.type = "Executed" THEN "Request" ELSE "Query"),
         NEW t0, Only(o, t0, kind, x.number), NEW v, v # Open, NEW g, EndsOne(o, g, t0, v)
  PROVE  LET t == ClientOnReply(k, x, view)
         IN  /\ Leaves(k, t, g) /\ t.session = k.session /\ t.evicted = k.evicted
             /\ \A y : NextNumber(t, y) = NextNumber(k, y)
<1> DEFINE b == [k EXCEPT !.view_number = Higher(@, view)]
           w == Answered(Window(k, kind), x.number)
           a == IF kind = "Request" THEN [b EXCEPT !.requests = Answered(@, x.number)]
                ELSE [b EXCEPT !.queries = Answered(@, x.number)]
           t == ClientOnReply(k, x, view)
<1>1. DOMAIN k = ClientFields /\ k.view_number \in Nat /\ kind \in Kinds
  BY DEF ClientOK, Kinds
<1>2. Higher(k.view_number, view) \in Nat
  BY <1>1 DEF Higher
<1>3. t = SendQueued(a) /\ Awaited(Window(k, kind), x.number)
  <2>1. CASE x.type = "Executed"
    <3>1. kind = "Request" /\ Awaited(k.requests, x.number)
      BY <2>1 DEF Completes
    <3>2. t = SendQueued([b EXCEPT !.requests = Answered(@, x.number)])
      BY <2>1 DEF ClientOnReply, Evicts
    <3> QED
      BY <3>1, <3>2 DEF Window
  <2>2. CASE x.type = "Queried"
    <3>1. kind = "Query" /\ Awaited(k.queries, x.number)
      BY <2>2 DEF Completes
    <3>2. t = SendQueued([b EXCEPT !.queries = Answered(@, x.number)])
      BY <2>2 DEF ClientOnReply, Evicts
    <3> QED
      BY <3>1, <3>2 DEF Window
  <2> QED
    BY <2>1, <2>2 DEF Completes
<1>4. Takes(k, a, kind, x.number) /\ a.outbox = {}
  <2>1. CASE kind = "Request"
    BY <1>1, <1>2, <2>1 DEF Takes, ClientBut, ClientFields, Window, OtherKind
  <2>2. CASE kind # "Request"
    BY <1>1, <1>2, <2>2 DEF Takes, ClientBut, ClientFields, Window, OtherKind
  <2> QED
    BY <2>1, <2>2
<1> HIDE DEF a, t
<1>5. /\ ClientOK(a) /\ Forward(k, a)
  BY <1>1, <1>3, <1>4, TakesOK
<1>6. IssuedInv(g, a)
  BY <1>1, <1>3, <1>4, TakesIssued
<1>7. Goes(a, t, g)
  BY <1>3, <1>4, <1>5, <1>6, SendQueuedGoes
<1>8. /\ t.session = a.session /\ t.evicted = a.evicted
      /\ t.next_request_number = a.next_request_number
      /\ t.next_query_number = a.next_query_number
  BY <1>7 DEF Goes, SendingKeeps
<1>9. /\ a.session = k.session /\ a.evicted = k.evicted
      /\ a.next_request_number = k.next_request_number
      /\ a.next_query_number = k.next_query_number
  BY <1>4 DEF Takes, ClientBut, ClientFields
<1>10. \A y : NextNumber(t, y) = NextNumber(k, y)
  BY <1>8, <1>9 DEF NextNumber
<1>11. Leaves(k, t, g)
  BY <1>5, <1>7, ForwardThrough DEF Goes, Leaves
<1> QED
  BY <1>8, <1>9, <1>10, <1>11 DEF t

\* The requests of a client that executed did so in the order of their sessions and
\* numbers.
LEMMA ExecutedOrder ==
  ASSUME IInv, NEW c \in Issuers, NEW a \in DOMAIN committed, NEW b \in DOMAIN committed,
         NEW s, NEW x, ExecutedAt(committed, a, c, s, x),
         NEW t, NEW y, ExecutedAt(committed, b, c, t, y)
  PROVE  /\ s \in Nat \ {0} /\ x \in Nat /\ t \in Nat \ {0} /\ y \in Nat /\ a \in Nat /\ b \in Nat
         /\ s < t \/ (s = t /\ x < y) => a < b
<1>1. Known \in Nat /\ DOMAIN committed = 1 .. Known /\ OrderedLog(committed, Known) /\ c \in Client
  BY KnownOps, ClientsAssumption
<1>2. /\ committed[a] \in Entries /\ committed[b] \in Entries
  BY <1>1 DEF OrderedLog
<1>3. s \in Nat \ {0} /\ x \in Nat /\ t \in Nat \ {0} /\ y \in Nat /\ a \in Nat /\ b \in Nat
  BY <1>1, <1>2 DEF ExecutedAt, IsRequest, Entries
<1>4. ASSUME s < t \/ (s = t /\ x < y), b < a PROVE FALSE
  <2>1. t <= s /\ (t = s => y < x)
    BY <1>1, <1>4, ExecutedInOrder
  <2> QED
    BY <1>3, <1>4, <2>1
<1>5. ASSUME s < t \/ (s = t /\ x < y), a = b PROVE FALSE
  <2>1. s = t /\ x = y
    BY <1>5 DEF ExecutedAt, IsRequest
  <2> QED
    BY <1>3, <1>5, <2>1
<1> QED
  BY <1>3, <1>4, <1>5

\* The operation that a reply completes.
LEMMA CompletedIs ==
  ASSUME IInv, NEW c \in Issuers, NEW x \in replies, x.reply.client = c,
         Completes(clients[c], x.reply), NEW kind,
         kind = (IF x.reply.type = "Executed" THEN "Request" ELSE "Query")
  PROVE  /\ x.reply.number \in Nat /\ x.reply.result \in Nat /\ kind \in Kinds
         /\ \E t : Only(ops[c], t, kind, x.reply.number) /\ t > Answers(c)
<1> DEFINE k == clients[c]
           o == ops[c]
           y == x.reply
<1>1. /\ ClientOK(k) /\ IssuedInv(o, k) /\ QueriedInv(o, k, c) /\ ConnectionInv(c)
      /\ \E e \in 0 .. Answers(c) : EpochInv(o, k, e)
  BY DEF IInv, IssuerInv
<1>2. y.number \in Nat /\ y.result \in Nat /\ kind \in Kinds
  <2>1. CASE y.type = "Executed"
    <3>1. y.result \in DOMAIN committed
          /\ ExecutedAt(committed, y.result, y.client, y.session, y.number)
      BY <2>1 DEF IInv, RepliesInv
    <3> QED
      BY <2>1, <3>1, ExecutedOrder DEF Kinds
  <2>2. CASE y.type = "Queried"
    <3>1. y.number \in Nat /\ y.result \in 0 .. Known /\ Known \in Nat
      BY <1>1, <2>2, KnownOps DEF QueriedInv
    <3> QED
      BY <2>2, <3>1 DEF Kinds
  <2> QED
    BY <2>1, <2>2 DEF Completes
<1>3. Awaited(Window(k, kind), y.number)
  BY DEF Completes, Window
<1>4. /\ Len(o) \in Nat /\ DOMAIN o = 1 .. Len(o) /\ \A i \in 1 .. Len(o) : o[i] \in Operations
      /\ Answers(c) \in Nat /\ Answers(c) <= Len(o)
  BY CommandsAre
<1> HIDE DEF k, o
<1>5. PICK p \in DOMAIN Window(k, kind) :
        Window(k, kind)[p].number = y.number /\ Window(k, kind)[p].waits
  <2>1. WindowOK(Window(k, kind), Unsent(k, kind)) /\ Unsent(k, kind) \in Nat
    BY <1>1, <1>2 DEF ClientOK, QueueOK
  <2>2. Awaits(Window(k, kind), y.number)
    BY <1>2, <1>3, <2>1, WindowIs
  <2> QED
    BY <2>2 DEF Awaits
<1>6. PICK t \in 1 .. SentUpTo(o, k) : o[t].kind = kind /\ o[t].number = y.number /\ o[t].end = Open
  BY <1>1, <1>2, <1>5 DEF IssuedInv
<1>7. t \in 1 .. Len(o)
  <2>1. k.queued \in Seq([kind : Kinds, number : Nat]) /\ SentUpTo(o, k) \in Nat
    BY <1>1 DEF ClientOK, IssuedInv
  <2> DEFINE a == Len(o)
             b == Len(k.queued)
  <2>2. b \in Nat /\ a \in Nat /\ SentUpTo(o, k) = a - b
    BY <1>4, <2>1, SeqIs DEF SentUpTo
  <2> HIDE DEF a, b
  <2>3. t \in 1 .. a
    BY <2>1, <2>2
  <2> QED
    BY <2>3 DEF a
<1>8. \A i \in 1 .. Answers(c) : o[i].end # Open
  BY <1>1 DEF ConnectionInv, o
<1>9. t > Answers(c)
  BY <1>4, <1>6, <1>7, <1>8
<1>10. ASSUME NEW i \in DOMAIN o, o[i].kind = kind, o[i].number = y.number, o[i].end = Open
       PROVE  i = t
  <2>1. PICK e \in 0 .. Answers(c) : EpochInv(o, k, e)
    BY <1>1
  <2>2. i \in 1 .. Len(o) /\ i > Answers(c)
    BY <1>4, <1>8, <1>10
  <2>3. i \in e + 1 .. Len(o) /\ t \in e + 1 .. Len(o)
    BY <1>4, <1>7, <1>9, <2>2
  <2>4. ~(i < t) /\ ~(t < i)
    BY <1>2, <1>6, <1>10, <2>1, <2>3 DEF EpochInv
  <2> QED
    BY <2>3, <2>4, <1>4
<1>11. Only(o, t, kind, y.number)
  BY <1>4, <1>6, <1>7, <1>10 DEF Only
<1> QED
  BY <1>2, <1>9, <1>11 DEF o

\* What the result of a request, or the answer to a query, says.
LEMMA CompletedResult ==
  ASSUME IInv, NEW c \in Issuers, NEW x \in replies, x.reply.client = c,
         Completes(clients[c], x.reply), NEW kind,
         kind = (IF x.reply.type = "Executed" THEN "Request" ELSE "Query"),
         NEW t, Only(ops[c], t, kind, x.reply.number)
  PROVE  /\ kind = "Request" =>
              /\ x.reply.result \in DOMAIN committed /\ x.reply.result > ops[c][t].floor
              /\ clients[c].session \in Nat \ {0}
              /\ committed[x.reply.result].session = clients[c].session
              /\ ExecutedAt(committed, x.reply.result, c, clients[c].session, ops[c][t].number)
              /\ \A i \in 1 .. t - 1 :
                   ops[c][i].kind = "Query" => /\ ops[c][i].end # Open
                                               /\ ops[c][i].end < x.reply.result
         /\ kind = "Query" =>
              /\ x.reply.result \in 0 .. Known
              /\ Reflects(ops[c], t, x.reply.result)
<1> DEFINE k == clients[c]
           o == ops[c]
           y == x.reply
<1>1. /\ LoggedInv(o, k, c) /\ QueriedInv(o, k, c)
  BY DEF IInv, IssuerInv
<1>2. t \in DOMAIN o /\ o[t].kind = kind /\ o[t].number = y.number /\ o[t].end = Open
  BY DEF Only
<1>3. CASE kind = "Request"
  <2>1. y.type = "Executed" /\ k.session = y.session
    BY <1>3 DEF Completes
  <2>2. y.result \in DOMAIN committed
        /\ ExecutedAt(committed, y.result, c, k.session, o[t].number)
    BY <1>2, <2>1 DEF IInv, RepliesInv
  <2>3. k.session \in Nat \ {0}
    BY <2>2, ExecutedOrder
  <2>4. /\ Known \in Nat /\ Known <= primary.op_number /\ primary.op_number \in Nat
        /\ DOMAIN committed = 1 .. Known
        /\ \A i \in 1 .. Known : committed[i] = primary.log[i]
    BY KnownOps
  <2>5. IsRequest(committed[y.result], c, k.session, o[t].number)
    BY <2>2 DEF ExecutedAt
  <2> HIDE DEF Known
  <2>6. y.result \in 1 .. primary.op_number /\ IsRequest(primary.log[y.result], c, k.session, o[t].number)
    BY <2>2, <2>4, <2>5
  <2>7. /\ y.result > o[t].floor
        /\ \A i \in 1 .. t - 1 : o[i].kind = "Query" => o[i].end # Open /\ o[i].end < y.result
    BY <1>1, <1>2, <1>3, <2>3, <2>6 DEF LoggedInv
  <2> QED
    BY <1>3, <2>2, <2>3, <2>5, <2>7 DEF IsRequest
<1>4. CASE kind = "Query"
  <2>1. y.type = "Queried"
    BY <1>4 DEF Completes
  <2>2. y.result \in 0 .. Known /\ Reflects(o, t, y.result)
    BY <1>1, <1>2, <1>4, <2>1 DEF QueriedInv
  <2> QED
    BY <1>4, <2>2
<1> QED
  BY <1>3, <1>4

\* It comes after all that is done of the operations before, and before what is
\* done of those after.
LEMMA CompletedInOrder ==
  ASSUME IInv, NEW c \in Issuers, NEW x \in replies, x.reply.client = c,
         Completes(clients[c], x.reply), NEW kind,
         kind = (IF x.reply.type = "Executed" THEN "Request" ELSE "Query"),
         NEW t, Only(ops[c], t, kind, x.reply.number), t > Answers(c),
         NEW g, EndsOne(ops[c], g, t, x.reply.result)
  PROVE  InOrderOf(g)
<1> DEFINE k == clients[c]
           o == ops[c]
           y == x.reply
           v == y.result
<1>1. /\ ClientOK(k) /\ IssuedInv(o, k) /\ DoneInv(o, c) /\ InOrderOf(o)
      /\ \E e \in 0 .. Answers(c) : EpochInv(o, k, e)
  BY DEF IInv, IssuerInv
<1>2. PICK e \in 0 .. Answers(c) : EpochInv(o, k, e)
  BY <1>1
<1>3. /\ Len(o) \in Nat /\ DOMAIN o = 1 .. Len(o) /\ \A i \in 1 .. Len(o) : o[i] \in Operations
      /\ Answers(c) \in Nat /\ Answers(c) <= Len(o)
  BY CommandsAre
<1>4. t \in 1 .. Len(o) /\ o[t].kind = kind /\ o[t].number = y.number /\ o[t].end = Open
  BY <1>3 DEF Only
<1>5. /\ Len(g) = Len(o) /\ DOMAIN g = 1 .. Len(o)
      /\ \A i \in 1 .. Len(o) : g[i].kind = o[i].kind /\ (i # t => g[i].end = o[i].end)
      /\ g[t].end = v
  <2>1. DOMAIN g = 1 .. Len(g)
    BY SeqIs DEF EndsOne
  <2> QED
    BY <1>4, <2>1 DEF EndsOne
<1>6. e \in Nat /\ t \in e + 1 .. Len(o)
  BY <1>3, <1>4
<1>7. ASSUME kind = "Request", NEW i \in 1 .. Len(o), o[i].kind = "Request", Done(o[i])
      PROVE  /\ i < t => o[i].end < v
             /\ i > t => v < o[i].end
  <2>1. /\ v \in DOMAIN committed /\ ExecutedAt(committed, v, c, k.session, o[t].number)
    BY <1>7, CompletedResult
  <2> DEFINE s == committed[o[i].end].session
  <2>2. /\ o[i].end \in DOMAIN committed /\ ExecutedAt(committed, o[i].end, c, s, o[i].number)
    BY <1>1, <1>3, <1>7 DEF DoneInv
  <2> HIDE DEF s
  <2>3. /\ s \in Nat \ {0} /\ k.session \in Nat \ {0} /\ o[i].number \in Nat /\ o[t].number \in Nat
        /\ s < k.session \/ (s = k.session /\ o[i].number < o[t].number) => o[i].end < v
        /\ s = k.session /\ o[t].number < o[i].number => v < o[i].end
    BY <2>1, <2>2, ExecutedOrder
  <2>4. k.evicted \in Nat /\ k.evicted < k.session
    BY <1>1, <2>3 DEF ClientOK
  <2>5. i \in 1 .. e \/ i \in e + 1 .. Len(o)
    BY <1>6
  <2>6. CASE i \in 1 .. e
    <3>1. s <= k.evicted /\ i < t
      BY <1>2, <1>6, <1>7, <2>6 DEF EpochInv, s
    <3>2. s < k.session
      BY <2>3, <2>4, <3>1
    <3>3. i \in Nat /\ t \in Nat
      BY <1>3, <1>4
    <3> QED
      BY <2>3, <3>1, <3>2, <3>3
  <2>7. CASE i \in e + 1 .. Len(o)
    <3>1. s = k.session
      BY <1>2, <1>7, <2>7 DEF EpochInv, s
    <3>2. (i < t => o[i].number < o[t].number) /\ (t < i => o[t].number < o[i].number)
      BY <1>2, <1>4, <1>6, <1>7, <2>7 DEF EpochInv
    <3>3. i \in Nat /\ t \in Nat
      BY <1>3, <1>4
    <3> QED
      BY <2>3, <3>1, <3>2, <3>3
  <2> QED
    BY <2>5, <2>6, <2>7
<1>8. ASSUME NEW j \in 1 .. Len(o), t < j, o[j].kind # kind, Done(o[j])
      PROVE  FALSE
  <2>1. k.queued \in Seq([kind : Kinds, number : Nat]) /\ SentUpTo(o, k) \in Nat
    BY <1>1 DEF ClientOK, IssuedInv
  <2>2. j \in 1 .. SentUpTo(o, k)
    <3> SUFFICES ASSUME j \notin 1 .. SentUpTo(o, k) PROVE FALSE
      OBVIOUS
    <3> DEFINE i == j - SentUpTo(o, k)
               a == Len(o)
               b == Len(k.queued)
    <3>1. b \in Nat /\ a \in Nat /\ SentUpTo(o, k) = a - b /\ j \in 1 .. a
      BY <1>3, <2>1, SeqIs DEF SentUpTo
    <3>2. DOMAIN k.queued = 1 .. b
      BY <2>1, SeqIs
    <3> HIDE DEF a, b
    <3>3. i \in 1 .. b /\ SentUpTo(o, k) + i = j
      BY <2>1, <3>1
    <3> HIDE DEF i
    <3>4. o[j].end = Open
      BY <1>1, <3>2, <3>3 DEF IssuedInv
    <3> QED
      BY <1>8, <3>4 DEF Done
  <2>3. o[t].end # Open
    BY <1>1, <1>4, <1>8, <2>2 DEF IssuedInv
  <2> QED
    BY <1>4, <2>3
<1>9. \A i \in 1 .. Len(o) : i # t /\ Done(g[i]) => Done(o[i])
  BY <1>5 DEF Done
<1> SUFFICES ASSUME NEW i \in 1 .. Len(o), NEW j \in 1 .. Len(o), i < j, Done(g[i]), Done(g[j])
             PROVE  /\ g[j].kind = "Request" => g[i].end < g[j].end
                    /\ g[i].kind = "Request" /\ g[j].kind = "Query" => g[i].end <= g[j].end
  BY <1>5 DEF InOrderOf
<1>10. CASE i # t /\ j # t
  BY <1>1, <1>3, <1>5, <1>9, <1>10 DEF InOrderOf
<1>11. CASE i # t /\ j = t
  <2>1. g[i].end = o[i].end /\ g[i].kind = o[i].kind /\ g[j].end = v /\ g[j].kind = kind
        /\ Done(o[i]) /\ i \in 1 .. t - 1 /\ o[i].kind \in Kinds
    <3>1. o[i] \in Operations
      BY <1>3
    <3> QED
      BY <1>3, <1>4, <1>5, <1>9, <1>11, <3>1 DEF Operations
  <2>2. CASE kind = "Request"
    <3>1. o[i].kind = "Request" => o[i].end < v
      BY <1>7, <1>11, <2>1, <2>2
    <3>2. o[i].kind = "Query" => o[i].end < v
      BY <2>1, <2>2, CompletedResult
    <3> QED
      BY <2>1, <2>2, <3>1, <3>2 DEF Kinds
  <2>3. CASE kind = "Query"
    <3>1. Reflects(o, t, v)
      BY <2>3, CompletedResult
    <3>2. o[i].kind = "Request" => o[i].end <= v
      BY <2>1, <3>1 DEF Reflects
    <3> QED
      BY <2>1, <2>3, <3>2
  <2> QED
    BY <2>2, <2>3
<1>12. CASE i = t
  <2>1. g[j].end = o[j].end /\ g[j].kind = o[j].kind /\ g[i].end = v /\ g[i].kind = kind
        /\ Done(o[j]) /\ t < j
    BY <1>4, <1>5, <1>9, <1>12
  <2>2. o[j].kind = kind
    BY <1>8, <2>1
  <2>3. kind = "Request" => v < o[j].end
    BY <1>7, <2>1, <2>2
  <2> QED
    BY <2>1, <2>2, <2>3
<1> QED
  BY <1>10, <1>11, <1>12

\* The client of an operation that completes.
LEMMA CompletedIssuer ==
  ASSUME IInv, NEW c \in Issuers, NEW x \in replies, x.reply.client = c,
         Completes(clients[c], x.reply), NEW kind,
         kind = (IF x.reply.type = "Executed" THEN "Request" ELSE "Query"),
         NEW t, Only(ops[c], t, kind, x.reply.number), t > Answers(c),
         EndsOne(ops[c], ops'[c], t, x.reply.result),
         LeaveClient(c, ClientOnReply(clients[c], x.reply, x.view_number)),
         ConnectionInv(c)', Answers(c)' \in Nat, Answers(c) <= Answers(c)'
  PROVE  IssuerInv(c)' /\ Leaves(clients[c], ClientOnReply(clients[c], x.reply, x.view_number), ops'[c])
<1> DEFINE k == clients[c]
           o == ops[c]
           s == clients'[c]
           g == ops'[c]
           y == x.reply
           v == y.result
           l == ClientOnReply(k, y, x.view_number)
<1>1. /\ ClientOK(k) /\ k.outbox = {}
      /\ IssuedInv(o, k) /\ DoneInv(o, c) /\ InOrderOf(o)
      /\ LoggedInv(o, k, c) /\ QueriedInv(o, k, c)
      /\ \E e \in 0 .. Answers(c) : EpochInv(o, k, e)
  BY DEF IInv, IssuerInv
<1>2. y.number \in Nat /\ v \in Nat /\ kind \in Kinds /\ x.view_number \in Nat
  BY CompletedIs DEF IInv, RepliesInv
<1>3. v # Open /\ v # Failed
  BY <1>2 DEF Open, Failed
<1>4. /\ Leaves(k, l, g) /\ l.session = k.session /\ l.evicted = k.evicted
      /\ \A z : NextNumber(l, z) = NextNumber(k, z)
  <2>1. /\ Completes(k, y) /\ kind = (IF y.type = "Executed" THEN "Request" ELSE "Query")
        /\ Only(o, t, kind, y.number) /\ EndsOne(o, g, t, v)
    OBVIOUS
  <2> HIDE DEF k, o, g, y, v
  <2>2. LET a == ClientOnReply(k, y, x.view_number)
        IN  /\ Leaves(k, a, g) /\ a.session = k.session /\ a.evicted = k.evicted
            /\ \A z : NextNumber(a, z) = NextNumber(k, z)
    BY <1>1, <1>2, <1>3, <2>1, ReplyCompletes
  <2> QED
    BY <2>2
<1> HIDE DEF l
<1>5. LeaveClient(c, l)
  BY DEF l
<1>6. /\ s.outbox = {} /\ ClientOK(s) /\ IssuedInv(g, s)
      /\ s.session = l.session /\ s.evicted = l.evicted
      /\ \A z : NextNumber(s, z) = NextNumber(l, z) /\ Unsent(s, z) = Unsent(l, z)
      /\ UNCHANGED <<primary, replies, committed>>
  BY <1>4, <1>5, ClientLeft
<1>7. /\ \A z : NextNumber(s, z) = NextNumber(k, z)
      /\ Unsent(k, "Query") <= Unsent(s, "Query")
      /\ Unsent(k, "Query") \in Nat /\ Unsent(s, "Query") \in Nat
      /\ s.session = k.session /\ s.evicted = k.evicted
  BY <1>4, <1>6 DEF Leaves, Forward
<1>8. Known' = Known /\ o' = g /\ k' = s
  BY <1>6 DEF Known
<1>9. /\ Len(o) \in Nat /\ DOMAIN o = 1 .. Len(o) /\ \A i \in 1 .. Len(o) : o[i] \in Operations
      /\ Answers(c) \in Nat /\ Answers(c) <= Len(o)
  BY CommandsAre
<1>10. t \in 1 .. Len(o) /\ o[t].kind = kind /\ o[t].number = y.number /\ o[t].end = Open
  BY <1>9 DEF Only
<1>11. /\ Len(g) = Len(o) /\ DOMAIN g = 1 .. Len(o)
       /\ \A i \in 1 .. Len(o) : /\ g[i].kind = o[i].kind /\ g[i].number = o[i].number
                                 /\ g[i].floor = o[i].floor
                                 /\ i # t => g[i].end = o[i].end
       /\ g[t].end = v
  <2>1. DOMAIN g = 1 .. Len(g)
    BY SeqIs DEF EndsOne
  <2> QED
    BY <1>10, <2>1 DEF EndsOne
<1>12. InOrderOf(g)
  BY CompletedInOrder
<1>13. /\ kind = "Request" =>
              /\ v \in DOMAIN committed /\ v > o[t].floor
              /\ committed[v].session = k.session
              /\ ExecutedAt(committed, v, c, k.session, o[t].number)
       /\ kind = "Query" => v \in 0 .. Known /\ Reflects(o, t, v)
  BY CompletedResult
<1>14. Known \in Nat /\ o[t].floor \in Nat
  BY <1>9, <1>10, KnownOps DEF Operations
<1> HIDE DEF k, o, s, g, y, v, Known
<1>15. ASSUME NEW i \in 1 .. Len(o)
       PROVE  /\ g[i].end = Open => o[i].end = Open /\ i # t
              /\ i # t /\ Done(g[i]) => Done(o[i])
  BY <1>3, <1>11 DEF Done
<1>16. DoneInv(o, c)'
  <2> SUFFICES ASSUME NEW i \in 1 .. Len(o)
               PROVE  /\ g[i].floor <= Known
                      /\ Done(g[i]) /\ g[i].kind = "Request" =>
                           /\ g[i].end \in DOMAIN committed /\ g[i].end > g[i].floor
                           /\ ExecutedAt(committed, g[i].end, c, committed[g[i].end].session, g[i].number)
                      /\ Done(g[i]) /\ g[i].kind = "Query" => g[i].end \in g[i].floor .. Known
    BY <1>6, <1>8, <1>11 DEF DoneInv
  <2>1. CASE i # t
    BY <1>1, <1>9, <1>11, <1>15, <2>1 DEF DoneInv
  <2>2. CASE i = t
    <3>1. g[i].floor <= Known /\ g[i].floor = o[t].floor /\ g[i].kind = kind /\ g[i].end = v
          /\ g[i].number = o[t].number
      BY <1>1, <1>9, <1>10, <1>11, <2>2 DEF DoneInv
    <3>2. kind = "Query" => v \in o[t].floor .. Known
      BY <1>13, <1>14 DEF Reflects
    <3> QED
      BY <1>13, <3>1, <3>2
  <2> QED
    BY <2>1, <2>2
<1>17. LoggedInv(o, k, c)'
  <2> SUFFICES ASSUME NEW j \in 1 .. Len(o), g[j].kind = "Request", g[j].end = Open,
                      NEW n \in 1 .. primary.op_number, k.session # 0,
                      IsRequest(primary.log[n], c, k.session, g[j].number)
               PROVE  /\ n > g[j].floor
                      /\ \A i \in 1 .. j - 1 : g[i].kind = "Query" => g[i].end # Open /\ g[i].end < n
    BY <1>6, <1>7, <1>8, <1>11 DEF LoggedInv
  <2>1. o[j].end = Open /\ o[j].kind = "Request" /\ o[j].number = g[j].number /\ o[j].floor = g[j].floor
    BY <1>11, <1>15
  <2>2. /\ n > o[j].floor
        /\ \A i \in 1 .. j - 1 : o[i].kind = "Query" => o[i].end # Open /\ o[i].end < n
    BY <1>1, <1>9, <2>1 DEF LoggedInv
  <2>3. \A i \in 1 .. j - 1 : /\ i \in 1 .. Len(o) /\ g[i].kind = o[i].kind
                              /\ i # t => g[i].end = o[i].end
    BY <1>9, <1>11
  <2> QED
    BY <1>10, <2>1, <2>2, <2>3
<1>18. ASSUME NEW j \in 1 .. Len(o), NEW op_number, Reflects(o, j, op_number)
       PROVE  Reflects(g, j, op_number)
  <2>1. \A i \in 1 .. j - 1 : /\ i \in 1 .. Len(o) /\ g[i].kind = o[i].kind
                              /\ i # t => g[i].end = o[i].end
    BY <1>9, <1>11
  <2>2. g[j].floor = o[j].floor
    BY <1>11
  <2> QED
    BY <1>10, <1>18, <2>1, <2>2 DEF Reflects
<1>19. ASSUME NEW number \in Nat, number < Unsent(k, "Query"), NEW op_number,
              \A j \in DOMAIN o :
                o[j].kind = "Query" /\ o[j].end = Open /\ o[j].number = number =>
                  Reflects(o, j, op_number)
       PROVE  /\ number < Unsent(s, "Query")
              /\ \A j \in DOMAIN g :
                   g[j].kind = "Query" /\ g[j].end = Open /\ g[j].number = number =>
                     Reflects(g, j, op_number)
  <2>1. number < Unsent(s, "Query")
    BY <1>7, <1>19
  <2> QED
    BY <1>9, <1>11, <1>15, <1>18, <1>19, <2>1
<1>20. QueriedInv(o, k, c)'
  <2>1. ASSUME NEW i \in DOMAIN primary.queries, primary.queries[i].client = c
        PROVE  /\ primary.queries[i].number < Unsent(s, "Query")
               /\ \A j \in DOMAIN g :
                    g[j].kind = "Query" /\ g[j].end = Open
                    /\ g[j].number = primary.queries[i].number =>
                      Reflects(g, j, primary.queries[i].op_number)
    <3>1. primary.queries \in Seq(WaitingQueries)
      BY DEF IInv, PrimaryInv, Serving, Committing
    <3>2. primary.queries[i].number \in Nat
      <4>1. primary.queries[i] \in WaitingQueries
        BY <3>1, SeqIs
      <4> QED
        BY <4>1 DEF WaitingQueries
    <3> QED
      BY <1>1, <1>19, <2>1, <3>2 DEF QueriedInv
  <2>2. ASSUME NEW z \in replies, z.reply.client = c /\ z.reply.type = "Queried"
        PROVE  /\ z.reply.number \in Nat /\ z.reply.number < Unsent(s, "Query")
               /\ z.reply.result \in 0 .. Known
               /\ \A j \in DOMAIN g :
                    g[j].kind = "Query" /\ g[j].end = Open /\ g[j].number = z.reply.number =>
                      Reflects(g, j, z.reply.result)
    BY <1>1, <1>19, <2>2 DEF QueriedInv
  <2> QED
    BY <1>6, <1>8, <2>1, <2>2 DEF QueriedInv
<1>21. (\E e \in 0 .. Answers(c) : EpochInv(o, k, e))'
  <2>1. PICK e \in 0 .. Answers(c) : EpochInv(o, k, e)
    BY <1>1
  <2>2. e \in 0 .. Answers(c)' /\ e \in Nat /\ \A i \in 1 .. e : i \in 1 .. Len(o) /\ i # t
    BY <1>9, <1>10
  <2>3. \A i \in e + 1 .. Len(o) : i \in 1 .. Len(o)
    BY <1>9, <2>2
  <2>4. ASSUME NEW i \in e + 1 .. Len(o)
        PROVE  /\ g[i].end # Failed /\ g[i].number < NextNumber(s, g[i].kind)
               /\ g[i].kind = "Request" /\ Done(g[i]) => committed[g[i].end].session = s.session
    <3>1. CASE i # t
      BY <1>7, <1>11, <1>15, <2>1, <2>3, <2>4, <3>1 DEF EpochInv
    <3>2. CASE i = t
      <4>1. o[i].number < NextNumber(k, o[i].kind)
        BY <2>1 DEF EpochInv
      <4> QED
        BY <1>3, <1>7, <1>10, <1>11, <1>13, <2>3, <3>2, <4>1
    <3> QED
      BY <3>1, <3>2
  <2>5. EpochInv(o, k, e)'
    BY SMTT(30), <1>6, <1>7, <1>8, <1>11, <1>15, <2>1, <2>2, <2>3, <2>4 DEF EpochInv
  <2> QED
    BY <2>2, <2>5
<1> QED
  BY <1>4, <1>6, <1>8, <1>12, <1>16, <1>17, <1>20, <1>21 DEF IssuerInv, o, k, s, g, l, y

\* The client whose session ends.
LEMMA EvictedIssuer ==
  ASSUME IInv, NEW c \in Issuers, NEW x \in replies, x.reply.client = c,
         Evicts(clients[c], x.reply), FailsAll(ops[c], ops'[c]),
         LeaveClient(c, ClientOnReply(clients[c], x.reply, x.view_number)),
         ConnectionInv(c)', Answers(c)' = Len(ops[c])
  PROVE  IssuerInv(c)' /\ Leaves(clients[c], ClientOnReply(clients[c], x.reply, x.view_number), ops'[c])
<1> DEFINE k == clients[c]
           o == ops[c]
           s == clients'[c]
           g == ops'[c]
           l == ClientOnReply(k, x.reply, x.view_number)
<1>1. /\ ClientOK(k) /\ k.outbox = {}
      /\ IssuedInv(o, k) /\ DoneInv(o, c) /\ InOrderOf(o)
      /\ LoggedInv(o, k, c) /\ QueriedInv(o, k, c)
      /\ \E e \in 0 .. Answers(c) : EpochInv(o, k, e)
  BY DEF IInv, IssuerInv
<1>2. x.reply.session \in Nat \ {0} /\ x.view_number \in Nat
  BY DEF IInv, RepliesInv, Evicts
<1>3. /\ Leaves(k, l, g) /\ l.session = 0 /\ l.evicted = k.session
      /\ k.session > k.evicted /\ k.session # 0
      /\ Unsent(l, "Query") \in Nat /\ Unsent(k, "Query") <= Unsent(l, "Query")
  BY <1>1, <1>2, ReplyEvicts
<1> HIDE DEF l
<1>4. LeaveClient(c, l)
  BY DEF l
<1>5. /\ s.outbox = {} /\ ClientOK(s) /\ IssuedInv(g, s)
      /\ s.session = l.session /\ s.evicted = l.evicted
      /\ \A z : NextNumber(s, z) = NextNumber(l, z) /\ Unsent(s, z) = Unsent(l, z)
      /\ UNCHANGED <<primary, replies, committed>>
  BY <1>3, <1>4, ClientLeft
<1>6. /\ Unsent(k, "Query") <= Unsent(s, "Query")
      /\ Unsent(k, "Query") \in Nat /\ Unsent(s, "Query") \in Nat
      /\ s.session = 0 /\ s.evicted = k.session /\ k.session \in Nat /\ k.evicted \in Nat
      /\ k.evicted < k.session
  <2>1. Unsent(k, "Query") \in Nat
    BY <1>3 DEF Leaves, Forward
  <2> QED
    BY <1>1, <1>3, <1>5, <2>1 DEF ClientOK
<1>7. Known' = Known /\ o' = g /\ k' = s
  BY <1>5 DEF Known
<1>8. /\ Len(o) \in Nat /\ DOMAIN o = 1 .. Len(o)
      /\ Answers(c) \in Nat /\ Answers(c) <= Len(o)
  BY CommandsAre
<1>9. /\ Len(g) = Len(o) /\ DOMAIN g = 1 .. Len(o)
      /\ \A i \in 1 .. Len(o) : /\ g[i].kind = o[i].kind /\ g[i].number = o[i].number
                                /\ g[i].floor = o[i].floor /\ g[i].end # Open
                                /\ Done(g[i]) => Done(o[i]) /\ g[i].end = o[i].end
  <2>1. DOMAIN g = 1 .. Len(g)
    BY SeqIs DEF FailsAll
  <2> QED
    BY <2>1 DEF FailsAll, Done, Open, Failed
<1> HIDE DEF k, o, s, g, Known
<1>10. InOrderOf(g)
  BY <1>1, <1>8, <1>9 DEF InOrderOf
<1>11. DoneInv(o, c)'
  BY <1>1, <1>5, <1>7, <1>8, <1>9 DEF DoneInv
<1>12. LoggedInv(o, k, c)'
  BY <1>7, <1>9 DEF LoggedInv
<1>13. QueriedInv(o, k, c)'
  <2>1. ASSUME NEW i \in DOMAIN primary.queries, primary.queries[i].client = c
        PROVE  primary.queries[i].number < Unsent(s, "Query")
    <3>1. primary.queries \in Seq(WaitingQueries)
      BY DEF IInv, PrimaryInv, Serving, Committing
    <3>2. primary.queries[i].number \in Nat
      <4>1. primary.queries[i] \in WaitingQueries
        BY <3>1, SeqIs
      <4> QED
        BY <4>1 DEF WaitingQueries
    <3>3. primary.queries[i].number < Unsent(k, "Query")
      BY <1>1, <2>1 DEF QueriedInv
    <3> QED
      BY <1>6, <3>2, <3>3
  <2>2. ASSUME NEW z \in replies, z.reply.client = c /\ z.reply.type = "Queried"
        PROVE  /\ z.reply.number \in Nat /\ z.reply.number < Unsent(s, "Query")
               /\ z.reply.result \in 0 .. Known
    <3>1. z.reply.number \in Nat /\ z.reply.number < Unsent(k, "Query") /\ z.reply.result \in 0 .. Known
      BY <1>1, <2>2 DEF QueriedInv
    <3>2. z.reply.number < Unsent(s, "Query")
      BY <1>6, <3>1
    <3> QED
      BY <3>1, <3>2
  <2>3. primary' = primary /\ replies' = replies
    BY <1>5
  <2> QED
    BY <1>7, <1>9, <2>1, <2>2, <2>3 DEF QueriedInv
<1>14. (\E e \in 0 .. Answers(c) : EpochInv(o, k, e))'
  <2>1. PICK e \in 0 .. Answers(c) : EpochInv(o, k, e)
    BY <1>1
  <2>2. ASSUME NEW i \in 1 .. Len(o), g[i].kind = "Request", Done(g[i])
        PROVE  committed[g[i].end].session <= s.evicted
    <3>1. Done(o[i]) /\ g[i].end = o[i].end /\ o[i].kind = "Request"
      BY <1>9, <2>2
    <3> DEFINE r == committed[o[i].end].session
    <3>2. o[i].end \in DOMAIN committed /\ ExecutedAt(committed, o[i].end, c, r, o[i].number)
      BY <1>1, <1>8, <3>1 DEF DoneInv
    <3>3. r \in Nat
      BY <3>2, ExecutedOrder
    <3>4. r <= k.evicted \/ r = k.session
      <4>1. i \in 1 .. e \/ i \in e + 1 .. Len(o)
        BY <1>8
      <4> QED
        BY <2>1, <3>1, <4>1 DEF EpochInv
    <3> HIDE DEF r
    <3>5. r <= s.evicted
      BY <1>6, <3>3, <3>4
    <3> QED
      BY <3>1, <3>5 DEF r
  <2>3. EpochInv(o, k, Len(o))'
    <3>1. \A i \in Len(o) + 1 .. Len(o) : FALSE
      BY <1>8
    <3>2. Len(o)' = Len(o)
      BY <1>7, <1>9
    <3> QED
      BY <1>5, <1>7, <1>9, <2>2, <3>1, <3>2 DEF EpochInv
  <2>4. Len(o)' \in 0 .. Answers(c)'
    BY <1>7, <1>8, <1>9 DEF o
  <2> QED
    BY <2>3, <2>4
<1> QED
  BY <1>3, <1>5, <1>7, <1>10, <1>11, <1>12, <1>13, <1>14 DEF IssuerInv, o, k, s, g, l

-----------------------------------------------------------------------------
(* Answers on their way *)

\* The q-th answer of batch b is on its way to connection c.
Way(all, done, c, b, q) ==
  /\ b \in DOMAIN all /\ q \in DOMAIN all[b] /\ (b = 1 => q > done)
  /\ all[b][q].client = c

\* Flows, one answer at a time.
FlowsOneByOne(g, all, done, c, last) ==
  /\ \A b, q : Way(all, done, c, b, q) => all[b][q].op \in Len(g) + 1 .. last
  /\ \A n \in Len(g) + 1 .. last : \E b, q : Way(all, done, c, b, q) /\ all[b][q].op = n
  /\ \A a, p, b, q :
       /\ Way(all, done, c, a, p) /\ Way(all, done, c, b, q) /\ (a < b \/ (a = b /\ p < q))
       => all[a][p].op < all[b][q].op
  /\ Len(g) <= last

LEMMA FlowsIs ==
  ASSUME NEW g, NEW all, NEW done, NEW c, NEW last
  PROVE  Flows(g, all, done, c, last) <=> FlowsOneByOne(g, all, done, c, last)
<1> DEFINE W == {x \in Places(all, done) : all[x[1]][x[2]].client = c}
<1>1. \A b, q : Way(all, done, c, b, q) <=> <<b, q>> \in W
  <2>1. \A b, q : <<b, q>> \in W <=> <<b, q>> \in Places(all, done) /\ all[b][q].client = c
    OBVIOUS
  <2>2. \A b, q : <<b, q>> \in Places(all, done) <=>
                    b \in DOMAIN all /\ q \in DOMAIN all[b] /\ (b = 1 => q > done)
    BY DEF Places
  <2> HIDE DEF W
  <2> QED
    BY <2>1, <2>2 DEF Way
<1>2. \A x \in W : \E b, q : x = <<b, q>>
  BY DEF Places
<1>3. Flows(g, all, done, c, last) <=>
        /\ \A x, y \in W : Before(x, y) => all[x[1]][x[2]].op < all[y[1]][y[2]].op
        /\ {all[x[1]][x[2]].op : x \in W} = Len(g) + 1 .. last
        /\ Len(g) <= last
  BY DEF Flows
<1> HIDE DEF W
<1>4. (\A x, y \in W : Before(x, y) => all[x[1]][x[2]].op < all[y[1]][y[2]].op) <=>
      (\A a, p, b, q :
         /\ Way(all, done, c, a, p) /\ Way(all, done, c, b, q) /\ (a < b \/ (a = b /\ p < q))
         => all[a][p].op < all[b][q].op)
  <2>1. ASSUME \A x, y \in W : Before(x, y) => all[x[1]][x[2]].op < all[y[1]][y[2]].op,
               NEW a, NEW p, NEW b, NEW q, Way(all, done, c, a, p), Way(all, done, c, b, q),
               a < b \/ (a = b /\ p < q)
        PROVE  all[a][p].op < all[b][q].op
    <3>1. <<a, p>> \in W /\ <<b, q>> \in W /\ Before(<<a, p>>, <<b, q>>)
      BY <1>1, <2>1 DEF Before
    <3>2. all[<<a, p>>[1]][<<a, p>>[2]].op < all[<<b, q>>[1]][<<b, q>>[2]].op
      BY <2>1, <3>1
    <3> QED
      BY <3>2
  <2>2. ASSUME \A a, p, b, q :
                 /\ Way(all, done, c, a, p) /\ Way(all, done, c, b, q)
                 /\ (a < b \/ (a = b /\ p < q))
                 => all[a][p].op < all[b][q].op,
               NEW x \in W, NEW y \in W, Before(x, y)
        PROVE  all[x[1]][x[2]].op < all[y[1]][y[2]].op
    <3>1. PICK a, p : x = <<a, p>>
      BY <1>2
    <3>2. PICK b, q : y = <<b, q>>
      BY <1>2
    <3>3. x[1] = a /\ x[2] = p /\ y[1] = b /\ y[2] = q
      BY <3>1, <3>2
    <3>4. Way(all, done, c, a, p) /\ Way(all, done, c, b, q)
      BY <1>1, <3>1, <3>2
    <3> QED
      BY <2>2, <3>3, <3>4 DEF Before
  <2> QED
    BY <2>1, <2>2
<1>5. ({all[x[1]][x[2]].op : x \in W} = Len(g) + 1 .. last) <=>
      (/\ \A b, q : Way(all, done, c, b, q) => all[b][q].op \in Len(g) + 1 .. last
       /\ \A n \in Len(g) + 1 .. last : \E b, q : Way(all, done, c, b, q) /\ all[b][q].op = n)
  <2> DEFINE I == Len(g) + 1 .. last
             O == {all[x[1]][x[2]].op : x \in W}
  <2>1. \A n : n \in O <=> \E b, q : Way(all, done, c, b, q) /\ all[b][q].op = n
    <3> TAKE n
    <3>1. ASSUME n \in O PROVE \E b, q : Way(all, done, c, b, q) /\ all[b][q].op = n
      <4>1. PICK x \in W : n = all[x[1]][x[2]].op
        BY <3>1
      <4>2. PICK b, q : x = <<b, q>>
        BY <1>2
      <4>3. x[1] = b /\ x[2] = q
        BY <4>2
      <4> QED
        BY <1>1, <4>1, <4>2, <4>3
    <3>2. ASSUME NEW b, NEW q, Way(all, done, c, b, q), all[b][q].op = n PROVE n \in O
      <4>1. <<b, q>> \in W /\ <<b, q>>[1] = b /\ <<b, q>>[2] = q
        BY <1>1, <3>2
      <4> QED
        BY <3>2, <4>1
    <3> QED
      BY <3>1, <3>2
  <2> HIDE DEF I, O
  <2>2. (O = I) <=> (/\ \A b, q : Way(all, done, c, b, q) => all[b][q].op \in I
                     /\ \A n \in I : \E b, q : Way(all, done, c, b, q) /\ all[b][q].op = n)
    BY <2>1
  <2> QED
    BY <2>2 DEF I, O
<1> QED
  BY <1>3, <1>4, <1>5 DEF FlowsOneByOne

\* What connection c got.
GotOK(g, o) ==
  /\ g \in Seq(ReadyAnswers)
  /\ \A i \in DOMAIN g : g[i].op = i /\ g[i].answer = o[i].end

GiveOne(g, a) == [g EXCEPT ![a.client] = Append(@, a)]

\* All that is said of the connections while a batch is handed out, and done of
\* its answers are.
Giving(g, all, done) ==
  /\ DOMAIN g = Issuers
  /\ \A c \in Issuers :
       GotOK(g[c], ops[c]) /\ FlowsOneByOne(g[c], all, done, c, Answers(c))

\* The next answer of a batch is the first its connection has not got.
LEMMA GiveOneMore ==
  ASSUME NEW all, NEW done \in Nat, NEW g, Giving(g, all, done),
         1 \in DOMAIN all, DOMAIN all[1] = 1 .. Len(all[1]), Len(all[1]) \in Nat,
         done < Len(all[1]), NEW a, a = all[1][done + 1], a \in ReadyAnswers, AnswerOK(a),
         DOMAIN all \subseteq Nat \ {0}, \A b \in DOMAIN all : DOMAIN all[b] \subseteq Nat,
         \A c \in Issuers : Answers(c) \in Nat
  PROVE  Giving(GiveOne(g, a), all, done + 1)
<1> DEFINE c == a.client
           h == GiveOne(g, a)
<1>1. c \in Issuers /\ a.op \in Nat
  BY DEF ReadyAnswers
<1>2. /\ DOMAIN g = Issuers /\ DOMAIN h = Issuers /\ h[c] = Append(g[c], a)
      /\ \A d \in Issuers \ {c} : h[d] = g[d]
  BY <1>1 DEF GiveOne, Giving
<1> HIDE DEF h
<1>3. ASSUME NEW d \in Issuers, d # c
      PROVE  GotOK(h[d], ops[d]) /\ FlowsOneByOne(h[d], all, done + 1, d, Answers(d))
  <2>1. GotOK(g[d], ops[d]) /\ FlowsOneByOne(g[d], all, done, d, Answers(d)) /\ h[d] = g[d]
    BY <1>2, <1>3 DEF Giving
  <2>2. \A b, q : Way(all, done + 1, d, b, q) <=> Way(all, done, d, b, q)
    <3> TAKE b, q
    <3>1. CASE b = 1 /\ q = done + 1
      BY <1>3, <3>1 DEF Way
    <3>2. CASE ~(b = 1 /\ q = done + 1)
      <4>1. ASSUME b = 1, q \in DOMAIN all[b] PROVE (q > done) <=> (q > done + 1)
        <5>1. q \in Nat /\ q # done + 1
          BY <3>2, <4>1
        <5> QED
          BY <5>1
      <4> QED
        BY <4>1 DEF Way
    <3> QED
      BY <3>1, <3>2
  <2> QED
    BY <2>1, <2>2 DEF FlowsOneByOne
<1> DEFINE n == Len(g[c])
           last == Answers(c)
<1>4. GotOK(g[c], ops[c]) /\ FlowsOneByOne(g[c], all, done, c, last) /\ g[c] \in Seq(ReadyAnswers)
      /\ last \in Nat
  BY <1>1 DEF Giving, GotOK
<1>5. n \in Nat /\ Len(h[c]) = n + 1 /\ h[c] \in Seq(ReadyAnswers) /\ DOMAIN h[c] = 1 .. n + 1
      /\ h[c][n + 1] = a /\ DOMAIN g[c] = 1 .. n /\ \A i \in 1 .. n : h[c][i] = g[c][i]
  BY <1>2, <1>4
<1> HIDE DEF n, last
<1>6. /\ \A b, q : Way(all, done, c, b, q) => all[b][q].op \in n + 1 .. last
      /\ \A m \in n + 1 .. last : \E b, q : Way(all, done, c, b, q) /\ all[b][q].op = m
      /\ \A x, p, b, q :
           /\ Way(all, done, c, x, p) /\ Way(all, done, c, b, q) /\ (x < b \/ (x = b /\ p < q))
           => all[x][p].op < all[b][q].op
  BY <1>4 DEF FlowsOneByOne, n
<1>7. Way(all, done, c, 1, done + 1)
  BY DEF Way
<1>8. ASSUME NEW b, NEW q, Way(all, done, c, b, q), ~(b = 1 /\ q = done + 1)
      PROVE  a.op < all[b][q].op
  <2>1. 1 < b \/ (b = 1 /\ done + 1 < q)
    <3>1. b \in Nat \ {0} /\ q \in Nat /\ (b = 1 => q > done)
      BY <1>8 DEF Way
    <3> QED
      BY <1>8, <3>1
  <2> QED
    BY <1>6, <1>7, <1>8, <2>1
<1>9. a.op \in n + 1 .. last
  BY <1>6, <1>7
<1>10. a.op = n + 1
  <2>1. n + 1 \in n + 1 .. last
    BY <1>4, <1>5, <1>9
  <2>2. PICK b, q : Way(all, done, c, b, q) /\ all[b][q].op = n + 1
    BY <1>6, <2>1
  <2>3. CASE b = 1 /\ q = done + 1
    BY <2>2, <2>3
  <2>4. CASE ~(b = 1 /\ q = done + 1)
    <3>1. a.op < n + 1
      BY <1>8, <2>2, <2>4
    <3> QED
      BY <1>1, <1>5, <1>9, <3>1
  <2> QED
    BY <2>3, <2>4
<1>11. \A b, q : Way(all, done + 1, c, b, q) <=> Way(all, done, c, b, q) /\ ~(b = 1 /\ q = done + 1)
  <2> TAKE b, q
  <2>1. ASSUME b = 1, q \in DOMAIN all[b] PROVE (q > done + 1) <=> (q > done /\ q # done + 1)
    <3>1. q \in Nat
      BY <2>1
    <3> QED
      BY <3>1
  <2> QED
    BY <2>1 DEF Way
<1>12. FlowsOneByOne(h[c], all, done + 1, c, last)
  <2>1. \A b, q : Way(all, done + 1, c, b, q) => all[b][q].op \in n + 1 + 1 .. last
    <3> SUFFICES ASSUME NEW b, NEW q, Way(all, done + 1, c, b, q)
                 PROVE  all[b][q].op \in n + 1 + 1 .. last
      OBVIOUS
    <3>1. all[b][q].op \in n + 1 .. last /\ n + 1 < all[b][q].op
      BY <1>6, <1>8, <1>10, <1>11
    <3> QED
      BY SMTT(30), <1>4, <1>5, <3>1
  <2>2. \A m \in n + 1 + 1 .. last : \E b, q : Way(all, done + 1, c, b, q) /\ all[b][q].op = m
    <3> TAKE m \in n + 1 + 1 .. last
    <3>1. m \in n + 1 .. last /\ m # n + 1
      BY <1>4, <1>5
    <3>2. PICK b, q : Way(all, done, c, b, q) /\ all[b][q].op = m
      BY <1>6, <3>1
    <3> QED
      BY <1>10, <1>11, <3>1, <3>2
  <2>3. n + 1 <= last
    BY <1>4, <1>5, <1>9
  <2> QED
    BY <1>5, <1>6, <1>11, <2>1, <2>2, <2>3 DEF FlowsOneByOne
<1>13. GotOK(h[c], ops[c])
  <2>1. a.answer = ops[c][a.op].end
    BY DEF AnswerOK
  <2>2. \A i \in 1 .. n + 1 : i \in 1 .. n \/ i = n + 1
    BY <1>5
  <2>3. ASSUME NEW i \in 1 .. n + 1 PROVE h[c][i].op = i /\ h[c][i].answer = ops[c][i].end
    <3>1. CASE i = n + 1
      BY <1>5, <1>10, <2>1, <3>1
    <3>2. CASE i \in 1 .. n
      <4>1. g[c][i].op = i /\ g[c][i].answer = ops[c][i].end
        BY <1>4, <1>5, <3>2 DEF GotOK
      <4>2. h[c][i] = g[c][i]
        BY <1>5, <3>2
      <4> QED
        BY <4>1, <4>2
    <3> QED
      BY <2>2, <3>1, <3>2
  <2>4. h[c] \in Seq(ReadyAnswers) /\ DOMAIN h[c] = 1 .. n + 1
    BY <1>5
  <2> QED
    BY <2>3, <2>4 DEF GotOK
<1> QED
  BY <1>2, <1>3, <1>12, <1>13 DEF Giving, h, last

\* f holds g after 0 to n of the answers of a batch are handed out.
Givings(g, batch, n, f) ==
  f = [i \in 0 .. n |-> IF i = 0 THEN g ELSE GiveOne(f[i - 1], batch[i])]

LEMMA GivingsExist ==
  ASSUME NEW g, NEW batch, NEW n \in Nat
  PROVE  \E f : Givings(g, batch, n, f)
<1> DEFINE S == {j \in Nat : ~ \E f : Givings(g, batch, j, f)}
<1> SUFFICES ASSUME S # {} PROVE FALSE
  OBVIOUS
<1>1. PICK j \in S : \A i \in S : j <= i
  <2>1. S \in SUBSET Nat
    OBVIOUS
  <2> HIDE DEF S
  <2> QED
    BY <2>1, LeastExists
<1>2. CASE j = 0
  <2> DEFINE f == [i \in 0 .. 0 |-> g]
  <2>1. Givings(g, batch, 0, f)
    BY DEF Givings
  <2> QED
    BY <1>2, <2>1
<1>3. CASE j # 0
  <2>1. j - 1 \in Nat /\ j - 1 \notin S
    BY <1>1, <1>3
  <2>2. PICK f : Givings(g, batch, j - 1, f)
    BY <2>1
  <2> DEFINE h == [i \in 0 .. j |-> IF i = j THEN GiveOne(f[j - 1], batch[j]) ELSE f[i]]
  <2>3. Givings(g, batch, j, h)
    <3>1. \A i \in 0 .. j - 1 : f[i] = IF i = 0 THEN g ELSE GiveOne(f[i - 1], batch[i])
      BY <2>2 DEF Givings
    <3>2. ASSUME NEW i \in 0 .. j
          PROVE  h[i] = IF i = 0 THEN g ELSE GiveOne(h[i - 1], batch[i])
      <4>1. CASE i = j
        <5>1. i # 0 /\ h[i] = GiveOne(f[j - 1], batch[j]) /\ j - 1 \in 0 .. j /\ j - 1 # j
          BY <1>3, <4>1
        <5>2. h[i - 1] = f[j - 1]
          BY <4>1, <5>1
        <5> HIDE DEF h
        <5> QED
          BY <4>1, <5>1, <5>2
      <4>2. CASE i # j
        <5>1. i \in 0 .. j - 1 /\ (i # 0 => i - 1 \in 0 .. j /\ i - 1 # j)
          BY <4>2
        <5>2. h[i] = f[i] /\ (i # 0 => h[i - 1] = f[i - 1])
          BY <4>2, <5>1
        <5> HIDE DEF h
        <5> QED
          BY <3>1, <5>1, <5>2
      <4> QED
        BY <4>1, <4>2
    <3> QED
      BY <3>2 DEF Givings
  <2> QED
    BY <1>1, <2>3
<1> QED
  BY <1>2, <1>3

\* The first batch is handed out.
LEMMA GivenGiving ==
  ASSUME IInv
  PROVE  /\ Giving(got, Batches, 0)
         /\ Giving(Given(Batches[1]), Batches, Len(Batches[1]))
<1> DEFINE all == Batches
           batch == all[1]
           n == Len(batch)
           f == CHOOSE f : Givings(got, batch, n, f)
<1>1. Giving(got, all, 0)
  <2>1. DOMAIN got = Issuers
    BY DEF IInv
  <2>2. ASSUME NEW c \in Issuers
        PROVE  GotOK(got[c], ops[c]) /\ FlowsOneByOne(got[c], all, 0, c, Answers(c))
    <3>1. ConnectionInv(c)
      BY DEF IInv, IssuerInv
    <3>2. Flows(got[c], all, 0, c, Answers(c))
      BY <3>1 DEF ConnectionInv
    <3> HIDE DEF all
    <3>3. FlowsOneByOne(got[c], all, 0, c, Answers(c))
      BY <3>2, FlowsIs
    <3> QED
      BY <3>1, <3>3 DEF ConnectionInv, GotOK
  <2> QED
    BY <2>1, <2>2 DEF Giving
<1>2. /\ DOMAIN all = 1 .. Len(batches) + 1 /\ Len(batches) \in Nat
      /\ \A b \in DOMAIN all :
           /\ Len(all[b]) \in Nat /\ DOMAIN all[b] = 1 .. Len(all[b])
           /\ \A q \in DOMAIN all[b] : all[b][q] \in ReadyAnswers /\ AnswerOK(all[b][q])
  BY BatchesTyped DEF IInv
<1> HIDE DEF all
<1>3. /\ 1 \in DOMAIN all /\ DOMAIN all \subseteq Nat \ {0}
      /\ \A b \in DOMAIN all : DOMAIN all[b] \subseteq Nat
      /\ n \in Nat /\ DOMAIN batch = 1 .. n
  <2>1. 1 \in DOMAIN all /\ DOMAIN all \subseteq Nat \ {0}
    BY <1>2
  <2> QED
    BY <1>2, <2>1
<1>4. \A c \in Issuers : Answers(c) \in Nat
  BY CommandsAre
<1>5. Givings(got, batch, n, f)
  <2> HIDE DEF n
  <2>1. \E x : Givings(got, batch, n, x)
    BY <1>3, GivingsExist
  <2> QED
    BY <2>1, Zenon
<1>6. Given(batch) = f[n]
  BY DEF Given, Givings, GiveOne
<1> HIDE DEF f, n
<1> DEFINE S == {i \in 0 .. n : ~Giving(f[i], all, i)}
<1>7. S = {}
  <2> SUFFICES ASSUME S # {} PROVE FALSE
    OBVIOUS
  <2>1. PICK j \in S : \A i \in S : j <= i
    <3>1. S \in SUBSET Nat
      BY <1>3
    <3> HIDE DEF S
    <3> QED
      BY <3>1, LeastExists
  <2>2. j \in 0 .. n /\ f[j] = IF j = 0 THEN got ELSE GiveOne(f[j - 1], batch[j])
    BY <1>5 DEF Givings
  <2>3. CASE j = 0
    BY <1>1, <2>2, <2>3
  <2>4. CASE j # 0
    <3> DEFINE d == j - 1
    <3>1. d \in 0 .. n /\ ~(j <= d) /\ d \in Nat /\ d < n /\ d + 1 = j /\ j \in 1 .. n
      BY <1>3, <2>2, <2>4
    <3>2. f[j] = GiveOne(f[d], batch[d + 1])
      BY <2>2, <2>4, <3>1
    <3> HIDE DEF d
    <3>3. Giving(f[d], all, d)
      BY <2>1, <3>1
    <3>4. batch[d + 1] \in ReadyAnswers /\ AnswerOK(batch[d + 1])
      BY <1>2, <1>3, <3>1
    <3>5. Giving(GiveOne(f[d], batch[d + 1]), all, d + 1)
      BY <1>3, <1>4, <3>1, <3>3, <3>4, GiveOneMore DEF n
    <3> QED
      BY <2>1, <3>1, <3>2, <3>5
  <2> QED
    BY <2>3, <2>4
<1>8. n \in 0 .. n
  BY <1>3
<1> QED
  BY <1>1, <1>6, <1>7, <1>8 DEF n, all

\* The same answers in batches that are numbered otherwise.
LEMMA FlowMoves ==
  ASSUME NEW all, NEW new, NEW done, NEW c, NEW g, NEW last, NEW k \in Nat,
         \A b, q : Way(new, 0, c, b, q) =>
           b \in Nat /\ Way(all, done, c, b + k, q) /\ new[b][q] = all[b + k][q],
         \A b, q : Way(all, done, c, b, q) =>
           b \in Nat /\ b - k \in Nat /\ Way(new, 0, c, b - k, q),
         FlowsOneByOne(g, all, done, c, last)
  PROVE  FlowsOneByOne(g, new, 0, c, last)
<1>1. ASSUME NEW b, NEW q, Way(new, 0, c, b, q)
      PROVE  new[b][q].op \in Len(g) + 1 .. last
  BY SMTT(30), <1>1 DEF FlowsOneByOne
<1>2. ASSUME NEW n \in Len(g) + 1 .. last
      PROVE  \E b, q : Way(new, 0, c, b, q) /\ new[b][q].op = n
  <2>1. PICK b, q : Way(all, done, c, b, q) /\ all[b][q].op = n
    BY DEF FlowsOneByOne
  <2>2. b \in Nat /\ b - k \in Nat /\ Way(new, 0, c, b - k, q)
    BY <2>1
  <2>3. (b - k) + k = b
    BY <2>2
  <2>4. new[b - k][q] = all[b][q]
    BY <2>2, <2>3
  <2> QED
    BY <2>1, <2>2, <2>4
<1>3. ASSUME NEW a, NEW p, NEW b, NEW q, Way(new, 0, c, a, p), Way(new, 0, c, b, q),
             a < b \/ (a = b /\ p < q)
      PROVE  new[a][p].op < new[b][q].op
  <2>1. /\ a \in Nat /\ Way(all, done, c, a + k, p) /\ new[a][p] = all[a + k][p]
        /\ b \in Nat /\ Way(all, done, c, b + k, q) /\ new[b][q] = all[b + k][q]
    BY <1>3
  <2>2. a + k < b + k \/ (a + k = b + k /\ p < q)
    BY <1>3, <2>1
  <2> DEFINE x == a + k
             y == b + k
  <2> HIDE DEF x, y
  <2>3. Way(all, done, c, x, p) /\ Way(all, done, c, y, q) /\ (x < y \/ (x = y /\ p < q))
    BY <2>1, <2>2 DEF x, y
  <2>4. all[x][p].op < all[y][q].op
    BY <2>3 DEF FlowsOneByOne
  <2> QED
    BY <2>1, <2>4 DEF x, y
<1> QED
  BY <1>1, <1>2, <1>3 DEF FlowsOneByOne

\* A step that only hands out answers.
LEMMA HandingKeeps ==
  ASSUME IInv, UNCHANGED <<vars, pending>>, Giving(got', Batches', 0),
         answers' \in Seq(ReadyAnswers), batches' \in Seq(Seq(ReadyAnswers)),
         \A b \in DOMAIN Batches' : \A q \in DOMAIN Batches'[b] : AnswerOK(Batches'[b][q])
  PROVE  IInv'
<1>1. UNCHANGED <<clients, primary, net, replies, committed, ops, pending>>
  BY DEF vars
<1>2. \A c : Answers(c)' = Answers(c)
  BY <1>1 DEF Answers
<1>3. ASSUME NEW c \in Issuers PROVE IssuerInv(c)'
  <2>1. IssuerInv(c) /\ ConnectionInv(c)
    BY DEF IInv, IssuerInv
  <2>2. GotOK(got'[c], ops[c]) /\ FlowsOneByOne(got'[c], Batches', 0, c, Answers(c))
    BY DEF Giving
  <2>3. Flows(got'[c], Batches', 0, c, Answers(c))
    BY <2>2, FlowsIs
  <2>4. ConnectionInv(c)'
    <3>1. /\ got'[c] \in Seq(ReadyAnswers)
          /\ \A i \in DOMAIN got'[c] : got'[c][i].op = i /\ got'[c][i].answer = ops'[c][i].end
      BY <1>1, <2>2 DEF GotOK
    <3>2. Flows(got[c], Batches, 0, c, Answers(c))'
      BY <1>2, <2>3
    <3>3. /\ Answers(c) \in Nat
          /\ pending[c] \in Seq([op : Nat, kind : Kinds, number : Nat, answer : Int])
          /\ \A i \in DOMAIN pending[c] :
               pending[c][i] = [op |-> Answers(c) + i, kind |-> ops[c][Answers(c) + i].kind,
                                number |-> ops[c][Answers(c) + i].number,
                                answer |-> ops[c][Answers(c) + i].end]
          /\ \A i \in 1 .. Answers(c) : ops[c][i].end # Open
      BY <2>1 DEF ConnectionInv
    <3> HIDE DEF Answers
    <3>4. pending' = pending /\ ops' = ops /\ Answers(c)' = Answers(c)
      BY <1>1, <1>2
    <3> QED
      BY <3>1, <3>2, <3>3, <3>4 DEF ConnectionInv
  <2> QED
    BY <1>1, <2>1, <2>4, SameIssuer
<1>4. MessagesInv' /\ LogInv' /\ RepliesInv' /\ PrimaryInv(primary)' /\ CommittedInv'
  <2>1. MessagesInv'
    BY <1>1 DEF IInv, MessagesInv
  <2>2. LogInv'
    BY <1>1 DEF IInv, LogInv
  <2>3. RepliesInv'
    BY <1>1 DEF IInv, RepliesInv
  <2> QED
    BY <1>1, <2>1, <2>2, <2>3 DEF IInv, CommittedInv, Known
<1>5. (\A b \in DOMAIN Batches : \A q \in DOMAIN Batches[b] : AnswerOK(Batches[b][q]))'
  BY <1>1 DEF AnswerOK
<1>6. DOMAIN got' = Issuers
  BY DEF Giving
<1> QED
  BY <1>1, <1>3, <1>4, <1>5, <1>6 DEF IInv

\* The batches once the first of them is handed out.
LEMMA WithoutFirst ==
  ASSUME NEW g, NEW all, NEW new, NEW k \in Nat \ {0}, Len(all[1]) \in Nat,
         DOMAIN all = 1 .. k, DOMAIN new \subseteq Nat \ {0},
         \A b \in DOMAIN all : DOMAIN all[b] = 1 .. Len(all[b]) /\ Len(all[b]) \in Nat,
         \A b \in DOMAIN new : (b + 1 \in DOMAIN all /\ new[b] = all[b + 1]) \/ DOMAIN new[b] = {},
         \A b \in DOMAIN all \ {1} : b - 1 \in DOMAIN new /\ new[b - 1] = all[b],
         Giving(g, all, Len(all[1]))
  PROVE  Giving(g, new, 0)
<1> SUFFICES ASSUME NEW c \in Issuers
             PROVE  FlowsOneByOne(g[c], new, 0, c, Answers(c))
  BY DEF Giving
<1> DEFINE n == Len(all[1])
<1>1. FlowsOneByOne(g[c], all, n, c, Answers(c))
  BY DEF Giving
<1> HIDE DEF n
<1>2. ASSUME NEW b, NEW q, Way(new, 0, c, b, q)
      PROVE  b \in Nat /\ Way(all, n, c, b + 1, q) /\ new[b][q] = all[b + 1][q]
  <2>1. b \in DOMAIN new /\ q \in DOMAIN new[b] /\ new[b][q].client = c /\ b \in Nat \ {0}
    BY <1>2 DEF Way
  <2>2. b + 1 \in DOMAIN all /\ new[b] = all[b + 1] /\ b + 1 # 1
    BY <2>1
  <2> QED
    BY <2>1, <2>2 DEF Way
<1>3. ASSUME NEW b, NEW q, Way(all, n, c, b, q)
      PROVE  b \in Nat /\ b - 1 \in Nat /\ Way(new, 0, c, b - 1, q)
  <2>1. b \in DOMAIN all /\ q \in DOMAIN all[b] /\ (b = 1 => q > n) /\ all[b][q].client = c
    BY <1>3 DEF Way
  <2>2. Len(all[b]) \in Nat /\ q \in 1 .. Len(all[b]) /\ b \in 1 .. k
    BY <2>1
  <2>3. b # 1
    <3> SUFFICES ASSUME b = 1 PROVE FALSE
      OBVIOUS
    <3>1. q \in 1 .. n /\ q > n /\ n \in Nat
      BY <2>1, <2>2 DEF n
    <3> QED
      BY <3>1
  <2>4. b - 1 \in DOMAIN new /\ new[b - 1] = all[b]
    BY <2>1, <2>3
  <2>5. q > 0 /\ b \in Nat /\ b - 1 \in Nat
    BY <2>2
  <2> QED
    BY <2>1, <2>4, <2>5 DEF Way
<1> QED
  BY <1>1, <1>2, <1>3, FlowMoves

\* hand_out
LEMMA HandOutKeeps ==
  ASSUME IInv, HandOut
  PROVE  IInv'
<1> DEFINE L == Len(batches)
<1>1. /\ UNCHANGED <<vars, pending>> /\ answers' = <<>>
      /\ \/ batches' = Batches /\ got' = got
         \/ batches = <<>> /\ got' = Given(answers) /\ batches' = batches
  BY DEF HandOut, Behind, Batches
<1>2. /\ Batches \in Seq(Seq(ReadyAnswers)) /\ Len(Batches) = L + 1
      /\ L \in Nat /\ DOMAIN Batches = 1 .. L + 1 /\ Batches[L + 1] = answers
      /\ \A b \in DOMAIN Batches :
           /\ Len(Batches[b]) \in Nat /\ DOMAIN Batches[b] = 1 .. Len(Batches[b])
  BY BatchesTyped
<1>3. answers' \in Seq(ReadyAnswers)
  BY <1>1
<1>4. \A b \in DOMAIN Batches : \A q \in DOMAIN Batches[b] : AnswerOK(Batches[b][q])
  BY DEF IInv
<1>5. /\ Giving(got, Batches, 0)
      /\ Giving(Given(Batches[1]), Batches, Len(Batches[1]))
  BY GivenGiving
<1>6. CASE batches' = Batches /\ got' = got
  <2>1. Batches' = Append(Batches, <<>>)
    BY <1>1, <1>6 DEF Batches
  <2> DEFINE all == Batches
             new == Batches'
  <2> HIDE DEF all, L
  <2>2. /\ DOMAIN new = 1 .. L + 2 /\ new[L + 2] = <<>>
        /\ \A b \in 1 .. L + 1 : new[b] = all[b]
    <3>1. all \in Seq(Seq(ReadyAnswers)) /\ Len(all) = L + 1 /\ new = Append(all, <<>>) /\ L \in Nat
      BY <1>2, <2>1 DEF all
    <3> HIDE DEF new
    <3>2. DOMAIN new = 1 .. Len(all) + 1 /\ new[Len(all) + 1] = <<>>
          /\ \A b \in 1 .. Len(all) : new[b] = all[b]
      BY <3>1
    <3>3. Len(all) + 1 = L + 2
      BY <3>1
    <3> QED
      BY <3>1, <3>2, <3>3
  <2> HIDE DEF new
  <2>3. \A b \in DOMAIN new : (b \in 1 .. L + 1 /\ b \in DOMAIN all /\ new[b] = all[b]) \/ DOMAIN new[b] = {}
    <3> TAKE b \in DOMAIN new
    <3>1. b \in 1 .. L + 1 \/ b = L + 2
      BY <1>2, <2>2
    <3> QED
      BY <1>2, <2>2, <3>1 DEF all
  <2>4. \A b \in DOMAIN all : b \in 1 .. L + 1 /\ b \in DOMAIN new /\ new[b] = all[b] /\ b \in Nat
    <3> TAKE b \in DOMAIN all
    <3>1. b \in 1 .. L + 1
      BY <1>2 DEF all
    <3>2. b \in 1 .. L + 2 /\ b \in Nat
      BY <1>2, <3>1
    <3> QED
      BY <2>2, <3>1, <3>2
  <2>5. ASSUME NEW c \in Issuers PROVE FlowsOneByOne(got[c], new, 0, c, Answers(c))
    <3>1. \A b, q : Way(new, 0, c, b, q) <=> Way(all, 0, c, b, q) /\ b \in Nat /\ new[b] = all[b]
      BY <2>3, <2>4 DEF Way
    <3>2. FlowsOneByOne(got[c], all, 0, c, Answers(c))
      BY <1>5 DEF Giving, all
    <3>3. \A b, q : Way(all, 0, c, b, q) => Way(new, 0, c, b, q)
      BY <2>3, <2>4 DEF Way
    <3>4. /\ \A b, q : Way(new, 0, c, b, q) =>
               b \in Nat /\ Way(all, 0, c, b + 0, q) /\ new[b][q] = all[b + 0][q]
          /\ \A b, q : Way(all, 0, c, b, q) =>
               b \in Nat /\ b - 0 \in Nat /\ Way(new, 0, c, b - 0, q)
      <4>1. \A b \in Nat : b + 0 = b /\ b - 0 = b
        OBVIOUS
      <4> QED
        BY <3>1, <3>3, <4>1
    <3>5. 0 \in Nat
      OBVIOUS
    <3> QED
      BY <3>2, <3>4, <3>5, FlowMoves
  <2>6. Giving(got', new, 0)
    <3>1. DOMAIN got = Issuers /\ \A c \in Issuers : GotOK(got[c], ops[c])
      BY <1>5 DEF Giving
    <3> QED
      BY <1>6, <2>5, <3>1 DEF Giving
  <2>7. \A b \in DOMAIN new : \A q \in DOMAIN new[b] : AnswerOK(new[b][q])
    BY <1>4, <2>3 DEF all
  <2>8. batches' \in Seq(Seq(ReadyAnswers))
    BY <1>2, <1>6
  <2> QED
    BY <1>1, <1>3, <2>6, <2>7, <2>8, HandingKeeps DEF new
<1>7. CASE batches = <<>> /\ got' = Given(answers) /\ batches' = batches
  <2>1. Batches' = Append(<<>>, <<>>) /\ L = 0
    BY <1>1, <1>7 DEF Batches
  <2>2. DOMAIN Batches' = {1} /\ Batches'[1] = <<>>
    BY <2>1
  <2>3. L + 1 = 1 /\ DOMAIN Batches = 1 .. 1 /\ Batches[1] = answers
    BY <1>2, <2>1
  <2> DEFINE all == Batches
             new == Batches'
  <2>4. DOMAIN all = 1 .. 1 /\ DOMAIN new \subseteq Nat \ {0} /\ DOMAIN all \ {1} = {}
        /\ \A b \in DOMAIN new : DOMAIN new[b] = {}
    BY <2>2, <2>3
  <2>5. Len(all[1]) \in Nat /\ 1 \in DOMAIN all
    BY <1>2, <2>3
  <2>6. Giving(got', all, Len(all[1]))
    BY <1>5, <1>7, <2>3
  <2>7. \A b \in DOMAIN all : DOMAIN all[b] = 1 .. Len(all[b]) /\ Len(all[b]) \in Nat
    BY <1>2
  <2> DEFINE m == L + 1
  <2>11. DOMAIN all = 1 .. m /\ m \in Nat \ {0}
    BY <1>2
  <2> HIDE DEF all, new, m
  <2>8. Giving(got', new, 0)
    <3>1. /\ \A b \in DOMAIN new : (b + 1 \in DOMAIN all /\ new[b] = all[b + 1]) \/ DOMAIN new[b] = {}
          /\ \A b \in DOMAIN all \ {1} : b - 1 \in DOMAIN new /\ new[b - 1] = all[b]
          /\ DOMAIN new \subseteq Nat \ {0}
      BY <2>4
    <3> QED
      BY <2>5, <2>6, <2>7, <2>11, <3>1, WithoutFirst
  <2>9. \A b \in DOMAIN new : \A q \in DOMAIN new[b] : AnswerOK(new[b][q])
    BY <2>4
  <2>10. batches' \in Seq(Seq(ReadyAnswers))
    BY <1>7
  <2> QED
    BY <1>1, <1>3, <2>8, <2>9, <2>10, HandingKeeps DEF new
<1> QED
  BY <1>1, <1>6, <1>7

\* The answerer thread.
LEMMA AnswererKeeps ==
  ASSUME IInv, AnswererGives
  PROVE  IInv'
<1> DEFINE L == Len(batches)
           all == Batches
           new == Batches'
<1>1. /\ UNCHANGED <<vars, pending>> /\ answers' = answers
      /\ batches # <<>> /\ got' = Given(batches[1]) /\ batches' = Tail(batches)
  BY DEF AnswererGives
<1>2. /\ L \in Nat /\ DOMAIN all = 1 .. L + 1 /\ all[L + 1] = answers
      /\ \A b \in 1 .. L : all[b] = batches[b]
      /\ \A b \in DOMAIN all :
           /\ Len(all[b]) \in Nat /\ DOMAIN all[b] = 1 .. Len(all[b])
  BY BatchesTyped
<1>3. answers \in Seq(ReadyAnswers) /\ batches \in Seq(Seq(ReadyAnswers))
  BY DEF IInv
<1>4. L # 0 /\ batches' \in Seq(Seq(ReadyAnswers)) /\ Len(batches') = L - 1
      /\ \A b \in 1 .. L - 1 : batches'[b] = batches[b + 1]
  BY <1>1, <1>3
<1>5. new = Append(batches', answers')
  BY DEF Batches
<1>6. /\ DOMAIN new = 1 .. (L - 1) + 1 /\ new[(L - 1) + 1] = answers
      /\ \A b \in 1 .. L - 1 : new[b] = batches'[b]
  <2> HIDE DEF new, L
  <2> QED
    BY <1>1, <1>3, <1>4, <1>5
<1> HIDE DEF L, all, new
<1>7. L \in Nat \ {0} /\ (L - 1) + 1 = L /\ L + 1 \in Nat \ {0}
  BY <1>2, <1>4
<1>8. DOMAIN new = 1 .. L /\ new[L] = answers
  BY <1>6, <1>7
<1>9. \A b \in DOMAIN new : b \in 1 .. L /\ b \in Nat \ {0} /\ b + 1 \in DOMAIN all /\ new[b] = all[b + 1]
  <2> TAKE b \in DOMAIN new
  <2>1. b \in 1 .. L /\ b + 1 \in 1 .. L + 1 /\ b \in Nat \ {0}
    BY <1>7, <1>8
  <2>2. CASE b = L
    BY <1>2, <1>8, <2>1, <2>2
  <2>3. CASE b # L
    <3>1. b \in 1 .. L - 1 /\ b + 1 \in 1 .. L
      BY <1>7, <2>1, <2>3
    <3>2. new[b] = batches[b + 1] /\ all[b + 1] = batches[b + 1]
      BY <1>2, <1>4, <1>6, <3>1
    <3> QED
      BY <1>2, <2>1, <3>2
  <2> QED
    BY <2>2, <2>3
<1>10. \A b \in DOMAIN all \ {1} : b - 1 \in DOMAIN new /\ new[b - 1] = all[b]
  <2> TAKE b \in DOMAIN all \ {1}
  <2>1. b - 1 \in 1 .. L /\ (b - 1) + 1 = b
    BY <1>2, <1>7
  <2>2. b - 1 \in DOMAIN new
    BY <1>8, <2>1
  <2>3. new[b - 1] = all[(b - 1) + 1]
    BY <1>9, <2>2
  <2> QED
    BY <2>1, <2>2, <2>3
<1>11. 1 \in DOMAIN all /\ all[1] = batches[1]
  BY <1>2, <1>7
<1>12. Giving(got', all, Len(all[1]))
  BY <1>1, <1>11, GivenGiving DEF all
<1>13. Giving(got', new, 0)
  <2>1. DOMAIN new \subseteq Nat \ {0}
    BY <1>9
  <2>2. Len(all[1]) \in Nat
    BY <1>2, <1>11
  <2> DEFINE m == L + 1
  <2>3. DOMAIN all = 1 .. m /\ m \in Nat \ {0}
    BY <1>2, <1>7
  <2> HIDE DEF m
  <2> QED
    BY <1>2, <1>9, <1>10, <1>12, <2>1, <2>2, <2>3, WithoutFirst
<1>14. \A b \in DOMAIN new : \A q \in DOMAIN new[b] : AnswerOK(new[b][q])
  <2>1. \A b \in DOMAIN all : \A q \in DOMAIN all[b] : AnswerOK(all[b][q])
    BY DEF IInv, all
  <2> QED
    BY <1>9, <2>1
<1> QED
  BY <1>1, <1>3, <1>4, <1>13, <1>14, HandingKeeps DEF new

\* The last batch grows by answers for connection c.
Grows(all, new, L, n, ready, c, last) ==
  /\ DOMAIN all = 1 .. L + 1 /\ DOMAIN new = 1 .. L + 1 /\ \A b \in 1 .. L : new[b] = all[b]
  /\ \A b \in DOMAIN all : DOMAIN all[b] \subseteq Nat \ {0}
  /\ DOMAIN all[L + 1] = 1 .. n /\ DOMAIN new[L + 1] = 1 .. n + ready
  /\ \A q \in 1 .. n : new[L + 1][q] = all[L + 1][q]
  /\ \A q \in n + 1 .. n + ready :
       new[L + 1][q].client = c /\ new[L + 1][q].op = last + (q - n)

LEMMA FlowGrows ==
  ASSUME NEW all, NEW new, NEW L \in Nat, NEW n \in Nat, NEW ready \in Nat, NEW c, NEW last \in Nat,
         Grows(all, new, L, n, ready, c, last), NEW g, Len(g) \in Nat
  PROVE  /\ FlowsOneByOne(g, all, 0, c, last) => FlowsOneByOne(g, new, 0, c, last + ready)
         /\ \A d, m : d # c /\ FlowsOneByOne(g, all, 0, d, m) => FlowsOneByOne(g, new, 0, d, m)
<1> DEFINE Added(b, q) == b = L + 1 /\ q \in n + 1 .. n + ready
<1>1. ASSUME NEW b, NEW q
      PROVE  (b \in DOMAIN new /\ q \in DOMAIN new[b]) <=>
               (b \in DOMAIN all /\ q \in DOMAIN all[b]) \/ Added(b, q)
  <2>1. b \in 1 .. L + 1 <=> b \in 1 .. L \/ b = L + 1
    OBVIOUS
  <2>2. q \in 1 .. n + ready <=> q \in 1 .. n \/ q \in n + 1 .. n + ready
    OBVIOUS
  <2>3. CASE b \in 1 .. L
    <3>1. b # L + 1 /\ new[b] = all[b] /\ b \in DOMAIN new /\ b \in DOMAIN all
      BY <2>1, <2>3 DEF Grows
    <3> QED
      BY <3>1
  <2>4. CASE b = L + 1
    <3>1. b \in DOMAIN new /\ b \in DOMAIN all /\ DOMAIN new[b] = 1 .. n + ready
          /\ DOMAIN all[b] = 1 .. n
      BY <2>1, <2>4 DEF Grows
    <3> QED
      BY <2>2, <2>4, <3>1
  <2>5. CASE b \notin 1 .. L /\ b # L + 1
    BY <2>1, <2>5 DEF Grows
  <2> QED
    BY <2>3, <2>4, <2>5
<1>2. ASSUME NEW b, NEW q, b \in DOMAIN all, q \in DOMAIN all[b]
      PROVE  new[b][q] = all[b][q] /\ ~Added(b, q) /\ b \in Nat /\ q \in Nat \ {0} /\ b <= L + 1
             /\ (b = L + 1 => q <= n)
  <2>1. b \in 1 .. L \/ b = L + 1
    BY <1>2 DEF Grows
  <2>2. q \in Nat \ {0} /\ b \in Nat /\ b <= L + 1
    BY <1>2, <2>1 DEF Grows
  <2>3. CASE b \in 1 .. L
    BY <2>2, <2>3 DEF Grows
  <2>4. CASE b = L + 1
    <3>1. q \in 1 .. n
      BY <1>2, <2>4 DEF Grows
    <3>2. new[b][q] = all[b][q]
      BY <2>4, <3>1 DEF Grows
    <3> QED
      BY <2>2, <3>1, <3>2
  <2> QED
    BY <2>1, <2>3, <2>4
<1>3. ASSUME NEW b, NEW q, Added(b, q)
      PROVE  /\ new[b][q].client = c /\ new[b][q].op = last + (q - n) /\ q \in Nat \ {0}
             /\ b \in Nat /\ b = L + 1 /\ q > n
  <2>1. q \in n + 1 .. n + ready /\ b = L + 1
    BY <1>3
  <2>2. new[L + 1][q].client = c /\ new[L + 1][q].op = last + (q - n)
    BY <2>1 DEF Grows
  <2> QED
    BY <2>1, <2>2
<1> HIDE DEF Added
<1>4. ASSUME NEW d, NEW b, NEW q
      PROVE  /\ Way(new, 0, d, b, q) <=> Way(all, 0, d, b, q) \/ (Added(b, q) /\ d = c)
             /\ Way(all, 0, d, b, q) => /\ new[b][q] = all[b][q] /\ ~Added(b, q) /\ b \in Nat
                                        /\ q \in Nat /\ b <= L + 1 /\ (b = L + 1 => q <= n)
  <2>1. CASE b \in DOMAIN all /\ q \in DOMAIN all[b]
    BY <1>1, <1>2, <2>1 DEF Way
  <2>2. CASE Added(b, q)
    <3>1. ~(b \in DOMAIN all /\ q \in DOMAIN all[b])
      BY <1>2, <2>2
    <3>2. b \in DOMAIN new /\ q \in DOMAIN new[b] /\ new[b][q].client = c /\ q > 0
      BY <1>1, <1>3, <2>2
    <3> QED
      BY <2>2, <3>1, <3>2 DEF Way
  <2>3. CASE ~(b \in DOMAIN all /\ q \in DOMAIN all[b]) /\ ~Added(b, q)
    BY <1>1, <2>3 DEF Way
  <2> QED
    BY <2>1, <2>2, <2>3
<1>5. ASSUME NEW d, NEW m, d # c, FlowsOneByOne(g, all, 0, d, m)
      PROVE  FlowsOneByOne(g, new, 0, d, m)
  <2>1. \A b, q : /\ Way(new, 0, d, b, q) <=> Way(all, 0, d, b, q)
                  /\ Way(all, 0, d, b, q) => new[b][q] = all[b][q]
    BY <1>4, <1>5
  <2>2. \A b, q : Way(new, 0, d, b, q) => new[b][q].op \in Len(g) + 1 .. m
    BY <1>5, <2>1 DEF FlowsOneByOne
  <2>3. \A i \in Len(g) + 1 .. m : \E b, q : Way(new, 0, d, b, q) /\ new[b][q].op = i
    <3> TAKE i \in Len(g) + 1 .. m
    <3>1. PICK b, q : Way(all, 0, d, b, q) /\ all[b][q].op = i
      BY <1>5 DEF FlowsOneByOne
    <3> QED
      BY <2>1, <3>1
  <2>4. ASSUME NEW a, NEW p, NEW b, NEW q, Way(new, 0, d, a, p), Way(new, 0, d, b, q),
               a < b \/ (a = b /\ p < q)
        PROVE  new[a][p].op < new[b][q].op
    <3>1. /\ Way(all, 0, d, a, p) /\ Way(all, 0, d, b, q)
          /\ new[a][p] = all[a][p] /\ new[b][q] = all[b][q]
      BY <2>1, <2>4
    <3>2. all[a][p].op < all[b][q].op
      BY <1>5, <2>4, <3>1 DEF FlowsOneByOne
    <3> QED
      BY <3>1, <3>2
  <2>5. Len(g) <= m
    BY <1>5 DEF FlowsOneByOne
  <2> QED
    BY <2>2, <2>3, <2>4, <2>5 DEF FlowsOneByOne
<1>6. ASSUME FlowsOneByOne(g, all, 0, c, last)
      PROVE  FlowsOneByOne(g, new, 0, c, last + ready)
  <2> DEFINE l == Len(g)
  <2>1. /\ \A b, q : Way(all, 0, c, b, q) => all[b][q].op \in l + 1 .. last
        /\ \A m \in l + 1 .. last : \E b, q : Way(all, 0, c, b, q) /\ all[b][q].op = m
        /\ \A a, p, b, q :
             /\ Way(all, 0, c, a, p) /\ Way(all, 0, c, b, q) /\ (a < b \/ (a = b /\ p < q))
             => all[a][p].op < all[b][q].op
        /\ l <= last /\ l \in Nat
    BY <1>6 DEF FlowsOneByOne
  <2> HIDE DEF l
  <2>2. ASSUME NEW b, NEW q, Way(new, 0, c, b, q)
        PROVE  new[b][q].op \in l + 1 .. last + ready
    <3>1. CASE Way(all, 0, c, b, q)
      <4>1. new[b][q].op \in l + 1 .. last
        BY SMTT(30), <1>4, <2>1, <3>1
      <4> QED
        BY <2>1, <4>1
    <3>2. CASE Added(b, q)
      <4>1. new[b][q].op = last + (q - n) /\ q \in n + 1 .. n + ready
        BY <1>3, <3>2 DEF Added
      <4> QED
        BY <2>1, <4>1
    <3> QED
      BY <1>4, <2>2, <3>1, <3>2
  <2>3. ASSUME NEW m \in l + 1 .. last + ready
        PROVE  \E b, q : Way(new, 0, c, b, q) /\ new[b][q].op = m
    <3>1. CASE m \in l + 1 .. last
      <4>1. PICK b, q : Way(all, 0, c, b, q) /\ all[b][q].op = m
        BY <2>1, <3>1
      <4> QED
        BY <1>4, <4>1
    <3>2. CASE m \notin l + 1 .. last
      <4> DEFINE q == n + (m - last)
      <4>1. q \in n + 1 .. n + ready /\ last + (q - n) = m
        BY <2>1, <3>2
      <4> HIDE DEF q
      <4>2. Added(L + 1, q)
        BY <4>1 DEF Added
      <4>3. new[L + 1][q].op = m
        BY <1>3, <4>1, <4>2
      <4> QED
        BY <1>4, <4>2, <4>3
    <3> QED
      BY <3>1, <3>2
  <2>4. ASSUME NEW a, NEW p, NEW b, NEW q, Way(new, 0, c, a, p), Way(new, 0, c, b, q),
               a < b \/ (a = b /\ p < q)
        PROVE  new[a][p].op < new[b][q].op
    <3>1. CASE Way(all, 0, c, a, p) /\ Way(all, 0, c, b, q)
      <4>1. new[a][p] = all[a][p] /\ new[b][q] = all[b][q]
        BY <1>4, <3>1
      <4>2. all[a][p].op < all[b][q].op
        BY <2>1, <2>4, <3>1
      <4> QED
        BY <4>1, <4>2
    <3>2. CASE Way(all, 0, c, a, p) /\ Added(b, q)
      <4>1. new[a][p].op \in l + 1 .. last
        BY <1>4, <2>1, <3>2
      <4>2. new[b][q].op = last + (q - n) /\ q \in n + 1 .. n + ready
        BY <1>3, <3>2 DEF Added
      <4> QED
        BY SMTT(30), <2>1, <4>1, <4>2
    <3>3. CASE Added(a, p) /\ Added(b, q)
      <4>1. /\ a = b /\ a \in Nat /\ new[a][p].op = last + (p - n) /\ new[b][q].op = last + (q - n)
            /\ p \in Nat /\ q \in Nat
        BY <1>3, <3>3
      <4>2. p < q
        BY <2>4, <4>1
      <4> QED
        BY <4>1, <4>2
    <3>4. CASE Added(a, p) /\ Way(all, 0, c, b, q)
      <4>1. a = L + 1 /\ p > n /\ p \in Nat /\ b \in Nat /\ b <= L + 1 /\ (b = L + 1 => q <= n) /\ q \in Nat
        BY <1>3, <1>4, <3>4
      <4> QED
        BY <2>4, <4>1
    <3> QED
      BY <1>4, <2>4, <3>1, <3>2, <3>3, <3>4
  <2>5. l <= last + ready
    BY <2>1
  <2> QED
    BY <2>2, <2>3, <2>4, <2>5 DEF FlowsOneByOne, l
<1> QED
  BY <1>5, <1>6

-----------------------------------------------------------------------------
(* Deliveries *)

\* p is what a connection knows of the operations g after the first a.
Mirrors(p, g, a) ==
  /\ p \in Seq([op : Nat, kind : Kinds, number : Nat, answer : Int])
  /\ Len(p) = Len(g) - a
  /\ \A i \in 1 .. Len(p) :
       p[i] = [op |-> a + i, kind |-> g[a + i].kind, number |-> g[a + i].number,
               answer |-> g[a + i].end]

\* Some of the operations o end, which makes them g.
EndsSome(o, g) ==
  /\ g \in Seq(Operations) /\ Len(g) = Len(o)
  /\ \A i \in 1 .. Len(o) : o[i].end # Open => g[i].end = o[i].end

LEMMA SequenceIs ==
  ASSUME NEW S, NEW n \in Nat, NEW f \in [1 .. n -> S]
  PROVE  f \in Seq(S) /\ Len(f) = n
  OBVIOUS

LEMMA ConcatIs ==
  ASSUME NEW S, NEW s \in Seq(S), NEW t \in Seq(S)
  PROVE  /\ s \o t \in Seq(S) /\ Len(s) \in Nat /\ Len(t) \in Nat
         /\ DOMAIN s = 1 .. Len(s) /\ DOMAIN (s \o t) = 1 .. Len(s) + Len(t)
         /\ \A i \in 1 .. Len(s) : (s \o t)[i] = s[i]
         /\ \A i \in 1 .. Len(t) : (s \o t)[Len(s) + i] = t[i]
  OBVIOUS

\* The answers R of connection c, which become ready, join those on their way.
LEMMA ReadyJoin ==
  ASSUME IInv, NEW c \in Issuers, NEW a \in Nat, NEW R \in Seq(ReadyAnswers), NEW ready \in Nat,
         Len(R) = ready, \A i \in 1 .. ready : R[i].client = c /\ R[i].op = a + i,
         answers' = answers \o R, batches' = batches
  PROVE  /\ answers' \in Seq(ReadyAnswers) /\ Len(answers) \in Nat
         /\ Grows(Batches, Batches', Len(batches), Len(answers), ready, c, a)
         /\ \A i \in 1 .. ready : Batches'[Len(batches) + 1][Len(answers) + i] = R[i]
<1> DEFINE n == Len(answers)
           L == Len(batches)
<1>1. answers \in Seq(ReadyAnswers) /\ batches \in Seq(Seq(ReadyAnswers)) /\ answers' = answers \o R
  BY DEF IInv
<1>2. /\ answers' \in Seq(ReadyAnswers) /\ n \in Nat /\ DOMAIN answers = 1 .. n
      /\ DOMAIN answers' = 1 .. n + ready
      /\ \A q \in 1 .. n : answers'[q] = answers[q]
      /\ \A i \in 1 .. ready : answers'[n + i] = R[i]
  <2> DEFINE both == answers \o R
  <2>1. /\ both \in Seq(ReadyAnswers) /\ Len(answers) \in Nat
        /\ DOMAIN answers = 1 .. Len(answers) /\ DOMAIN both = 1 .. Len(answers) + Len(R)
        /\ \A i \in 1 .. Len(answers) : both[i] = answers[i]
        /\ \A i \in 1 .. Len(R) : both[Len(answers) + i] = R[i]
    <3>1. answers \in Seq(ReadyAnswers) /\ R \in Seq(ReadyAnswers)
      BY <1>1
    <3> QED
      BY ONLY <3>1, ConcatIs
  <2>2. answers' = both
    BY <1>1
  <2> HIDE DEF both
  <2> QED
    BY <2>1, <2>2
<1>3. /\ L \in Nat /\ DOMAIN Batches' = 1 .. L + 1 /\ Batches'[L + 1] = answers'
      /\ \A b \in 1 .. L : Batches'[b] = batches[b]
  BY <1>1, <1>2 DEF Batches
<1>4. /\ DOMAIN Batches = 1 .. L + 1 /\ Batches[L + 1] = answers
      /\ \A b \in 1 .. L : Batches[b] = batches[b]
      /\ \A b \in DOMAIN Batches : Len(Batches[b]) \in Nat /\ DOMAIN Batches[b] = 1 .. Len(Batches[b])
  BY BatchesTyped
<1> HIDE DEF n, L
<1>5. \A b \in DOMAIN Batches : DOMAIN Batches[b] \subseteq Nat \ {0}
  <2> TAKE b \in DOMAIN Batches
  <2> DEFINE m == Len(Batches[b])
  <2>1. m \in Nat /\ DOMAIN Batches[b] = 1 .. m
    BY <1>4
  <2> HIDE DEF m
  <2> QED
    BY <2>1
<1>6. ASSUME NEW q \in n + 1 .. n + ready
      PROVE  Batches'[L + 1][q].client = c /\ Batches'[L + 1][q].op = a + (q - n)
  <2> DEFINE i == q - n
  <2>1. i \in 1 .. ready /\ n + i = q
    BY <1>2
  <2> HIDE DEF i
  <2>2. answers'[q] = R[i] /\ R[i].client = c /\ R[i].op = a + i
    BY <1>2, <2>1
  <2> QED
    BY <1>3, <2>2 DEF i
<1>7. \A i \in 1 .. ready : Batches'[L + 1][n + i] = R[i]
  BY <1>2, <1>3
<1>8. Grows(Batches, Batches', L, n, ready, c, a)
  BY <1>2, <1>3, <1>4, <1>5, <1>6 DEF Grows
<1> QED
  BY <1>2, <1>7, <1>8 DEF n, L

LEMMA OthersFlow ==
  ASSUME NEW all, NEW new, NEW L \in Nat, NEW n \in Nat, NEW ready \in Nat, NEW c, NEW last \in Nat,
         Grows(all, new, L, n, ready, c, last), NEW g, Len(g) \in Nat, NEW d, d # c, NEW m,
         FlowsOneByOne(g, all, 0, d, m)
  PROVE  FlowsOneByOne(g, new, 0, d, m)
<1>1. \A e, k : e # c /\ FlowsOneByOne(g, all, 0, e, k) => FlowsOneByOne(g, new, 0, e, k)
  BY FlowGrows, Zenon
<1> QED
  BY <1>1

\* What deliver_reply does to the connections, once it is known how p mirrors the
\* operations.
LEMMA Delivered ==
  ASSUME IInv, NEW c \in Issuers, NEW g, ops' = [ops EXCEPT ![c] = g], EndsSome(ops[c], g),
         NEW p, Mirrors(p, g, Answers(c)), NEW ready \in 0 .. Len(p),
         \A i \in 1 .. ready : p[i].answer # Open,
         pending' = [pending EXCEPT ![c] = SubSeq(p, ready + 1, Len(p))],
         answers' = answers \o [i \in 1 .. ready |-> [client |-> c, op |-> p[i].op,
                                                      answer |-> p[i].answer]],
         UNCHANGED <<batches, got>>
  PROVE  /\ Answers(c)' = Answers(c) + ready /\ \A d \in Issuers : ConnectionInv(d)'
         /\ (answers \in Seq(ReadyAnswers) /\ batches \in Seq(Seq(ReadyAnswers)))'
         /\ (\A b \in DOMAIN Batches : \A q \in DOMAIN Batches[b] : AnswerOK(Batches[b][q]))'
         /\ DOMAIN ops' = Issuers /\ DOMAIN pending' = Issuers /\ DOMAIN got' = Issuers
         /\ ops'[c] = g
         /\ \A d \in Issuers \ {c} : ops'[d] = ops[d] /\ pending'[d] = pending[d]
<1> DEFINE o == ops[c]
           a == Answers(c)
           n == Len(o)
           m == Len(p)
           s == SubSeq(p, ready + 1, Len(p))
           P == [op : Nat, kind : Kinds, number : Nat, answer : Int]
           new == Batches'
           L == Len(batches)
           l == Len(answers)
<1>1. /\ DOMAIN ops = Issuers /\ DOMAIN pending = Issuers /\ DOMAIN got = Issuers
      /\ \A d \in Issuers : ConnectionInv(d)
      /\ batches \in Seq(Seq(ReadyAnswers))
      /\ \A b \in DOMAIN Batches : \A q \in DOMAIN Batches[b] : AnswerOK(Batches[b][q])
  BY DEF IInv, IssuerInv
<1>2. /\ DOMAIN ops' = Issuers /\ DOMAIN pending' = Issuers /\ DOMAIN got' = Issuers
      /\ ops'[c] = g /\ pending'[c] = s
      /\ \A d \in Issuers \ {c} : ops'[d] = ops[d] /\ pending'[d] = pending[d]
      /\ got' = got /\ batches' = batches
  BY <1>1
<1>3. n \in Nat /\ DOMAIN o = 1 .. n /\ a \in Nat /\ a <= n
  BY CommandsAre
<1>4. /\ g \in Seq(Operations) /\ Len(g) = n
      /\ DOMAIN g = 1 .. n /\ \A i \in 1 .. n : g[i] \in Operations
      /\ \A i \in 1 .. n : o[i].end # Open => g[i].end = o[i].end
  <2>1. g \in Seq(Operations) /\ Len(g) = n /\ \A i \in 1 .. n : o[i].end # Open => g[i].end = o[i].end
    BY DEF EndsSome
  <2> QED
    BY <2>1, SeqIs
<1>5. p \in Seq(P) /\ m \in Nat /\ m = n - a
  <2>1. p \in Seq(P) /\ m = Len(g) - a
    BY DEF Mirrors
  <2>2. m \in Nat
    BY <2>1, SeqIs
  <2> QED
    BY <1>4, <2>1, <2>2
<1>6. /\ s \in Seq(P) /\ Len(s) = m - ready /\ DOMAIN s = 1 .. m - ready
      /\ \A i \in 1 .. m - ready : s[i] = p[ready + i] /\ ready + i \in 1 .. m
  BY <1>5, EndOf
<1>7. \A i \in 1 .. m :
        p[i] = [op |-> a + i, kind |-> g[a + i].kind, number |-> g[a + i].number,
                answer |-> g[a + i].end]
  BY DEF Mirrors
<1>8. ready \in Nat /\ ready <= m /\ \A i \in 1 .. ready : i \in 1 .. m
  BY <1>5
<1>9. Answers(c)' = a + ready
  <2>1. Answers(c)' = Len(g) - Len(s)
    BY <1>2 DEF Answers
  <2> HIDE DEF n, m, a, s
  <2> QED
    BY <1>3, <1>4, <1>5, <1>6, <1>8, <2>1
<1> HIDE DEF o, a, n, m, s, P
<1>10. \A i \in 1 .. m : a + i \in 1 .. n
  BY <1>3, <1>5
<1>11. ASSUME NEW i \in 1 .. ready
       PROVE  p[i].op = a + i /\ p[i].answer = g[a + i].end /\ p[i].answer \in Int /\ a + i \in Nat
  <2>1. i \in 1 .. m /\ a + i \in 1 .. n
    BY <1>8, <1>10
  <2>2. g[a + i].end \in Int
    BY <1>4, <2>1 DEF Operations
  <2>3. p[i] = [op |-> a + i, kind |-> g[a + i].kind, number |-> g[a + i].number,
                answer |-> g[a + i].end]
    BY <1>7, <2>1
  <2>4. a + i \in Nat
    BY <1>3, <1>8
  <2> QED
    BY <2>2, <2>3, <2>4
<1> DEFINE R == [i \in 1 .. ready |-> [client |-> c, op |-> p[i].op, answer |-> p[i].answer]]
<1>12. R \in Seq(ReadyAnswers) /\ Len(R) = ready
  <2>1. \A i \in 1 .. ready : R[i] \in ReadyAnswers
    BY <1>11 DEF ReadyAnswers
  <2>2. R \in [1 .. ready -> ReadyAnswers]
    BY <2>1
  <2> HIDE DEF R
  <2> QED
    BY <1>8, <2>2, SequenceIs
<1>13. \A i \in 1 .. ready : R[i] = [client |-> c, op |-> a + i, answer |-> p[i].answer]
  BY <1>11
<1>14. answers' = answers \o R
  OBVIOUS
<1> HIDE DEF R, L, l, new
<1>15. /\ answers' \in Seq(ReadyAnswers) /\ l \in Nat
       /\ Grows(Batches, new, L, l, ready, c, a)
       /\ \A i \in 1 .. ready :
            new[L + 1][l + i] = [client |-> c, op |-> a + i, answer |-> p[i].answer]
  <2>1. \A i \in 1 .. ready : R[i].client = c /\ R[i].op = a + i
    <3> TAKE i \in 1 .. ready
    <3>1. R[i] = [client |-> c, op |-> a + i, answer |-> p[i].answer]
      BY <1>13
    <3> QED
      BY <3>1
  <2>2. batches' = batches /\ a \in Nat /\ ready \in Nat
    BY <1>2, <1>3, <1>8
  <2>3. /\ answers' \in Seq(ReadyAnswers) /\ Len(answers) \in Nat
        /\ Grows(Batches, Batches', Len(batches), Len(answers), ready, c, a)
        /\ \A i \in 1 .. ready : Batches'[Len(batches) + 1][Len(answers) + i] = R[i]
    BY ZenonT(60), <1>12, <1>14, <2>1, <2>2, ReadyJoin
  <2> QED
    BY <1>13, <2>3 DEF L, l, new
<1>16. L \in Nat
  BY <1>1, SeqIs DEF L
<1>17. ASSUME NEW d \in Issuers
       PROVE  /\ got'[d] \in Seq(ReadyAnswers) /\ Len(got[d]) \in Nat
              /\ Len(got[d]) <= Answers(d) /\ DOMAIN got[d] = 1 .. Len(got[d])
              /\ FlowsOneByOne(got[d], Batches, 0, d, Answers(d))
  <2>1. got[d] \in Seq(ReadyAnswers) /\ Flows(got[d], Batches, 0, d, Answers(d))
    BY <1>1 DEF ConnectionInv
  <2>2. FlowsOneByOne(got[d], Batches, 0, d, Answers(d))
    BY <2>1, FlowsIs
  <2>3. Len(got[d]) \in Nat /\ DOMAIN got[d] = 1 .. Len(got[d])
    BY <2>1, SeqIs
  <2>4. Len(got[d]) <= Answers(d)
    BY <2>1 DEF Flows
  <2> QED
    BY <1>2, <2>1, <2>2, <2>3, <2>4
<1>18. ConnectionInv(c)'
  <2>1. FlowsOneByOne(got[c], new, 0, c, a + ready)
    BY <1>3, <1>8, <1>15, <1>16, <1>17, FlowGrows DEF a
  <2>2. Flows(got[c], new, 0, c, a + ready)
    BY <2>1, FlowsIs
  <2>3. Flows(got[c], Batches, 0, c, Answers(c))'
    BY <1>2, <1>9, <2>2 DEF new
  <2>4. \A i \in DOMAIN got'[c] : got'[c][i].op = i /\ got'[c][i].answer = ops'[c][i].end
    <3> TAKE i \in DOMAIN got'[c]
    <3>1. i \in DOMAIN got[c] /\ got'[c][i] = got[c][i]
      BY <1>2
    <3>2. got[c][i].op = i /\ got[c][i].answer = o[i].end
      BY <1>1, <3>1 DEF ConnectionInv, o
    <3>3. i \in 1 .. a /\ i \in 1 .. n
      BY <1>3, <1>17, <3>1 DEF a
    <3>4. o[i].end # Open
      BY <1>1, <3>3 DEF ConnectionInv, o, a
    <3> QED
      BY <1>2, <1>4, <3>1, <3>2, <3>3, <3>4
  <2>5. \A i \in DOMAIN pending'[c] :
          pending'[c][i] =
            [op |-> Answers(c)' + i, kind |-> ops'[c][Answers(c)' + i].kind,
             number |-> ops'[c][Answers(c)' + i].number,
             answer |-> ops'[c][Answers(c)' + i].end]
    <3> TAKE i \in DOMAIN pending'[c]
    <3>1. i \in 1 .. m - ready
      BY <1>2, <1>6
    <3>2. s[i] = p[ready + i] /\ ready + i \in 1 .. m
      BY <1>6, <3>1
    <3>3. a + (ready + i) = Answers(c)' + i
      BY <1>3, <1>5, <1>8, <1>9, <3>1
    <3> QED
      BY <1>2, <1>7, <3>2, <3>3
  <2>6. \A i \in 1 .. Answers(c)' : ops'[c][i].end # Open
    <3> TAKE i \in 1 .. Answers(c)'
    <3>1. i \in 1 .. a + ready
      BY <1>9
    <3>2. CASE i \in 1 .. a
      <4>1. i \in 1 .. n
        BY <1>3, <3>2
      <4>2. o[i].end # Open
        BY <1>1, <3>2 DEF ConnectionInv, o, a
      <4> QED
        BY <1>2, <1>4, <4>1, <4>2
    <3>3. CASE i \notin 1 .. a
      <4>1. i - a \in 1 .. ready /\ a + (i - a) = i
        BY <1>3, <1>8, <3>1, <3>3
      <4>2. p[i - a].answer = g[i].end /\ p[i - a].answer # Open
        BY <1>11, <4>1
      <4> QED
        BY <1>2, <4>2
    <3> QED
      BY <3>2, <3>3
  <2>7. Answers(c)' \in Nat
    BY <1>3, <1>8, <1>9
  <2>8. pending'[c] \in Seq([op : Nat, kind : Kinds, number : Nat, answer : Int])
    BY <1>2, <1>6 DEF P
  <2>9. got'[c] \in Seq(ReadyAnswers)
    BY <1>17
  <2> HIDE DEF Answers
  <2> QED
    BY <2>3, <2>4, <2>5, <2>6, <2>7, <2>8, <2>9 DEF ConnectionInv
<1>19. ASSUME NEW d \in Issuers, d # c PROVE ConnectionInv(d)'
  <2>1. ops'[d] = ops[d] /\ pending'[d] = pending[d] /\ got'[d] = got[d]
    BY <1>2, <1>19
  <2>2. Answers(d)' = Answers(d)
    BY <2>1 DEF Answers
  <2>3. FlowsOneByOne(got[d], new, 0, d, Answers(d))
    <3>1. Len(got[d]) \in Nat /\ L \in Nat /\ l \in Nat /\ ready \in Nat /\ a \in Nat
          /\ Grows(Batches, new, L, l, ready, c, a)
      BY <1>3, <1>8, <1>15, <1>16, <1>17
    <3> DEFINE h == got[d]
               k == Answers(d)
    <3>2. Len(h) \in Nat /\ FlowsOneByOne(h, Batches, 0, d, k) /\ d # c
      BY <1>17, <1>19
    <3> HIDE DEF h, k
    <3>3. FlowsOneByOne(h, new, 0, d, k)
      BY ONLY <3>1, <3>2, OthersFlow
    <3> QED
      BY <3>3 DEF h, k
  <2>4. Flows(got[d], new, 0, d, Answers(d))
    BY <2>3, FlowsIs
  <2>5. Flows(got[d], Batches, 0, d, Answers(d))'
    BY <2>1, <2>2, <2>4 DEF new
  <2>6. /\ Answers(d) \in Nat
        /\ pending[d] \in Seq([op : Nat, kind : Kinds, number : Nat, answer : Int])
        /\ \A i \in DOMAIN pending[d] :
             pending[d][i] =
               [op |-> Answers(d) + i, kind |-> ops[d][Answers(d) + i].kind,
                number |-> ops[d][Answers(d) + i].number, answer |-> ops[d][Answers(d) + i].end]
        /\ \A i \in 1 .. Answers(d) : ops[d][i].end # Open
        /\ got[d] \in Seq(ReadyAnswers)
        /\ \A i \in DOMAIN got[d] : got[d][i].op = i /\ got[d][i].answer = ops[d][i].end
    BY <1>1 DEF ConnectionInv
  <2>7. /\ Answers(d)' \in Nat
        /\ pending'[d] \in Seq([op : Nat, kind : Kinds, number : Nat, answer : Int])
        /\ \A i \in DOMAIN pending'[d] :
             pending'[d][i] =
               [op |-> Answers(d)' + i, kind |-> ops'[d][Answers(d)' + i].kind,
                number |-> ops'[d][Answers(d)' + i].number,
                answer |-> ops'[d][Answers(d)' + i].end]
        /\ \A i \in 1 .. Answers(d)' : ops'[d][i].end # Open
        /\ got'[d] \in Seq(ReadyAnswers)
        /\ \A i \in DOMAIN got'[d] : got'[d][i].op = i /\ got'[d][i].answer = ops'[d][i].end
    BY ONLY <2>1, <2>2, <2>6
  <2> QED
    BY <2>5, <2>7 DEF ConnectionInv
<1>20. (\A b \in DOMAIN Batches : \A q \in DOMAIN Batches[b] : AnswerOK(Batches[b][q]))'
  <2> SUFFICES ASSUME NEW b \in DOMAIN new, NEW q \in DOMAIN new[b]
               PROVE  /\ new[b][q].op \in DOMAIN ops'[new[b][q].client]
                      /\ new[b][q].answer = ops'[new[b][q].client][new[b][q].op].end
                      /\ new[b][q].answer # Open
    BY DEF AnswerOK, new
  <2>1. ASSUME NEW x, x.client \in Issuers, AnswerOK(x)
        PROVE  /\ x.op \in DOMAIN ops'[x.client]
               /\ x.answer = ops'[x.client][x.op].end
               /\ x.answer # Open
    <3>1. x.op \in DOMAIN ops[x.client] /\ x.answer = ops[x.client][x.op].end /\ x.answer # Open
      BY <2>1 DEF AnswerOK
    <3>2. CASE x.client # c
      BY <1>2, <2>1, <3>1, <3>2
    <3>3. CASE x.client = c
      <4>1. x.op \in 1 .. n /\ x.answer = o[x.op].end /\ o[x.op].end # Open
        BY <1>3, <3>1, <3>3 DEF o
      <4> QED
        BY <1>2, <1>4, <3>3, <4>1
    <3> QED
      BY <3>2, <3>3
  <2>2. ASSUME b \in DOMAIN Batches, q \in DOMAIN Batches[b], new[b][q] = Batches[b][q]
        PROVE  /\ new[b][q].op \in DOMAIN ops'[new[b][q].client]
               /\ new[b][q].answer = ops'[new[b][q].client][new[b][q].op].end
               /\ new[b][q].answer # Open
    <3>1. AnswerOK(Batches[b][q]) /\ Batches[b][q].client \in Issuers
      BY <1>1, <2>2, BatchesTyped
    <3> QED
      BY <2>1, <2>2, <3>1
  <2>3. CASE b \in 1 .. L
    <3>1. b \in DOMAIN Batches /\ new[b] = Batches[b]
      <4>1. b \in 1 .. L + 1
        BY <1>16, <2>3
      <4> QED
        BY <1>15, <2>3, <4>1 DEF Grows
    <3> QED
      BY <2>2, <3>1
  <2>4. CASE b = L + 1
    <3>1. q \in 1 .. l + ready
      BY <1>15, <2>4 DEF Grows
    <3>2. CASE q \in 1 .. l
      <4>1. b \in DOMAIN Batches
        BY <1>15 DEF Grows
      <4>2. q \in DOMAIN Batches[b] /\ new[b][q] = Batches[b][q]
        BY <1>15, <2>4, <3>2 DEF Grows
      <4> QED
        BY <2>2, <4>1, <4>2
    <3>3. CASE q \notin 1 .. l
      <4>1. q - l \in 1 .. ready /\ l + (q - l) = q
        BY <1>8, <1>15, <3>1, <3>3
      <4>2. new[b][q] = [client |-> c, op |-> a + (q - l), answer |-> p[q - l].answer]
        BY <1>15, <2>4, <4>1
      <4>3. p[q - l].answer # Open /\ p[q - l].answer = g[a + (q - l)].end
        BY <1>11, <4>1
      <4>4. a + (q - l) \in 1 .. n
        BY <1>8, <1>10, <4>1
      <4> QED
        BY <1>2, <1>4, <4>2, <4>3, <4>4
    <3> QED
      BY <3>2, <3>3
  <2>5. b \in 1 .. L \/ b = L + 1
    <3>1. b \in 1 .. L + 1
      BY <1>15 DEF Grows
    <3> QED
      BY <1>16, <3>1
  <2> QED
    BY <2>3, <2>4, <2>5
<1>21. (answers \in Seq(ReadyAnswers) /\ batches \in Seq(Seq(ReadyAnswers)))'
  BY <1>1, <1>2, <1>15
<1> QED
  BY <1>2, <1>9, <1>18, <1>19, <1>20, <1>21 DEF a

\* What the client's operations are after a reply.
AfterReply(o, k, x) == [i \in DOMAIN o |-> Ended(o[i], k, x)]

LEMMA EndedNone ==
  ASSUME NEW o \in Seq(Operations), NEW k, NEW x, ~Completes(k, x), ~Evicts(k, x)
  PROVE  AfterReply(o, k, x) = o
<1>1. AfterReply(o, k, x) = [i \in DOMAIN o |-> o[i]]
  BY DEF AfterReply, Ended
<1>2. o = [i \in DOMAIN o |-> o[i]]
  OBVIOUS
<1> QED
  BY <1>1, <1>2

\* An operation that ends.
LEMMA EndIs ==
  ASSUME NEW o \in Operations, NEW v \in Int, NEW g, g = [o EXCEPT !.end = v]
  PROVE  /\ g \in Operations /\ g.kind = o.kind /\ g.number = o.number /\ g.floor = o.floor
         /\ g.end = v
  BY DEF Operations

LEMMA EndedAll ==
  ASSUME NEW o \in Seq(Operations), NEW k, NEW x, Evicts(k, x)
  PROVE  FailsAll(o, AfterReply(o, k, x))
<1> DEFINE g == AfterReply(o, k, x)
           n == Len(o)
<1>1. n \in Nat /\ DOMAIN o = 1 .. n /\ \A i \in 1 .. n : o[i] \in Operations
  BY SeqIs
<1>2. DOMAIN g = 1 .. n /\ \A i \in 1 .. n : g[i] = Ended(o[i], k, x)
  BY <1>1 DEF AfterReply
<1>3. ASSUME NEW i \in 1 .. n
      PROVE  /\ g[i] \in Operations /\ g[i].kind = o[i].kind /\ g[i].number = o[i].number
             /\ g[i].floor = o[i].floor
             /\ g[i].end = IF o[i].end = Open THEN Failed ELSE o[i].end
  <2>1. o[i] \in Operations /\ Failed \in Int
    BY <1>1 DEF Failed
  <2>2. CASE o[i].end = Open
    <3>1. g[i] = [o[i] EXCEPT !.end = Failed]
      BY <1>2, <2>2 DEF Ended
    <3> QED
      BY <2>1, <2>2, <3>1, EndIs
  <2>3. CASE o[i].end # Open
    BY <1>2, <2>1, <2>3 DEF Ended
  <2> QED
    BY <2>2, <2>3
<1>4. g \in [1 .. n -> Operations]
  BY <1>2, <1>3 DEF AfterReply
<1> HIDE DEF g, n
<1>5. g \in Seq(Operations) /\ Len(g) = n
  BY <1>1, <1>4, SequenceIs
<1> QED
  BY <1>3, <1>5 DEF FailsAll, n, g

LEMMA EndedOne ==
  ASSUME NEW o \in Seq(Operations), NEW k, NEW x, Completes(k, x), x.result \in Nat, NEW kind,
         kind = (IF x.type = "Executed" THEN "Request" ELSE "Query"),
         NEW t, Only(o, t, kind, x.number)
  PROVE  EndsOne(o, AfterReply(o, k, x), t, x.result)
<1> DEFINE g == AfterReply(o, k, x)
           n == Len(o)
<1>1. n \in Nat /\ DOMAIN o = 1 .. n /\ \A i \in 1 .. n : o[i] \in Operations
  BY SeqIs
<1>2. DOMAIN g = 1 .. n /\ \A i \in 1 .. n : g[i] = Ended(o[i], k, x)
  BY <1>1 DEF AfterReply
<1>3. ~Evicts(k, x)
  BY DEF Evicts, Completes
<1>4. ASSUME NEW i \in 1 .. n
      PROVE  /\ g[i] \in Operations /\ g[i].kind = o[i].kind /\ g[i].number = o[i].number
             /\ g[i].floor = o[i].floor
             /\ g[i].end = IF i = t THEN x.result ELSE o[i].end
  <2>1. o[i] \in Operations /\ x.result \in Int
    BY <1>1
  <2>2. CASE i = t
    <3>1. o[i].end = Open /\ o[i].number = x.number /\ o[i].kind = kind
      BY <2>2 DEF Only
    <3>2. g[i] = [o[i] EXCEPT !.end = x.result]
      BY <1>2, <1>3, <3>1 DEF Ended
    <3> QED
      BY <2>1, <2>2, <3>2, EndIs
  <2>3. CASE i # t
    <3>1. ~(o[i].end = Open /\ o[i].number = x.number /\ o[i].kind = kind)
      BY <1>1, <2>3 DEF Only
    <3>2. g[i] = o[i]
      BY <1>2, <1>3, <3>1 DEF Ended
    <3> QED
      BY <2>1, <2>3, <3>2
  <2> QED
    BY <2>2, <2>3
<1>5. g \in [1 .. n -> Operations]
  BY <1>2, <1>4 DEF AfterReply
<1> HIDE DEF g, n
<1>6. g \in Seq(Operations) /\ Len(g) = n
  BY <1>1, <1>5, SequenceIs
<1> QED
  BY <1>4, <1>6 DEF EndsOne, n, g

LEMMA PendingMirrors ==
  ASSUME IInv, NEW c \in Issuers
  PROVE  Mirrors(pending[c], ops[c], Answers(c))
<1> DEFINE p == pending[c]
           a == Answers(c)
           n == Len(ops[c])
           m == Len(p)
<1>1. n \in Nat /\ m \in Nat /\ DOMAIN p = 1 .. m /\ a \in Nat /\ a = n - m
  BY CommandsAre
<1>2. /\ p \in Seq([op : Nat, kind : Kinds, number : Nat, answer : Int])
      /\ \A i \in DOMAIN p :
           p[i] = [op |-> a + i, kind |-> ops[c][a + i].kind, number |-> ops[c][a + i].number,
                   answer |-> ops[c][a + i].end]
  BY DEF IInv, IssuerInv, ConnectionInv
<1> HIDE DEF p, a, n, m
<1>3. m = n - a
  BY <1>1
<1> QED
  BY <1>1, <1>2, <1>3 DEF Mirrors, p, a, n, m

\* The answers at the front of p that are ready.
Ready(p) ==
  LET waiting == {i \in DOMAIN p : p[i].answer = Open}
  IN  IF waiting = {} THEN Len(p) ELSE Min(waiting) - 1

LEMMA ReadyIs ==
  ASSUME NEW S, NEW p \in Seq(S)
  PROVE  /\ Ready(p) \in 0 .. Len(p) /\ \A i \in 1 .. Ready(p) : p[i].answer # Open
         /\ (\A i \in 1 .. Len(p) : p[i].answer # Open) => Ready(p) = Len(p)
<1> DEFINE m == Len(p)
           waiting == {i \in DOMAIN p : p[i].answer = Open}
<1>1. m \in Nat /\ DOMAIN p = 1 .. m
  BY SeqIs
<1>2. CASE waiting = {}
  <2>1. Ready(p) = m
    BY <1>2 DEF Ready
  <2>2. \A i \in 1 .. m : p[i].answer # Open
    BY <1>1, <1>2
  <2> HIDE DEF m
  <2>3. m \in 0 .. m
    BY <1>1
  <2> QED
    BY <2>1, <2>2, <2>3 DEF m
<1>3. CASE waiting # {}
  <2>1. Ready(p) = Min(waiting) - 1
    BY <1>3 DEF Ready
  <2>2. waiting \in SUBSET Nat
    BY <1>1
  <2>3. Min(waiting) \in waiting /\ \A i \in waiting : Min(waiting) <= i
    BY <1>3, <2>2, MinIsLeast
  <2> DEFINE f == Min(waiting)
  <2>4. f \in 1 .. m /\ p[f].answer = Open
    BY <1>1, <2>3
  <2>5. \A i \in 1 .. m : p[i].answer = Open => f <= i
    BY <1>1, <2>3
  <2> HIDE DEF f, m, waiting
  <2>6. f - 1 \in 0 .. m /\ \A i \in 1 .. f - 1 : i \in 1 .. m /\ ~(f <= i)
    BY <1>1, <2>4
  <2> QED
    BY <2>1, <2>4, <2>5, <2>6 DEF f, m
<1> QED
  BY <1>2, <1>3

\* The connection and the client agree on what an eviction fails.
LEMMA MirrorsFailed ==
  ASSUME NEW o \in Seq(Operations), NEW g, FailsAll(o, g), NEW a \in Nat, NEW q, Mirrors(q, o, a),
         NEW k, NEW x, Evicts(k, x), NEW p, p = AnsweredBy(q, k, x)
  PROVE  Mirrors(p, g, a) /\ \A i \in 1 .. Len(p) : p[i].answer # Open
<1> DEFINE P == [op : Nat, kind : Kinds, number : Nat, answer : Int]
           n == Len(o)
           m == Len(q)
<1>1. /\ q \in Seq(P) /\ m = n - a
      /\ \A i \in 1 .. m :
           q[i] = [op |-> a + i, kind |-> o[a + i].kind, number |-> o[a + i].number,
                   answer |-> o[a + i].end]
  BY DEF Mirrors
<1>2. n \in Nat /\ m \in Nat /\ DOMAIN q = 1 .. m /\ \A i \in 1 .. m : q[i] \in P
  BY <1>1, SeqIs
<1>3. p = [i \in DOMAIN q |-> IF q[i].answer = Open THEN [q[i] EXCEPT !.answer = Failed] ELSE q[i]]
  BY DEF AnsweredBy
<1>4. /\ Len(g) = n
      /\ \A i \in 1 .. n : /\ g[i].kind = o[i].kind /\ g[i].number = o[i].number
                           /\ g[i].end = IF o[i].end = Open THEN Failed ELSE o[i].end
  BY DEF FailsAll
<1> HIDE DEF n, m, P
<1>5. ASSUME NEW i \in 1 .. m
      PROVE  /\ p[i] \in P /\ p[i].answer # Open
             /\ p[i] = [op |-> a + i, kind |-> g[a + i].kind, number |-> g[a + i].number,
                        answer |-> g[a + i].end]
  <2>1. a + i \in 1 .. n
    BY <1>1, <1>2
  <2>2. q[i] = [op |-> a + i, kind |-> o[a + i].kind, number |-> o[a + i].number,
                answer |-> o[a + i].end] /\ q[i] \in P
    BY <1>1, <1>2
  <2>3. p[i] = IF q[i].answer = Open THEN [q[i] EXCEPT !.answer = Failed] ELSE q[i]
    BY <1>2, <1>3
  <2>4. g[a + i].kind = o[a + i].kind /\ g[a + i].number = o[a + i].number
        /\ g[a + i].end = IF o[a + i].end = Open THEN Failed ELSE o[a + i].end
    BY <1>4, <2>1
  <2>5. CASE o[a + i].end = Open
    <3>1. p[i] = [op |-> a + i, kind |-> o[a + i].kind, number |-> o[a + i].number,
                  answer |-> Failed]
      BY <2>2, <2>3, <2>5
    <3>2. p[i].answer # Open
      BY <3>1 DEF Open, Failed
    <3>3. p[i] \in P
      BY <2>2, <3>1 DEF P, Failed
    <3> QED
      BY <2>4, <2>5, <3>1, <3>2, <3>3
  <2>6. CASE o[a + i].end # Open
    <3>1. p[i] = q[i] /\ q[i].answer # Open
      BY <2>2, <2>3, <2>6
    <3> QED
      BY <2>2, <2>4, <2>6, <3>1
  <2> QED
    BY <2>5, <2>6
<1>6. p \in [1 .. m -> P]
  BY <1>2, <1>3, <1>5
<1>7. p \in Seq(P) /\ Len(p) = m
  BY <1>2, <1>6, SequenceIs
<1> QED
  BY <1>1, <1>4, <1>5, <1>7 DEF Mirrors, P

\* The connection and the client agree on what a reply completes, if the numbers
\* after the first a are different.
LEMMA MirrorsCompleted ==
  ASSUME NEW o \in Seq(Operations), NEW a \in Nat, NEW q, Mirrors(q, o, a),
         NEW k, NEW x, Completes(k, x), x.result \in Nat, NEW kind,
         kind = (IF x.type = "Executed" THEN "Request" ELSE "Query"),
         NEW t \in 1 .. Len(o), t > a, o[t].kind = kind, o[t].number = x.number,
         \A i \in a + 1 .. Len(o) : o[i].kind = kind /\ o[i].number = x.number => i = t,
         NEW g, EndsOne(o, g, t, x.result), NEW p, p = AnsweredBy(q, k, x)
  PROVE  Mirrors(p, g, a)
<1> DEFINE P == [op : Nat, kind : Kinds, number : Nat, answer : Int]
           n == Len(o)
           m == Len(q)
           s == t - a
           match == {i \in DOMAIN q : q[i].kind = kind /\ q[i].number = x.number}
<1>1. /\ q \in Seq(P) /\ m = n - a
      /\ \A i \in 1 .. m :
           q[i] = [op |-> a + i, kind |-> o[a + i].kind, number |-> o[a + i].number,
                   answer |-> o[a + i].end]
  BY DEF Mirrors
<1>2. n \in Nat /\ m \in Nat /\ DOMAIN q = 1 .. m /\ \A i \in 1 .. m : q[i] \in P
  BY <1>1, SeqIs
<1>3. /\ Len(g) = n
      /\ \A i \in 1 .. n : /\ g[i].kind = o[i].kind /\ g[i].number = o[i].number
                           /\ g[i].end = IF i = t THEN x.result ELSE o[i].end
  BY DEF EndsOne
<1>4. t \in 1 .. n /\ \A i \in a + 1 .. n : o[i].kind = kind /\ o[i].number = x.number => i = t
  OBVIOUS
<1>5. ~Evicts(k, x)
  BY DEF Evicts, Completes
<1>6. p = IF match = {} THEN q ELSE [q EXCEPT ![Min(match)] = [@ EXCEPT !.answer = x.result]]
  BY <1>5 DEF AnsweredBy
<1> HIDE DEF n, m, P
<1>7. s \in 1 .. m /\ a + s = t /\ s \in Nat
  BY <1>1, <1>2, <1>4
<1>8. \A i \in 1 .. m : a + i \in a + 1 .. n /\ a + i \in 1 .. n /\ (a + i = t <=> i = s)
  BY <1>1, <1>2, <1>4
<1> HIDE DEF s
<1>9. match = {s}
  <2>1. s \in match
    <3>1. q[s] = [op |-> a + s, kind |-> o[a + s].kind, number |-> o[a + s].number,
                  answer |-> o[a + s].end]
      BY <1>1, <1>7
    <3>2. q[s].kind = kind /\ q[s].number = x.number
      BY <1>7, <3>1
    <3> QED
      BY <1>2, <1>7, <3>2
  <2>2. ASSUME NEW i \in match PROVE i = s
    <3>1. i \in 1 .. m /\ o[a + i].kind = kind /\ o[a + i].number = x.number
      BY <1>1, <1>2
    <3> QED
      BY <1>4, <1>8, <3>1
  <2> QED
    BY <2>1, <2>2
<1>10. Min(match) = s
  <2>1. Min({s}) \in {s}
    BY <1>7, MinIsLeast
  <2> QED
    BY <1>9, <2>1
<1>11. p = [q EXCEPT ![s] = [@ EXCEPT !.answer = x.result]]
  BY <1>6, <1>9, <1>10
<1>12. ASSUME NEW i \in 1 .. m
       PROVE  /\ p[i] \in P
              /\ p[i] = [op |-> a + i, kind |-> g[a + i].kind, number |-> g[a + i].number,
                         answer |-> g[a + i].end]
  <2>1. a + i \in 1 .. n
    BY <1>8
  <2>2. q[i] = [op |-> a + i, kind |-> o[a + i].kind, number |-> o[a + i].number,
                answer |-> o[a + i].end] /\ q[i] \in P
    BY <1>1, <1>2
  <2>3. g[a + i].kind = o[a + i].kind /\ g[a + i].number = o[a + i].number
        /\ g[a + i].end = IF a + i = t THEN x.result ELSE o[a + i].end
    BY <1>3, <2>1
  <2>4. CASE i = s
    <3>1. p[i] = [q[i] EXCEPT !.answer = x.result]
      BY <1>2, <1>7, <1>11, <2>4
    <3>2. p[i] = [op |-> a + i, kind |-> o[a + i].kind, number |-> o[a + i].number,
                  answer |-> x.result]
      BY <2>2, <3>1
    <3>3. p[i] \in P
      BY <2>2, <3>2 DEF P
    <3>4. g[a + i].end = x.result
      BY <1>7, <2>3, <2>4
    <3> QED
      BY <2>3, <3>2, <3>3, <3>4
  <2>5. CASE i # s
    <3>1. p[i] = q[i]
      BY <1>2, <1>11, <2>5
    <3>2. g[a + i].end = o[a + i].end
      BY <1>8, <2>3, <2>5
    <3> QED
      BY <2>2, <2>3, <3>1, <3>2
  <2> QED
    BY <2>4, <2>5
<1>13. p \in [1 .. m -> P]
  <2>1. DOMAIN p = 1 .. m /\ p = [i \in DOMAIN q |-> p[i]]
    BY <1>2, <1>11
  <2> QED
    BY <1>2, <1>12, <2>1
<1>14. p \in Seq(P) /\ Len(p) = m
  BY <1>2, <1>13, SequenceIs
<1> QED
  BY <1>1, <1>3, <1>12, <1>14 DEF Mirrors, P

\* deliver_reply.
LEMMA DeliverKeeps ==
  ASSUME IInv, NEW x \in replies, DeliverReply(x)
  PROVE  IInv'
<1> DEFINE c == x.reply.client
           y == x.reply
           k == clients[c]
           o == ops[c]
           a == Answers(c)
           g == AfterReply(o, k, y)
           p == AnsweredBy(pending[c], k, y)
           ready == Ready(p)
           t == ClientOnReply(k, y, x.view_number)
           kind == IF y.type = "Executed" THEN "Request" ELSE "Query"
<1>1. /\ c \in Issuers /\ x.view_number \in Nat
      /\ y.type \in {"Registered", "Evicted"} => y.session \in Nat \ {0}
  BY DEF IInv, RepliesInv
<1>2. /\ ClientOK(k) /\ k.outbox = {} /\ IssuedInv(o, k)
      /\ \E e \in 0 .. a : EpochInv(o, k, e)
  BY <1>1 DEF IInv, IssuerInv
<1>3. /\ LeaveClient(c, t) /\ ops' = [ops EXCEPT ![c] = g]
      /\ pending' = [pending EXCEPT ![c] = SubSeq(p, ready + 1, Len(p))]
      /\ answers' = answers \o [i \in 1 .. ready |-> [client |-> c, op |-> p[i].op,
                                                      answer |-> p[i].answer]]
      /\ UNCHANGED <<batches, got>>
  BY DEF DeliverReply, ClientReceives, AfterReply, Ready
<1>4. /\ o \in Seq(Operations) /\ Len(o) \in Nat /\ DOMAIN o = 1 .. Len(o)
      /\ \A i \in 1 .. Len(o) : o[i] \in Operations /\ a \in Nat /\ a <= Len(o)
      /\ a \in Nat /\ a <= Len(o)
  BY <1>1, CommandsAre
<1>5. Mirrors(pending[c], o, a)
  BY <1>1, PendingMirrors
<1>6. ASSUME Completes(k, y)
      PROVE  /\ y.number \in Nat /\ y.result \in Nat /\ kind \in Kinds
             /\ \E n : /\ Only(o, n, kind, y.number) /\ n > a
                       /\ EndsOne(o, g, n, y.result) /\ Mirrors(p, g, a)
  <2>1. /\ y.number \in Nat /\ y.result \in Nat /\ kind \in Kinds
        /\ \E n : Only(o, n, kind, y.number) /\ n > a
    BY <1>1, <1>6, CompletedIs
  <2>2. PICK n : Only(o, n, kind, y.number) /\ n > a
    BY <2>1
  <2>3. EndsOne(o, g, n, y.result)
    BY <1>4, <1>6, <2>1, <2>2, EndedOne
  <2> HIDE DEF k, o, a, g, p, kind
  <2>4. n \in 1 .. Len(o) /\ o[n].kind = kind /\ o[n].number = y.number
    BY <1>4, <2>2 DEF Only
  <2>5. ASSUME NEW i \in a + 1 .. Len(o), o[i].kind = kind, o[i].number = y.number
        PROVE  i = n
    <3>1. PICK e \in 0 .. a : EpochInv(o, k, e)
      BY <1>2
    <3>2. i \in e + 1 .. Len(o) /\ n \in e + 1 .. Len(o)
      BY <1>4, <2>2, <2>4
    <3>3. ~(i < n) /\ ~(n < i)
      BY <2>1, <2>4, <2>5, <3>1, <3>2 DEF EpochInv
    <3> QED
      BY <1>4, <3>2, <3>3
  <2>6. kind = (IF y.type = "Executed" THEN "Request" ELSE "Query")
    BY DEF kind
  <2>7. p = AnsweredBy(pending[c], k, y)
    BY DEF p
  <2>8. a \in Nat /\ o \in Seq(Operations)
    BY <1>4
  <2>9. Mirrors(p, g, a)
    BY <1>5, <1>6, <2>1, <2>2, <2>3, <2>4, <2>5, <2>6, <2>7, <2>8, MirrorsCompleted
  <2> QED
    BY <2>1, <2>2, <2>3, <2>9
<1>7. ASSUME Evicts(k, y)
      PROVE  /\ FailsAll(o, g) /\ Mirrors(p, g, a) /\ \A i \in 1 .. Len(p) : p[i].answer # Open
  <2>1. FailsAll(o, g)
    BY <1>4, <1>7, EndedAll
  <2> HIDE DEF g
  <2> QED
    BY <1>4, <1>5, <1>7, <2>1, MirrorsFailed
<1>8. ASSUME ~Completes(k, y), ~Evicts(k, y)
      PROVE  g = o /\ p = pending[c]
  <2>1. g = o
    BY <1>4, <1>8, EndedNone
  <2>2. p = pending[c]
    BY <1>8 DEF AnsweredBy
  <2> QED
    BY <2>1, <2>2
<1> HIDE DEF k, o, a, g, p, t, kind
<1>9. Mirrors(p, g, a) /\ EndsSome(o, g)
  <2>1. CASE Completes(k, y)
    <3>1. PICK n : Only(o, n, kind, y.number) /\ EndsOne(o, g, n, y.result) /\ Mirrors(p, g, a)
      BY <1>6, <2>1
    <3>2. \A i \in 1 .. Len(o) : o[i].end # Open => i # n
      BY <3>1 DEF Only
    <3> QED
      BY <3>1, <3>2 DEF EndsOne, EndsSome
  <2>2. CASE Evicts(k, y)
    BY <1>7, <2>2 DEF FailsAll, EndsSome
  <2>3. CASE ~Completes(k, y) /\ ~Evicts(k, y)
    BY <1>4, <1>5, <1>8, <2>3 DEF EndsSome
  <2> QED
    BY <2>1, <2>2, <2>3
<1>10. /\ ready \in 0 .. Len(p) /\ \A i \in 1 .. ready : p[i].answer # Open
       /\ (\A i \in 1 .. Len(p) : p[i].answer # Open) => ready = Len(p)
  <2>1. p \in Seq([op : Nat, kind : Kinds, number : Nat, answer : Int])
    BY <1>9 DEF Mirrors
  <2> QED
    BY <2>1, ReadyIs
<1> HIDE DEF ready
<1>11. /\ Answers(c)' = a + ready /\ \A d \in Issuers : ConnectionInv(d)'
       /\ (answers \in Seq(ReadyAnswers) /\ batches \in Seq(Seq(ReadyAnswers)))'
       /\ (\A b \in DOMAIN Batches : \A q \in DOMAIN Batches[b] : AnswerOK(Batches[b][q]))'
       /\ DOMAIN ops' = Issuers /\ DOMAIN pending' = Issuers /\ DOMAIN got' = Issuers
       /\ ops'[c] = g
       /\ \A d \in Issuers \ {c} : ops'[d] = ops[d] /\ pending'[d] = pending[d]
  BY <1>1, <1>3, <1>9, <1>10, Delivered DEF o, a
<1>12. Answers(c)' \in Nat /\ a <= Answers(c)' /\ ConnectionInv(c)'
  <2>1. ready \in Nat
    BY <1>9, <1>10, SeqIs DEF Mirrors
  <2> QED
    BY <1>1, <1>4, <1>11, <2>1
<1>13. IssuerInv(c)' /\ Leaves(k, t, g)
  <2>1. CASE Completes(k, y)
    <3>1. PICK n : Only(o, n, kind, y.number) /\ n > a /\ EndsOne(o, g, n, y.result)
      BY <1>6, <2>1
    <3>2. EndsOne(ops[c], ops'[c], n, y.result)
      BY <1>11, <3>1 DEF o
    <3> QED
      BY <1>1, <1>3, <1>11, <1>12, <2>1, <3>1, <3>2, CompletedIssuer DEF k, o, a, t, kind
  <2>2. CASE Evicts(k, y)
    <3>1. FailsAll(ops[c], ops'[c])
      BY <1>7, <1>11, <2>2 DEF o
    <3>2. Answers(c)' = Len(ops[c])
      <4>1. ready = Len(p)
        BY <1>7, <1>10, <2>2
      <4>2. Len(p) = Len(g) - a /\ Len(g) = Len(o)
        BY <1>9 DEF Mirrors, EndsSome
      <4> DEFINE n == Len(o)
      <4>3. n \in Nat /\ a \in Nat /\ Answers(c)' = a + (n - a)
        BY <1>4, <1>11, <4>1, <4>2
      <4> HIDE DEF n
      <4>4. Answers(c)' = n
        BY <4>3
      <4> QED
        BY <4>4 DEF n, o
    <3> QED
      BY <1>1, <1>3, <1>11, <1>12, <2>2, <3>1, <3>2, EvictedIssuer DEF k, t
  <2>3. CASE ~Completes(k, y) /\ ~Evicts(k, y)
    <3>1. g = o /\ ops'[c] = ops[c]
      BY <1>8, <1>11, <2>3 DEF o
    <3>2. y.type = "Registered" => y.session \in Nat \ {0}
      BY <1>1
    <3>3. /\ Leaves(k, t, o) /\ SameOrNew(k, t)
          /\ \A z : NextNumber(t, z) = NextNumber(k, z)
      BY <1>1, <1>2, <2>3, <3>2, ReplyEndsNothing DEF t
    <3>4. IssuerInv(c)'
      BY <1>1, <1>3, <1>12, <3>1, <3>3, SameOps DEF k, o, a
    <3> QED
      BY <3>1, <3>3, <3>4
  <2> QED
    BY <2>1, <2>2, <2>3
<1>14. /\ MessagesInv' /\ LogInv' /\ RepliesInv' /\ PrimaryInv(primary)' /\ CommittedInv'
       /\ DOMAIN clients' = Issuers /\ \A d \in Issuers \ {c} : clients'[d] = clients[d]
       /\ UNCHANGED <<primary, replies, committed>>
  BY <1>1, <1>3, <1>13, ClientLeft DEF k
<1>15. \A d \in Issuers : IssuerInv(d)'
  <2> TAKE d \in Issuers
  <2>1. CASE d # c
    <3>1. IssuerInv(d) /\ ConnectionInv(d)'
      BY <1>11 DEF IInv
    <3>2. clients'[d] = clients[d] /\ ops'[d] = ops[d] /\ pending'[d] = pending[d]
      BY <1>11, <1>14, <2>1
    <3> QED
      BY <1>14, <3>1, <3>2, SameIssuer
  <2> QED
    BY <1>13, <2>1
<1> QED
  BY <1>11, <1>14, <1>15 DEF IInv

-----------------------------------------------------------------------------
(* The invariant *)

LEMMA NewClientOK ==
  /\ ClientOK(NewClient) /\ NewClient.outbox = {}
  /\ \A kind \in Kinds : NextNumber(NewClient, kind) = 1 /\ Unsent(NewClient, kind) = 1
<1> DEFINE k == NewClient
<1>1. /\ DOMAIN k = ClientFields /\ k.view_number = 0 /\ k.session = 0 /\ k.evicted = 0
      /\ k.registering = FALSE /\ k.requests = <<>> /\ k.queries = <<>> /\ k.queued = <<>>
      /\ k.outbox = {} /\ k.next_request_number = 1 /\ k.next_query_number = 1
  BY DEF NewClient, ClientFields
<1> HIDE DEF k
<1>2. ASSUME NEW kind \in Kinds
      PROVE  /\ NextNumber(k, kind) = 1 /\ Unsent(k, kind) = 1 /\ QueueOK(k, kind)
  <2>1. NextNumber(k, kind) = 1 /\ Window(k, kind) = <<>>
    BY <1>1 DEF NextNumber, Window
  <2>2. DOMAIN k.queued = {}
    BY <1>1
  <2>3. QueuedNumbers(k, kind) = {}
    BY <2>2 DEF QueuedNumbers
  <2>4. 1 .. 0 = {}
    OBVIOUS
  <2>5. Unsent(k, kind) = 1
    BY <2>1, <2>3, <2>4, UnsentIs
  <2>6. WindowOK(<<>>, 1)
    BY DEF WindowOK
  <2> QED
    BY <2>1, <2>2, <2>3, <2>4, <2>5, <2>6 DEF QueueOK
<1>3. k.queued \in Seq([kind : Kinds, number : Nat]) /\ Len(k.requests) <= InFlightMax
  <2>1. Len(k.requests) = 0
    BY <1>1
  <2> QED
    BY <1>1, <2>1, ConfigAssumption
<1>4. k.view_number \in Nat /\ k.session \in Nat /\ k.evicted \in Nat /\ k.registering \in BOOLEAN
  <2>1. k.view_number \in Nat /\ k.session \in Nat /\ k.evicted \in Nat
    BY <1>1
  <2>2. k.registering \in BOOLEAN
    BY <1>1, Zenon
  <2> QED
    BY <2>1, <2>2
<1>5. ClientOK(k)
  BY <1>1, <1>2, <1>3, <1>4, Zenon DEF ClientOK
<1> QED
  BY <1>1, <1>2, <1>5 DEF k

LEMMA NewIssuer ==
  ASSUME NEW c \in Issuers, clients[c] = NewClient, ops[c] = <<>>, pending[c] = <<>>,
         got[c] = <<>>, answers = <<>>, batches = <<>>, primary.queries = <<>>, replies = {}
  PROVE  IssuerInv(c)
<1> DEFINE k == clients[c]
           o == ops[c]
<1>1. /\ ClientOK(k) /\ k.outbox = {} /\ k.queued = <<>> /\ k.requests = <<>> /\ k.queries = <<>>
  BY NewClientOK DEF NewClient
<1>2. /\ o \in Seq(Operations) /\ Len(o) = 0 /\ DOMAIN o = {} /\ Len(k.queued) = 0
      /\ DOMAIN k.queued = {} /\ 1 .. 0 = {}
  BY <1>1
<1>3. SentUpTo(o, k) = 0
  BY <1>2 DEF SentUpTo
<1>4. \A kind \in Kinds : DOMAIN Window(k, kind) = {}
  BY <1>1 DEF Window
<1> HIDE DEF k, o
<1>5. IssuedInv(o, k)
  BY <1>2, <1>3, <1>4 DEF IssuedInv
<1>6. /\ DoneInv(o, c) /\ InOrderOf(o) /\ LoggedInv(o, k, c)
  BY <1>2 DEF DoneInv, InOrderOf, LoggedInv
<1>7. QueriedInv(o, k, c)
  BY <1>2 DEF QueriedInv
<1>8. Answers(c) = 0
  BY DEF Answers
<1>9. EpochInv(o, k, 0)
  <2>1. 0 + 1 .. Len(o) = {}
    BY <1>2
  <2> QED
    BY <1>2, <2>1 DEF EpochInv
<1>10. Flows(got[c], Batches, 0, c, 0)
  <2>1. Batches = <<<<>>>>
    BY DEF Batches
  <2>2. DOMAIN Batches = {1} /\ DOMAIN Batches[1] = {}
    BY <2>1
  <2>3. \A b, q : ~Way(Batches, 0, c, b, q)
    BY <2>2 DEF Way
  <2>4. Len(got[c]) = 0 /\ 0 + 1 .. 0 = {}
    OBVIOUS
  <2>5. FlowsOneByOne(got[c], Batches, 0, c, 0)
    BY <2>3, <2>4 DEF FlowsOneByOne
  <2> QED
    BY <2>5, FlowsIs
<1>11. ConnectionInv(c)
  <2>1. /\ pending[c] \in Seq([op : Nat, kind : Kinds, number : Nat, answer : Int])
        /\ DOMAIN pending[c] = {} /\ got[c] \in Seq(ReadyAnswers) /\ DOMAIN got[c] = {}
    OBVIOUS
  <2>2. 0 \in Nat
    OBVIOUS
  <2> QED
    BY <1>2, <1>8, <1>10, <2>1, <2>2 DEF ConnectionInv
<1>12. \E e \in 0 .. Answers(c) : EpochInv(o, k, e)
  <2>1. 0 \in 0 .. Answers(c)
    BY <1>8
  <2> QED
    BY <1>9, <2>1
<1> QED
  BY <1>1, <1>5, <1>6, <1>7, <1>11, <1>12 DEF IssuerInv, k, o

LEMMA InitInv ==
  ASSUME ConnectionsInit
  PROVE  IInv
<1> DEFINE r == New(PrimaryOf(0))
<1>1. /\ clients = [c \in Issuers |-> NewClient] /\ primary = r /\ net = {} /\ replies = {}
      /\ committed = NoEntries /\ ops = [c \in Issuers |-> <<>>]
      /\ pending = [c \in Issuers |-> <<>>] /\ got = [c \in Issuers |-> <<>>]
      /\ answers = <<>> /\ batches = <<>>
  BY DEF ConnectionsInit, Init
<1>2. /\ DOMAIN r = Fields /\ r.view_number = 0 /\ r.op_number = 0
      /\ r.log_start = 0 /\ r.log = NoEntries /\ r.applied = 0 /\ r.sm = NoEntries
      /\ r.acked = [q \in ReplicaID |-> 0] /\ r.view_start_op = 0 /\ r.status = "Normal"
      /\ r.queries = <<>> /\ r.ok /\ r.commit_number = 0
      /\ r.replies = {} /\ r.round = 0 /\ r.log_changed_from = 0 /\ r.durable = 0
      /\ r.id = PrimaryOf(0) /\ r.outstanding = NoWrite
  BY DEF New, Fields
<1> HIDE DEF r
<1>3. PrimaryInv(primary)
  <2>1. r.sm = [i \in 1 .. 0 |-> r.log[i]]
    BY <1>2 DEF NoEntries
  <2>2. r.acked \in [ReplicaID -> 0 .. 0] /\ r.queries \in Seq(WaitingQueries)
    BY <1>2
  <2>3. NoEntries \in [1 .. 0 -> Entries] /\ 1 .. 0 = {}
    BY DEF NoEntries
  <2>4. OrderedLog(r.log, 0)
    BY <1>2, <2>3 DEF OrderedLog
  <2>5. Serving(r) /\ Synced(r)
    BY <1>2, <2>1, <2>2, <2>4 DEF Serving, Committing, Synced
  <2> QED
    BY <1>1, <1>2, <2>5 DEF PrimaryInv, NoWrite
<1>4. Known = 0
  <2>1. DOMAIN committed = {}
    BY <1>1 DEF NoEntries
  <2> QED
    BY <2>1, FS_EmptySet DEF Known
<1>5. CommittedInv
  <2>1. committed = [i \in 1 .. 0 |-> primary.log[i]]
    BY <1>1 DEF NoEntries
  <2>2. 0 \in primary.commit_number .. primary.op_number
        /\ 0 <= Higher(primary.commit_number, primary.view_start_op)
    BY <1>1, <1>2 DEF Higher
  <2> QED
    BY <1>4, <2>1, <2>2 DEF CommittedInv
<1>6. /\ DOMAIN clients = Issuers /\ DOMAIN ops = Issuers
      /\ DOMAIN pending = Issuers /\ DOMAIN got = Issuers
  BY <1>1
<1>7. \A c \in Issuers : IssuerInv(c)
  <2> TAKE c \in Issuers
  <2>1. clients[c] = NewClient /\ ops[c] = <<>> /\ pending[c] = <<>> /\ got[c] = <<>>
    BY <1>1
  <2> QED
    BY <1>1, <1>2, <2>1, NewIssuer
<1>8. MessagesInv /\ RepliesInv
  BY <1>1 DEF MessagesInv, RepliesInv
<1>9. LogInv
  <2>1. 1 .. primary.op_number = {}
    BY <1>1, <1>2
  <2> QED
    BY <2>1 DEF LogInv
<1>10. answers \in Seq(ReadyAnswers) /\ batches \in Seq(Seq(ReadyAnswers))
  BY <1>1
<1>11. \A b \in DOMAIN Batches : \A p \in DOMAIN Batches[b] : AnswerOK(Batches[b][p])
  <2>1. Batches = <<<<>>>>
    BY <1>1 DEF Batches
  <2>2. DOMAIN Batches = {1} /\ DOMAIN Batches[1] = {}
    BY <2>1
  <2> QED
    BY <2>2
<1> QED
  BY <1>3, <1>5, <1>6, <1>7, <1>8, <1>9, <1>10, <1>11 DEF IInv

LEMMA NextKeeps ==
  ASSUME IInv, [ConnectionsNext]_allvars
  PROVE  IInv'
<1>1. CASE \E x \in replies : DeliverReply(x)
  BY <1>1, DeliverKeeps
<1>2. CASE HandOut
  BY <1>2, HandOutKeeps
<1>3. CASE AnswererGives
  BY <1>3, AnswererKeeps
<1>4. CASE \E c \in Issuers : CommandSet(c) \/ CommandGet(c)
  BY <1>4, CommandsKeep
<1>5. CASE (\E c \in Issuers : ClientIdles(c)) /\ UNCHANGED connections
  BY <1>5, IdleKeeps
<1>6. CASE /\ UNCHANGED connections
           /\ PrimaryReceives \/ OthersRegister \/ BackupAcks \/ BackupConfirms \/ ViewStarts
  BY <1>6, PrimaryKeeps
<1>7. CASE Lose /\ UNCHANGED connections
  BY <1>7, LoseKeeps
<1>8. CASE UNCHANGED allvars
  <2>1. /\ UNCHANGED <<clients, primary, net, replies, committed, ops>>
        /\ UNCHANGED <<pending, answers, batches, got>>
    BY <1>8 DEF allvars, vars, connections
  <2>2. /\ Batches' = Batches /\ Known' = Known /\ \A c : Answers(c)' = Answers(c)
    BY <2>1 DEF Batches, Known, Answers
  <2>3. \A c \in Issuers : IssuerInv(c)'
    <3> TAKE c \in Issuers
    <3>1. IssuerInv(c) /\ ConnectionInv(c)
      BY DEF IInv, IssuerInv
    <3>2. ConnectionInv(c)'
      BY <2>1, <3>1, SameConnection
    <3> QED
      BY <2>1, <3>1, <3>2, SameIssuer
  <2>4. CommittedInv' /\ MessagesInv' /\ LogInv' /\ RepliesInv' /\ PrimaryInv(primary)'
    BY <2>1, <2>2 DEF IInv, CommittedInv, MessagesInv, LogInv, RepliesInv
  <2>5. (\A b \in DOMAIN Batches : \A p \in DOMAIN Batches[b] : AnswerOK(Batches[b][p]))'
    BY <2>1, <2>2 DEF IInv, AnswerOK
  <2> QED
    BY <2>1, <2>3, <2>4, <2>5 DEF IInv
<1> QED
  BY <1>1, <1>2, <1>3, <1>4, <1>5, <1>6, <1>7, <1>8 DEF ConnectionsNext

-----------------------------------------------------------------------------
(* What the invariant says *)

LEMMA OnceFromInv ==
  ASSUME IInv
  PROVE  AtMostOnce
<1> SUFFICES ASSUME NEW i \in DOMAIN committed, NEW j \in DOMAIN committed,
                    i < j, committed[i].session # 0,
                    committed[i].client = committed[j].client,
                    committed[i].session = committed[j].session,
                    committed[i].number = committed[j].number,
                    InSession(ClientTable(committed, i - 1), committed[i]),
                    InSession(ClientTable(committed, j - 1), committed[j])
             PROVE  FALSE
  BY DEF AtMostOnce
<1> DEFINE c == committed[i].client
           s == committed[i].session
           n == committed[i].number
<1>1. /\ Known \in Nat /\ OrderedLog(committed, Known) /\ i \in 1 .. Known /\ j \in 1 .. Known
  BY KnownOps
<1>2. c \in Client
  BY <1>1 DEF OrderedLog, Entries
<1>3. ExecutedAt(committed, i, c, s, n) /\ ExecutedAt(committed, j, c, s, n)
  BY DEF ExecutedAt, IsRequest, TableBefore
<1> HIDE DEF c, s, n
<1>4. n \in Nat /\ n < n
  BY <1>1, <1>2, <1>3, ExecutedInOrder
<1> QED
  BY <1>4

LEMMA EffectFromInv ==
  ASSUME IInv
  PROVE  TakesEffect
<1> SUFFICES ASSUME NEW c \in Issuers, NEW i \in DOMAIN ops[c], Done(ops[c][i])
             PROVE  LET o == ops[c][i] IN
                    /\ o.kind = "Request" => /\ o.end \in DOMAIN committed /\ o.end > o.floor
                                             /\ committed[o.end].client = c
                                             /\ committed[o.end].number = o.number
                    /\ o.kind = "Query" => o.end >= o.floor
  BY DEF TakesEffect, Done
<1> DEFINE o == ops[c][i]
<1>1. DoneInv(ops[c], c)
  BY DEF IInv, IssuerInv
<1>2. o.kind = "Request" =>
        /\ o.end \in DOMAIN committed /\ o.end > o.floor
        /\ ExecutedAt(committed, o.end, c, committed[o.end].session, o.number)
  BY <1>1 DEF DoneInv
<1>3. o.kind = "Query" => o.end \in o.floor .. Known
  BY <1>1 DEF DoneInv
<1>4. o \in Operations /\ Known \in Nat
  BY CommandsAre, KnownOps
<1>5. o.floor \in Nat
  BY <1>4 DEF Operations
<1> HIDE DEF o
<1>6. o.kind = "Query" => o.end >= o.floor
  BY <1>3, <1>4, <1>5
<1> QED
  BY <1>2, <1>6 DEF ExecutedAt, IsRequest, o

LEMMA OrderFromInv ==
  ASSUME IInv
  PROVE  ProgramOrder
<1> SUFFICES ASSUME NEW c \in Issuers, NEW i \in DOMAIN ops[c], NEW j \in DOMAIN ops[c],
                    i < j, {ops[c][i].end, ops[c][j].end} \intersect {Open, Failed} = {}
             PROVE  /\ ops[c][j].kind = "Request" => ops[c][i].end < ops[c][j].end
                    /\ ops[c][i].kind = "Request" /\ ops[c][j].kind = "Query" =>
                         ops[c][i].end <= ops[c][j].end
  BY DEF ProgramOrder
<1>1. InOrderOf(ops[c])
  BY DEF IInv, IssuerInv
<1>2. Done(ops[c][i]) /\ Done(ops[c][j])
  BY DEF Done
<1> QED
  BY <1>1, <1>2 DEF InOrderOf

LEMMA AnswerableFromInv ==
  ASSUME IInv
  PROVE  InFlightAnswerable
<1> DEFINE table == ClientTable(committed, Known)
<1> SUFFICES ASSUME NEW c \in Issuers, clients[c].session # 0,
                    table[c].session = clients[c].session,
                    NEW i \in DOMAIN clients[c].requests,
                    clients[c].requests[i].number <= table[c].number
             PROVE  table[c].number - clients[c].requests[i].number < Len(table[c].replies)
  BY DEF InFlightAnswerable, Known
<1> DEFINE k == clients[c]
           w == k.requests
           b == Unsent(k, "Request")
           old == OldestRequest(k)
           s == k.session
<1>1. Known \in Nat /\ OrderedLog(committed, Known) /\ Known <= primary.op_number
      /\ primary.op_number \in Nat /\ \A n \in 1 .. Known : committed[n] = primary.log[n]
  BY KnownOps
<1>2. ClientOK(k)
  BY DEF IInv, IssuerInv
<1>3. s \in Nat \ {0} /\ k.evicted \in Nat /\ s > k.evicted
  BY <1>2 DEF ClientOK
<1>4. WindowOK(w, b) /\ b \in Nat
  <2>1. QueueOK(k, "Request")
    BY <1>2 DEF ClientOK, Kinds
  <2>2. NextNumber(k, "Request") \in Nat /\ b \in 1 .. NextNumber(k, "Request")
    BY <2>1 DEF QueueOK
  <2>3. b \in Nat
    BY <2>2
  <2> QED
    BY <2>1, <2>3 DEF QueueOK, Window
<1>5. /\ Len(w) \in Nat /\ DOMAIN w = 1 .. Len(w) /\ Len(w) < b
      /\ \A p \in 1 .. Len(w) : w[p].number = b - 1 - Len(w) + p
      /\ Oldest(w, b) = b - Len(w)
  BY <1>4, WindowIs
<1>6. old = b - Len(w)
  BY <1>5 DEF OldestRequest
<1>7. /\ i \in 1 .. Len(w) /\ w[i].number = b - 1 - Len(w) + i
  BY <1>5
<1>8. c \in Client /\ table[c] \in Records
  <2>1. c \in Client
    BY ClientsAssumption
  <2>2. Known \in 0 .. Known
    BY <1>1
  <2> QED
    BY <1>1, <2>1, <2>2, OrderedLogTyped, TableTyped
<1>9. table[c].number \in Nat /\ Len(table[c].replies) \in Nat
  BY <1>8 DEF Records
<1>10. s = table[c].session /\ w[i].number <= table[c].number
  OBVIOUS
<1>11. ASSUME NEW n \in 1 .. Known, committed[n].client = c, committed[n].session = s
       PROVE  committed[n].answered < old /\ committed[n].number < old + InFlightMax
  <2>1. n \in 1 .. primary.op_number /\ committed[n] = primary.log[n]
    BY <1>1
  <2>2. LogInv
    BY DEF IInv
  <2>3. SentRequest(k, s, committed[n].number, committed[n].answered)
    BY <1>3, <1>11, <2>1, <2>2 DEF LogInv
  <2>4. ~(s <= k.evicted)
    BY <1>3
  <2> QED
    BY <2>3, <2>4 DEF SentRequest
<1> DEFINE record == table[c]
<1> HIDE DEF k, w, b, old, s, record, Known
<1>12. old \in Nat \ {0} /\ w[i].number \in Nat /\ old <= w[i].number
  <2> DEFINE m == Len(w)
             v == w[i].number
  <2>1. b \in Nat /\ m \in Nat /\ m < b /\ old = b - m /\ i \in 1 .. m /\ v = b - 1 - m + i
    BY <1>4, <1>5, <1>6, <1>7
  <2> HIDE DEF m, v
  <2>2. old \in Nat \ {0} /\ v \in Nat /\ old <= v
    BY <2>1
  <2> QED
    BY <2>2 DEF v
<1>13. old <= record.number
  BY <1>9, <1>10, <1>12 DEF record
<1>14. record.number - old < Len(record.replies)
  <2>1. Known \in 0 .. Known
    BY <1>1
  <2> QED
    BY <1>1, <1>3, <1>8, <1>10, <1>11, <1>12, <1>13, <2>1, ResultsAnswerable DEF record
<1>15. record.number - w[i].number < Len(record.replies)
  BY <1>9, <1>12, <1>14 DEF record
<1> QED
  BY <1>15 DEF record, w, k

LEMMA AnswersFromInv ==
  ASSUME IInv
  PROVE  AnswersInOrder
  BY DEF IInv, IssuerInv, ConnectionInv, AnswersInOrder

-----------------------------------------------------------------------------
(* The theorems *)

\* The invariant holds: a client's windows, its queue and its connection stay in
\* step with what the primary logs, executes and answers.
THEOREM ConnectionsInvariant == ConnectionsSpec => []IInv
<1>1. ConnectionsInit => IInv
  BY InitInv
<1>2. IInv /\ [ConnectionsNext]_allvars => IInv'
  BY NextKeeps
<1> QED
  BY <1>1, <1>2, PTL DEF ConnectionsSpec

\* No request that a client sent executes twice in a session, however often
\* on_idle sends it and whatever primaries it reaches.
THEOREM ExecutesOnce == ConnectionsSpec => []AtMostOnce
<1>1. IInv => AtMostOnce
  BY OnceFromInv
<1> QED
  BY <1>1, ConnectionsInvariant, PTL

\* What on_reply completes took effect after the client issued it: a request as
\* the op its reply names, a query on all that was committed.
THEOREM CompletedTookEffect == ConnectionsSpec => []TakesEffect
<1>1. IInv => TakesEffect
  BY EffectFromInv
<1> QED
  BY <1>1, ConnectionsInvariant, PTL

\* The requests and queries of a client, with several in flight, take effect in
\* the order of its calls to on_request and on_query.
THEOREM EffectsInOrder == ConnectionsSpec => []ProgramOrder
<1>1. IInv => ProgramOrder
  BY OrderFromInv
<1> QED
  BY <1>1, ConnectionsInvariant, PTL

\* The client table keeps the result of every request that its client waits for:
\* what execute drops is what the client said it has.
THEOREM ResultsStay == ConnectionsSpec => []InFlightAnswerable
<1>1. IInv => InFlightAnswerable
  BY AnswerableFromInv
<1> QED
  BY <1>1, ConnectionsInvariant, PTL

\* A connection of the node gets the answers in the order of its commands,
\* whether the event loop or the answerer thread hands them out.
THEOREM AnswersComeInOrder == ConnectionsSpec => []AnswersInOrder
<1>1. IInv => AnswersInOrder
  BY AnswersFromInv
<1> QED
  BY <1>1, ConnectionsInvariant, PTL

=============================================================================
