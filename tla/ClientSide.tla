----------------------------- MODULE ClientSide -----------------------------
(***************************************************************************)
(* The client of src/lib.rs as functions on its state.                     *)
(*                                                                         *)
(* A client is a record with the fields of struct Client.  Operations are  *)
(* known by their numbers; what they do is the state machine's affair.     *)
(* The idle period in which each was last sent is left out, see on_idle.   *)
(* Session 0 is none.                                                      *)
(***************************************************************************)
EXTENDS Config, Sequences, FiniteSets, FiniteSetsExt

\* Client::new
NewClient ==
  [view_number |-> 0, session |-> 0, registering |-> FALSE, evicted |-> 0,
   next_request_number |-> 1, next_query_number |-> 1,
   requests |-> <<>>, queries |-> <<>>,   \* in flight, see InFlight
   queued |-> <<>>, outbox |-> {}]

\* A request or query sent; waits until its reply comes.
InFlight(n) == [number |-> n, waits |-> TRUE]

\* The number of the oldest in flight, or n.
Oldest(in_flight, n) == IF in_flight = <<>> THEN n ELSE in_flight[1].number

ToPrimary(k, m) == [k EXCEPT !.outbox = @ \union {<<PrimaryOf(k.view_number), m>>}]

RegisterMessage == [type |-> "Register"]
RequestMessage(k, n, answered) ==
  [type |-> "Request", session |-> k.session, number |-> n, answered |-> answered]
QueryMessage(n) == [type |-> "Query", number |-> n]

\* send_request
SendRequest(k, n) ==
  ToPrimary([k EXCEPT !.requests = Append(@, InFlight(n))],
            RequestMessage(k, n, Oldest(k.requests, n) - 1))

\* send_query
SendQuery(k, n) ==
  ToPrimary([k EXCEPT !.queries = Append(@, InFlight(n))], QueryMessage(n))

\* request_may_go
RequestMayGo(k, n) == k.queries = <<>> /\ n < Oldest(k.requests, n) + InFlightMax

\* Mutant: a query does not wait for the requests before it.
QueryMayGoAtOnce(k, n) == n < Oldest(k.queries, n) + InFlightMax

\* query_may_go
QueryMayGo(k, n) == k.requests = <<>> /\ n < Oldest(k.queries, n) + InFlightMax

\* Whether the operation queued, or about to be, may be sent.
Sendable(k, o) ==
  IF o.kind = "Request" THEN k.session # 0 /\ RequestMayGo(k, o.number)
                        ELSE QueryMayGo(k, o.number)

SendOp(k, o) == IF o.kind = "Request" THEN SendRequest(k, o.number) ELSE SendQuery(k, o.number)

\* send_queued: from the front of the queue, while the front may go.
SendQueued(k) ==
  LET sent[i \in 0 .. Len(k.queued)] ==
        IF i = 0 THEN k
        ELSE LET s == sent[i - 1]
             IN  IF s.queued # <<>> /\ Sendable(s, s.queued[1])
                 THEN SendOp([s EXCEPT !.queued = Tail(@)], s.queued[1]) ELSE s
  IN  sent[Len(k.queued)]

\* register
ClientRegister(k) ==
  IF k.session # 0 \/ k.registering THEN k
  ELSE ToPrimary([k EXCEPT !.registering = TRUE], RegisterMessage)

\* on_request
ClientOnRequest(k) ==
  LET o == [kind |-> "Request", number |-> k.next_request_number]
      s == [k EXCEPT !.next_request_number = @ + 1]
  IN  IF k.queued = <<>> /\ Sendable(k, o) THEN SendOp(s, o)
      ELSE ClientRegister([s EXCEPT !.queued = Append(@, o)])

\* on_query
ClientOnQuery(k) ==
  LET o == [kind |-> "Query", number |-> k.next_query_number]
      s == [k EXCEPT !.next_query_number = @ + 1]
  IN  IF k.queued = <<>> /\ Sendable(k, o) THEN SendOp(s, o)
      ELSE [s EXCEPT !.queued = Append(@, o)]

\* answer: whether n is in flight without a reply, and what is in flight once it
\* has one.
Awaited(in_flight, n) ==
  LET i == n - Oldest(in_flight, n) + 1
  IN  i \in DOMAIN in_flight /\ in_flight[i].waits

Answered(in_flight, n) ==
  LET i == n - Oldest(in_flight, n) + 1
      left == [in_flight EXCEPT ![i] = [@ EXCEPT !.waits = FALSE]]
      waiting == {j \in DOMAIN left : left[j].waits}
  IN  IF waiting = {} THEN <<>> ELSE SubSeq(left, Min(waiting), Len(left))

\* Whether reply x completes a request or a query.
Completes(k, x) ==
  \/ x.type = "Executed" /\ k.session = x.session /\ Awaited(k.requests, x.number)
  \/ x.type = "Queried" /\ Awaited(k.queries, x.number)

\* Whether reply x ends the session.
Evicts(k, x) == x.type = "Evicted" /\ k.session = x.session

\* on_reply to a reply sent in view.
ClientOnReply(k, x, view) ==
  LET v == [k EXCEPT !.view_number = Higher(@, view)]
  IN  CASE x.type = "Registered" /\ k.registering /\ x.session > k.evicted ->
             SendQueued([v EXCEPT !.registering = FALSE, !.session = x.session])
        [] x.type = "Executed" /\ Completes(k, x) ->
             SendQueued([v EXCEPT !.requests = Answered(@, x.number)])
        [] x.type = "Queried" /\ Completes(k, x) ->
             SendQueued([v EXCEPT !.queries = Answered(@, x.number)])
        [] Evicts(k, x) ->
             [v EXCEPT !.evicted = x.session, !.session = 0, !.next_request_number = 1,
                       !.requests = <<>>, !.queries = <<>>, !.queued = <<>>,
                       !.outbox = {e \in @ : e[2] = RegisterMessage}]
        [] OTHER -> v

\* What waits for a reply: the registration, the requests and the queries.
Waiting(k) ==
  LET numbers(s) == {s[i].number : i \in {j \in DOMAIN s : s[j].waits}}
  IN  (IF k.registering THEN {RegisterMessage} ELSE {})
        \union {RequestMessage(k, n, Oldest(k.requests, n) - 1) : n \in numbers(k.requests)}
        \union {QueryMessage(n) : n \in numbers(k.queries)}

\* on_idle: everything without a reply is sent again, to every replica.  The
\* code sends again only what went a whole idle period without one; to send the
\* rest again as well adds nothing to a network that duplicates.
ClientOnIdle(k) == [k EXCEPT !.outbox = @ \union (ReplicaID \X Waiting(k))]

=============================================================================
