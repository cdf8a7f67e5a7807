---------------------------- MODULE Connections ----------------------------
(***************************************************************************)
(* The client connections of a node of examples/kvstore: for each, the     *)
(* event loop keeps a client (module Clients) and the commands in flight.  *)
(* It holds an answer until the commands before have theirs, collects the  *)
(* answers of a batch of events, and hands them out itself or, when there  *)
(* are many, through the answerer thread.                                  *)
(***************************************************************************)
EXTENDS Clients

VARIABLES
  pending,     \* [Issuers -> the commands in flight on its connection, in order]
  answers,     \* the answers ready, handed out after the batch
  batches,     \* what the answerer thread was sent and has not handed out
  got          \* [Issuers -> the answers its connection got]

connections == <<pending, answers, batches, got>>
allvars == <<vars, connections>>

ConnectionsInit ==
  /\ Init
  /\ pending = [c \in Issuers |-> <<>>] /\ got = [c \in Issuers |-> <<>>]
  /\ answers = <<>> /\ batches = <<>>

\* A command, and the ticket it went out as.
Command(c, kind, number) ==
  /\ pending' = [pending EXCEPT ![c] = Append(@, [op |-> Len(ops[c]) + 1, kind |-> kind,
                                                  number |-> number, answer |-> Open])]
  /\ UNCHANGED <<answers, batches, got>>

CommandSet(c) == IssueRequest(c) /\ Command(c, "Request", clients[c].next_request_number)

CommandGet(c) == IssueQuery(c) /\ Command(c, "Query", clients[c].next_query_number)

\* Mutant: an eviction fails only the command that waits longest.
AnsweredByFirst(p, k, x) ==
  IF Evicts(k, x)
  THEN [i \in DOMAIN p |-> IF i = 1 THEN [p[i] EXCEPT !.answer = Failed] ELSE p[i]]
  ELSE LET kind == IF x.type = "Executed" THEN "Request" ELSE "Query"
           match == {i \in DOMAIN p : p[i].kind = kind /\ p[i].number = x.number}
       IN  IF ~Completes(k, x) \/ match = {} THEN p
           ELSE [p EXCEPT ![Min(match)] = [@ EXCEPT !.answer = x.result]]

\* The commands in flight once reply x reached the client that was k: the
\* command it completes has its answer; an eviction fails every one that had
\* none.
AnsweredBy(p, k, x) ==
  IF Evicts(k, x)
  THEN [i \in DOMAIN p |-> IF p[i].answer = Open THEN [p[i] EXCEPT !.answer = Failed] ELSE p[i]]
  ELSE LET kind == IF x.type = "Executed" THEN "Request" ELSE "Query"
           match == {i \in DOMAIN p : p[i].kind = kind /\ p[i].number = x.number}
       IN  IF ~Completes(k, x) \/ match = {} THEN p
           ELSE [p EXCEPT ![Min(match)] = [@ EXCEPT !.answer = x.result]]

\* deliver_reply: the answers at the front are ready.
DeliverReply(x) ==
  LET c == x.reply.client
      p == AnsweredBy(pending[c], clients[c], x.reply)
      waiting == {i \in DOMAIN p : p[i].answer = Open}
      ready == IF waiting = {} THEN Len(p) ELSE Min(waiting) - 1
  IN  /\ ClientReceives(x)
      /\ pending' = [pending EXCEPT ![c] = SubSeq(p, ready + 1, Len(p))]
      /\ answers' = answers \o [i \in 1 .. ready |-> [client |-> c, op |-> p[i].op,
                                                      answer |-> p[i].answer]]
      /\ UNCHANGED <<batches, got>>

\* The connections once they got the answers in batch, one after the other.
Given(batch) ==
  LET given[i \in 0 .. Len(batch)] ==
        IF i = 0 THEN got
        ELSE [given[i - 1] EXCEPT ![batch[i].client] = Append(@, batch[i])]
  IN  given[Len(batch)]

\* Mutant: a short batch does not wait for those the answerer holds.
BehindNever == FALSE

\* Whether the answerer holds batches: handed_off is not 0.
Behind == batches # <<>>

\* hand_out, after a batch of events.  The answers of other connections may make
\* the batch HANDED_OFF_ANSWERS long, or not.
HandOut ==
  /\ answers # <<>>
  /\ answers' = <<>>
  /\ \/ /\ batches' = Append(batches, answers)
        /\ UNCHANGED got
     \/ /\ ~Behind
        /\ got' = Given(answers)
        /\ UNCHANGED batches
  /\ UNCHANGED <<vars, pending>>

\* The answerer thread hands out a batch and counts it as handed out.  Between
\* the two the event loop would only hand off one that it need not.
AnswererGives ==
  /\ batches # <<>>
  /\ got' = Given(batches[1])
  /\ batches' = Tail(batches)
  /\ UNCHANGED <<vars, pending, answers>>

\* What goes on elsewhere, or before the next batch of events, is left until the
\* answers of a batch are handed out: the order makes no difference.
ConnectionsNext ==
  \/ \E x \in replies : DeliverReply(x)
  \/ HandOut \/ AnswererGives
  \/ /\ answers = <<>>
     /\ \E c \in Issuers : CommandSet(c) \/ CommandGet(c)
  \/ /\ answers = <<>>
     /\ \/ \E c \in Issuers : ClientIdles(c)
        \/ PrimaryReceives \/ OthersRegister \/ BackupAcks \/ BackupConfirms
        \/ ViewStarts
        \/ Lose
     /\ UNCHANGED connections

\* The event loop ends its batches and the answerer runs; the rest is fair as
\* in Liveness.
ConnectionsSpec ==
  /\ ConnectionsInit /\ [][ConnectionsNext]_allvars
  /\ WF_allvars(HandOut) /\ WF_allvars(AnswererGives)
  /\ []<>Quiet \/ []<><<TRUE>>_vars

-----------------------------------------------------------------------------

\* A connection gets its answers in the order of its commands, each the one
\* the client has for the command, whichever thread hands them out and however
\* sessions end in between.
AnswersInOrder ==
  \A c \in Issuers : \A i \in DOMAIN got[c] :
    got[c][i].op = i /\ got[c][i].answer = ops[c][i].end

\* Every command is answered, though messages are lost, views change and
\* sessions end.
EveryCommandAnswered ==
  \A c \in Issuers : \A i \in 1 .. MaxIssued :
    i \in DOMAIN ops[c] ~> (Len(got[c]) >= i \/ []BoundReached)

=============================================================================
