---------------------------- MODULE SessionTable ----------------------------
(***************************************************************************)
(* How a replica keeps the client table in memory: a record and a pending  *)
(* entry for each client, the number of sessions, and the candidates of    *)
(* the last scan for a session to evict.  Module Replica has in their      *)
(* place what they stand for: ClientTable, a function of what executed,    *)
(* and Pending, a function of the log.                                     *)
(*                                                                         *)
(* The replica here is only its log: entries are appended, replaced by     *)
(* another view's, executed, or skipped by a checkpoint, as any replica's. *)
(***************************************************************************)
EXTENDS Replica, SequencesExt

CONSTANTS CandidateShare,  \* the 16 of find_eviction_candidates
          MaxOp,           \* bound: the longest log
          MaxNumber,       \* bound: the requests of a session
          MaxReloads       \* bound: the replacements, checkpoints and restarts

ASSUME SessionTableAssumption ==
  /\ IsFiniteSet(Client)
  /\ CandidateShare \in Nat \ {0}
  /\ MaxOp \in Nat /\ MaxNumber \in Nat

VARIABLES
  log, op_number, applied,  \* the log, whole
  clients,                  \* [the clients in the table -> ClientState]
  sessions, eviction_candidates,
  reloads

vars == <<log, op_number, applied, clients, sessions, eviction_candidates, reloads>>

None == NoPending
Unknown == [record |-> NoRecord, pending |-> None]

Init ==
  /\ log = NoEntries /\ op_number = 0 /\ applied = 0
  /\ clients = [c \in {} |-> Unknown]
  /\ sessions = 0 /\ eviction_candidates = <<>>
  /\ reloads = 0

-----------------------------------------------------------------------------
(* Maps and their entries *)

\* clients.entry(c).or_default()
StateOf(map, c) == IF c \in DOMAIN map THEN map[c] ELSE Unknown

\* map with s for c, or without c if s holds nothing.
With(map, c, s) ==
  LET rest == DOMAIN map \ {c}
  IN  IF s = Unknown THEN [d \in rest |-> map[d]]
      ELSE [d \in rest \union {c} |-> IF d = c THEN s ELSE map[d]]

\* pending_key
PendingKey(op, e) ==
  [session |-> IF e.session = 0 THEN op ELSE e.session, number |-> e.number]

-----------------------------------------------------------------------------
(* append_to_log, rebuild_pending and load_client_table *)

NotePending(map, op, e) ==
  With(map, e.client, [StateOf(map, e.client) EXCEPT !.pending = PendingKey(op, e)])

\* rebuild_pending, from a table whose records are those of map.
RebuildPending(map, entries, from, to) ==
  LET held == {c \in DOMAIN map : map[c].record # NoRecord}
      start == [c \in held |-> [map[c] EXCEPT !.pending = None]]
      noted[i \in from - 1 .. to] ==
        IF i = from - 1 THEN start ELSE NotePending(noted[i - 1], i, entries[i])
  IN  noted[to]

\* The map of a table of records.
Loaded(table) ==
  [c \in {d \in Client : table[d] # NoRecord} |-> [record |-> table[c], pending |-> None]]

-----------------------------------------------------------------------------
(* execute, register and evict, on t = [clients, sessions, candidates]     *)

\* find_eviction_candidates: the sessions whose latest entries executed
\* earliest, a share of them and at least one, oldest first.
FindEvictionCandidates(map) ==
  LET held == {c \in DOMAIN map : map[c].record # NoRecord}
      kept == Higher(Cardinality(held) \div CandidateShare, 1)
      found == {[op |-> map[c].record.op, client |-> c] : c \in held}
      oldest == CHOOSE s \in SetToSeqs(found) :
                  \A i, j \in DOMAIN s : i < j => s[i].op < s[j].op
  IN  SubSeq(oldest, 1, Lower(kept, Len(oldest)))

\* Mutant: a candidate counts as long as its client has a session.
CurrentIfHeld(map, candidate) == StateOf(map, candidate.client).record # NoRecord

\* Whether a candidate is still what the scan found.
Current(map, candidate) == StateOf(map, candidate.client).record.op = candidate.op

\* evict: the first candidate that is current, or of a new scan.
EvictCandidate(t) ==
  LET good(s) == {i \in DOMAIN s : Current(t.clients, s[i])}
      from == IF good(t.candidates) # {} THEN t.candidates
              ELSE FindEvictionCandidates(t.clients)
      i == Min(good(from))
      c == from[i].client
  IN  [clients |-> With(t.clients, c, [t.clients[c] EXCEPT !.record = NoRecord]),
       sessions |-> t.sessions - 1,
       candidates |-> SubSeq(from, i + 1, Len(from))]

\* Mutant: an entry that executes clears whatever is pending.
ClearAny(s, key) == [s EXCEPT !.pending = None]

Clear(s, key) == IF s.pending = key THEN [s EXCEPT !.pending = None] ELSE s

\* register
RegisterClient(t, op, c) ==
  LET s == Clear(StateOf(t.clients, c), [session |-> op, number |-> 0])
      known == [t EXCEPT !.clients = With(@, c, s)]
      room == IF t.sessions >= ClientsMax THEN EvictCandidate(known) ELSE known
      new == [StateOf(room.clients, c) EXCEPT
                !.record = [NoRecord EXCEPT !.session = op, !.op = op]]
  IN  IF s.record # NoRecord THEN known
      ELSE [room EXCEPT !.clients = With(@, c, new), !.sessions = @ + 1]

\* execute
ExecuteEntry(t, op, e) ==
  LET s == Clear(StateOf(t.clients, e.client), PendingKey(op, e))
      in_session == s.record # NoRecord /\ s.record.session = e.session
      done == [s EXCEPT !.record = RecordAfter(@, op, e)]
  IN  IF e.session = 0 THEN RegisterClient(t, op, e.client)
      ELSE [t EXCEPT !.clients = With(@, e.client, IF in_session THEN done ELSE s)]

-----------------------------------------------------------------------------

\* The entries a primary may append: a request is the next of its session, or
\* of one that may have been evicted.
Appendable(entries, n) ==
  {Registration(c) : c \in Client} \union
    {e \in {Request(c, session, number, number - 1) :
              c \in Client, session \in 1 .. n, number \in 1 .. MaxNumber} :
       /\ entries[e.session] = Registration(e.client)
       /\ ClientTable(entries, e.session)[e.client].session = e.session
       /\ \A k \in 1 .. e.number - 1 : \E i \in 1 .. n :
            entries[i].client = e.client /\ entries[i].session = e.session /\ entries[i].number = k
       /\ \A i \in 1 .. n : ~ (/\ entries[i].client = e.client /\ entries[i].session = e.session
                               /\ entries[i].number = e.number)}

AppendEntry ==
  /\ op_number < MaxOp
  /\ \E e \in Appendable(log, op_number) :
       /\ log' = [i \in 1 .. op_number + 1 |-> IF i <= op_number THEN log[i] ELSE e]
       /\ clients' = NotePending(clients, op_number + 1, e)
  /\ op_number' = op_number + 1
  /\ UNCHANGED <<applied, sessions, eviction_candidates, reloads>>

Execute ==
  /\ applied < op_number
  /\ \E t \in {ExecuteEntry([clients |-> clients, sessions |-> sessions,
                             candidates |-> eviction_candidates],
                            applied + 1, log[applied + 1])} :
       /\ clients' = t.clients /\ sessions' = t.sessions
       /\ eviction_candidates' = t.candidates
  /\ applied' = applied + 1
  /\ UNCHANGED <<log, op_number, reloads>>

\* merge_log: another view's log ends before ours, or has another entry next.
ReplaceTail ==
  /\ reloads < MaxReloads /\ reloads' = reloads + 1
  /\ \E n \in applied .. op_number - 1 :
       LET kept == [i \in 1 .. n |-> log[i]] IN
       \/ /\ log' = kept /\ op_number' = n
          /\ clients' = RebuildPending(clients, kept, applied + 1, n)
       \/ \E e \in Appendable(kept, n) \ {log[n + 1]} :
            /\ log' = [i \in 1 .. n + 1 |-> IF i <= n THEN log[i] ELSE e]
            /\ op_number' = n + 1
            /\ clients' = RebuildPending(clients, log', applied + 1, n + 1)
  /\ UNCHANGED <<applied, sessions, eviction_candidates>>

\* restart, from a state machine that had applied less, and restore_checkpoint,
\* to one that had applied more.
Reload ==
  /\ reloads < MaxReloads /\ reloads' = reloads + 1
  /\ \E n \in 0 .. op_number :
       LET map == Loaded(ClientTable(log, n)) IN
       /\ applied' = n
       /\ clients' = RebuildPending(map, log, n + 1, op_number)
       /\ sessions' = Cardinality(DOMAIN map)
  /\ eviction_candidates' = <<>>
  /\ UNCHANGED <<log, op_number>>

Next == AppendEntry \/ Execute \/ ReplaceTail \/ Reload

Spec == Init /\ [][Next]_vars

-----------------------------------------------------------------------------

\* The table in memory is the one the executed entries make, so that every
\* replica evicts the same sessions, whenever each of them scanned, restarted
\* or took over; and sessions counts it.
TableIsWhatExecuted ==
  LET table == ClientTable(log, applied) IN
  /\ \A c \in Client : StateOf(clients, c).record = table[c]
  /\ sessions = Cardinality({c \in Client : table[c] # NoRecord})

\* The pending entry of a client is the last one of its entries that has not
\* executed, through appends, replaced logs and restarts; a client with neither
\* a session nor a pending entry takes no room.
PendingIsLastInLog ==
  /\ \A c \in Client :
       StateOf(clients, c).pending =
         Pending([log |-> log, applied |-> applied, op_number |-> op_number], c)
  /\ Unknown \notin {clients[c] : c \in DOMAIN clients}

=============================================================================
