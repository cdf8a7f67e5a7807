---------------------------- MODULE ReplicaFacts ----------------------------
(* Facts about the operators of module Replica that the proofs of the      *)
(* components share: the fields of a replica, the client table that a      *)
(* history of entries makes, and the order of the entries in a log.        *)
EXTENDS Replica, FiniteSetTheorems, WellFoundedInduction, TLAPS

-----------------------------------------------------------------------------
(* Numbers.  That a set of naturals has a least member takes the place of  *)
(* induction: the least counterexample has a predecessor that is none.     *)

\* A set of naturals that is not empty has a least member.
LEMMA LeastExists ==
  ASSUME NEW S \in SUBSET Nat, S # {}
  PROVE  \E m \in S : \A n \in S : m <= n
<1>1. PICK m \in S : \A n \in S : ~(<<n, m>> \in OpToRel(<, Nat))
  BY NatLessThanWellFounded, WFMin
<1>2. \A n \in S : ~(n < m)
  BY <1>1 DEF OpToRel
<1> QED
  BY <1>2

\* A bounded set of naturals that is not empty has a greatest member, and Max is it.
LEMMA MaxIsGreatest ==
  ASSUME NEW b \in Nat, NEW S \in SUBSET (0 .. b), S # {}
  PROVE  /\ Max(S) \in S
         /\ \A n \in S : n <= Max(S)
<1> DEFINE T == {n \in Nat : n <= b /\ b - n \in S}
<1>1. T # {}
  <2>1. PICK n \in S : TRUE
    OBVIOUS
  <2>2. b - n \in T
    BY <2>1
  <2> QED
    BY <2>2
<1>2. PICK m \in T : \A n \in T : m <= n
  BY <1>1, LeastExists
<1>3. b - m \in S /\ \A n \in S : b - m >= n
  <2>1. \A n \in S : b - n \in T
    OBVIOUS
  <2> QED
    BY <1>2, <2>1
<1>4. Max(S) \in S /\ \A n \in S : Max(S) >= n
  BY <1>3, Zenon DEF Max
<1> QED
  BY <1>4

\* Dividing brings a multiple back, and keeps the order.
LEMMA Division ==
  ASSUME NEW c \in Nat \ {0}, NEW n \in Nat, NEW q \in Nat
  PROVE  /\ n \div c \in Nat
         /\ n \div c >= q <=> n >= q * c
         /\ n = q * c => n \div c = q
  OBVIOUS

\* Min is the least member.
LEMMA MinIsLeast ==
  ASSUME NEW S \in SUBSET Nat, S # {}
  PROVE  /\ Min(S) \in S
         /\ \A n \in S : Min(S) <= n
<1>1. PICK m \in S : \A n \in S : m <= n
  BY LeastExists
<1> QED
  BY <1>1, Zenon DEF Min

\* A finite set of naturals that is not empty has a greatest member, and Max is it.
LEMMA FiniteMax ==
  ASSUME NEW S \in SUBSET Nat, IsFiniteSet(S), S # {}
  PROVE  /\ Max(S) \in S
         /\ \A n \in S : n <= Max(S)
<1> DEFINE Topped(T) == \E b \in T : \A n \in T : n <= b
           Bad == {k \in Nat : \E T \in SUBSET Nat :
                     IsFiniteSet(T) /\ T # {} /\ Cardinality(T) = k /\ ~Topped(T)}
<1>1. Bad = {}
  <2> SUFFICES ASSUME Bad # {} PROVE FALSE
    OBVIOUS
  <2>1. PICK k \in Bad : \A n \in Bad : k <= n
    BY LeastExists
  <2>2. PICK T \in SUBSET Nat : IsFiniteSet(T) /\ T # {} /\ Cardinality(T) = k /\ ~Topped(T)
    OBVIOUS
  <2>3. PICK x \in T : TRUE
    BY <2>2
  <2> DEFINE U == T \ {x}
  <2>4. IsFiniteSet(U) /\ Cardinality(U) = k - 1 /\ U \in SUBSET Nat
    BY <2>2, <2>3, FS_RemoveElement
  <2>5. Cardinality(U) \in Nat
    BY <2>4, FS_CardinalityType
  <2>6. U # {}
    <3> SUFFICES ASSUME U = {} PROVE FALSE
      OBVIOUS
    <3>1. \A n \in T : n <= x
      BY <2>3
    <3> QED
      BY <2>2, <2>3, <3>1
  <2>7. k - 1 \notin Bad
    BY <2>1, <2>4, <2>5
  <2>8. Topped(U)
    BY <2>4, <2>5, <2>6, <2>7
  <2>9. PICK b \in U : \A n \in U : n <= b
    BY <2>8
  <2>10. CASE x <= b
    <3>1. \A n \in T : n <= b
      BY <2>9, <2>10
    <3> QED
      BY <2>2, <2>9, <3>1
  <2>11. CASE ~ (x <= b)
    <3>1. \A n \in T : n <= x
      BY <2>2, <2>3, <2>9, <2>11
    <3> QED
      BY <2>2, <2>3, <3>1
  <2> QED
    BY <2>10, <2>11
<1>2. Cardinality(S) \in Nat
  BY FS_CardinalityType
<1>3. Topped(S)
  BY <1>1, <1>2
<1>4. PICK b \in S : \A n \in S : b >= n
  BY <1>3
<1>5. Max(S) \in S /\ \A n \in S : Max(S) >= n
  BY <1>4, Zenon DEF Max
<1> QED
  BY <1>5

-----------------------------------------------------------------------------
(* The fields of a replica *)

Fields == {"id", "status", "view_number", "last_normal_view", "commit_number", "applied",
           "sm", "reply_ops", "log_start", "op_number", "log", "log_changed_from", "written",
           "outstanding", "durable", "acked", "view_start_op", "queries", "round",
           "round_confirmed", "confirmed", "round_unsent", "start_view_change_from",
           "do_view_change_sent", "do_view_change_from", "catching_up", "serving", "fetch",
           "recovery_nonce", "recovery_responses", "early", "outbox", "outbox_waiting",
           "outbox_ready", "replies", "ok"}

\* s is r with other values in some fields.
SameBut(r, s, changed) ==
  DOMAIN s = Fields /\ \A f \in Fields \ changed : s[f] = r[f]

-----------------------------------------------------------------------------
(* Client tables *)

Records == [session : Nat, number : Nat, op : Nat, replies : Seq(Nat)]

\* The clients that have a session in a table.
Held(table) == {c \in Client : table[c] # NoRecord}

NoRecords == [c \in Client |-> NoRecord]

\* f holds the tables after 0 to n ops of h.
Tables(h, n, f) ==
  f = [i \in 0 .. n |-> IF i = 0 THEN NoRecords ELSE Executed(f[i - 1], i, h[i])]

\* Two such functions agree as far as both go, if the histories do.
LEMMA TablesAgree ==
  ASSUME NEW n \in Nat, NEW m \in Nat, NEW h, NEW g, NEW f1, NEW f2,
         Tables(h, n, f1), Tables(g, m, f2), n <= m,
         \A i \in 1 .. n : h[i] = g[i]
  PROVE  \A i \in 0 .. n : f1[i] = f2[i]
<1> DEFINE S == {i \in 0 .. n : f1[i] # f2[i]}
<1> SUFFICES ASSUME S # {} PROVE FALSE
  OBVIOUS
<1>1. PICK k \in S : \A i \in S : k <= i
  <2>1. S \in SUBSET Nat
    OBVIOUS
  <2> HIDE DEF S
  <2> QED
    BY <2>1, LeastExists
<1>2. k \in 0 .. n /\ k \in 0 .. m /\ k \in Nat
  OBVIOUS
<1>3. /\ f1[k] = IF k = 0 THEN NoRecords ELSE Executed(f1[k - 1], k, h[k])
      /\ f2[k] = IF k = 0 THEN NoRecords ELSE Executed(f2[k - 1], k, g[k])
  BY <1>2 DEF Tables
<1>4. CASE k = 0
  BY <1>3, <1>4
<1>5. CASE k # 0
  <2>1. k - 1 \in 0 .. n /\ k \in 1 .. n /\ ~(k <= k - 1)
    BY <1>2, <1>5
  <2>2. f1[k - 1] = f2[k - 1]
    BY <1>1, <2>1
  <2> QED
    BY <1>3, <1>5, <2>1, <2>2
<1> QED
  BY <1>4, <1>5

\* There is one for every n.
LEMMA TablesExist ==
  ASSUME NEW h, NEW n \in Nat
  PROVE  \E f : Tables(h, n, f)
<1> DEFINE S == {k \in Nat : ~ \E f : Tables(h, k, f)}
<1> SUFFICES ASSUME S # {} PROVE FALSE
  OBVIOUS
<1>1. PICK k \in S : \A i \in S : k <= i
  <2>1. S \in SUBSET Nat
    OBVIOUS
  <2> HIDE DEF S
  <2> QED
    BY <2>1, LeastExists
<1>2. CASE k = 0
  <2> DEFINE f == [i \in 0 .. 0 |-> NoRecords]
  <2>1. Tables(h, 0, f)
    BY DEF Tables
  <2> QED
    BY <1>2, <2>1
<1>3. CASE k # 0
  <2>1. k - 1 \in Nat /\ k - 1 \notin S
    BY <1>1, <1>3
  <2>2. PICK f : Tables(h, k - 1, f)
    BY <2>1
  <2> DEFINE g == [i \in 0 .. k |-> IF i = k THEN Executed(f[k - 1], k, h[k]) ELSE f[i]]
  <2>3. Tables(h, k, g)
    <3>1. \A i \in 0 .. k - 1 : f[i] = IF i = 0 THEN NoRecords ELSE Executed(f[i - 1], i, h[i])
      BY <2>2 DEF Tables
    <3>2. ASSUME NEW i \in 0 .. k
          PROVE  g[i] = IF i = 0 THEN NoRecords ELSE Executed(g[i - 1], i, h[i])
      <4>1. CASE i = k
        <5>1. i # 0 /\ g[i] = Executed(f[k - 1], k, h[k]) /\ k - 1 \in 0 .. k /\ k - 1 # k
          BY <1>3, <4>1
        <5>2. g[i - 1] = f[k - 1]
          BY <4>1, <5>1
        <5> HIDE DEF g
        <5> QED
          BY <4>1, <5>1, <5>2
      <4>2. CASE i # k
        <5>1. i \in 0 .. k - 1 /\ (i # 0 => i - 1 \in 0 .. k /\ i - 1 # k)
          BY <4>2
        <5>2. g[i] = f[i] /\ (i # 0 => g[i - 1] = f[i - 1])
          BY <4>2, <5>1
        <5> HIDE DEF g
        <5> QED
          BY <3>1, <5>1, <5>2
      <4> QED
        BY <4>1, <4>2
    <3>3. g = [i \in 0 .. k |-> g[i]]
      OBVIOUS
    <3> HIDE DEF g
    <3>4. [i \in 0 .. k |-> g[i]] =
            [i \in 0 .. k |-> IF i = 0 THEN NoRecords ELSE Executed(g[i - 1], i, h[i])]
      BY <3>2
    <3> QED
      BY <3>3, <3>4 DEF Tables
  <2> QED
    BY <2>3
<1> QED
  BY <1>2, <1>3

\* ClientTable is the value of any of them.
LEMMA TableOfTables ==
  ASSUME NEW h, NEW n \in Nat, NEW f, Tables(h, n, f)
  PROVE  ClientTable(h, n) = f[n]
<1> DEFINE g == CHOOSE g : Tables(h, n, g)
<1>1. Tables(h, n, g)
  <2>1. \E x : Tables(h, n, x)
    OBVIOUS
  <2> QED
    BY <2>1, Zenon
<1>2. ClientTable(h, n) = g[n]
  BY DEF ClientTable, Tables, NoRecords
<1> HIDE DEF g
<1>3. \A i \in 0 .. n : g[i] = f[i]
  BY <1>1, TablesAgree
<1> QED
  BY <1>2, <1>3

\* No op has executed to begin with; then each leaves what Executed says.
LEMMA ClientTableStep ==
  ASSUME NEW h
  PROVE  /\ ClientTable(h, 0) = NoRecords
         /\ \A n \in Nat : ClientTable(h, n + 1) = Executed(ClientTable(h, n), n + 1, h[n + 1])
<1>1. ClientTable(h, 0) = NoRecords
  <2>1. PICK f : Tables(h, 0, f)
    BY TablesExist
  <2>2. f[0] = NoRecords
    BY <2>1 DEF Tables
  <2> QED
    BY <2>1, <2>2, TableOfTables
<1>2. ASSUME NEW n \in Nat
      PROVE  ClientTable(h, n + 1) = Executed(ClientTable(h, n), n + 1, h[n + 1])
  <2>0. n + 1 \in Nat /\ n \in 0 .. n /\ n + 1 \in 0 .. n + 1 /\ n + 1 # 0 /\ n + 1 - 1 = n
    OBVIOUS
  <2>1. PICK f : Tables(h, n, f)
    BY TablesExist
  <2>2. PICK g : Tables(h, n + 1, g)
    BY <2>0, TablesExist
  <2>3. f[n] = g[n]
    BY <2>0, <2>1, <2>2, TablesAgree
  <2>4. g[n + 1] = Executed(g[n + 1 - 1], n + 1, h[n + 1])
    BY <2>0, <2>2 DEF Tables
  <2>5. ClientTable(h, n) = f[n] /\ ClientTable(h, n + 1) = g[n + 1]
    BY <2>0, <2>1, <2>2, TableOfTables
  <2> QED
    BY <2>0, <2>3, <2>4, <2>5
<1> QED
  BY <1>1, <1>2

\* A table depends on the ops that made it and on no others.
LEMMA ClientTablePrefix ==
  ASSUME NEW h, NEW g, NEW n \in Nat, \A i \in 1 .. n : h[i] = g[i]
  PROVE  ClientTable(h, n) = ClientTable(g, n)
<1>1. PICK f1 : Tables(h, n, f1)
  BY TablesExist
<1>2. PICK f2 : Tables(g, n, f2)
  BY TablesExist
<1>3. f1[n] = f2[n]
  BY <1>1, <1>2, TablesAgree
<1> QED
  BY <1>1, <1>2, <1>3, TableOfTables

\* A table after n ops of h: the latest entry of a session is its client's.
TableOK(h, table, n) ==
  /\ table \in [Client -> Records]
  /\ \A c \in Held(table) : /\ table[c].op \in 1 .. n /\ h[table[c].op].client = c
                            /\ table[c].session # 0

\* No record is one.
LEMMA NoRecordTyped == NoRecord \in Records
<1>1. <<>> \in Seq(Nat)
  OBVIOUS
<1> QED
  BY <1>1 DEF NoRecord, Records

\* The results kept are results.
LEMMA KeptTyped ==
  ASSUME NEW replies \in Seq(Nat), NEW op \in Nat, NEW e \in Entries
  PROVE  Kept(replies, op, e) \in Seq(Nat)
<1> DEFINE all == Append(replies, op)
           kept == Lower(Higher(e.number - e.answered, 1), InFlightMax)
<1>1. all \in Seq(Nat) /\ Len(all) \in Nat
  OBVIOUS
<1>2. kept \in Nat
  BY ConfigAssumption DEF Entries, Lower, Higher
<1> HIDE DEF all, kept
<1>3. Higher(Len(all) - kept, 0) + 1 \in 1 .. Len(all) + 1
  BY <1>1, <1>2 DEF Higher
<1>4. SubSeq(all, Higher(Len(all) - kept, 0) + 1, Len(all)) \in Seq(Nat)
  BY <1>1, <1>3
<1> QED
  BY <1>4 DEF Kept, all, kept

\* A record stays one of its session.
LEMMA RecordAfterTyped ==
  ASSUME NEW record \in Records, NEW op \in Nat, NEW e \in Entries
  PROVE  /\ RecordAfter(record, op, e) \in Records
         /\ RecordAfter(record, op, e).op = op
         /\ RecordAfter(record, op, e).session = record.session
<1>1. PICK kept \in Seq(Nat) : kept = Kept(record.replies, op, e)
  BY KeptTyped DEF Records
<1>2. RecordAfter(record, op, e) =
        [record EXCEPT !.number = e.number, !.op = op, !.replies = kept]
  BY <1>1 DEF RecordAfter, Records
<1>3. e.number \in Nat
  BY DEF Entries
<1> QED
  BY <1>2, <1>3 DEF Records

\* Executing an entry keeps the table a table.
LEMMA ExecutedOK ==
  ASSUME NEW h, NEW table, NEW n \in Nat, TableOK(h, table, n),
         NEW e \in Entries, e = h[n + 1]
  PROVE  TableOK(h, Executed(table, n + 1, e), n + 1)
<1>1. /\ table \in [Client -> Records] /\ n + 1 \in Nat /\ n + 1 \in 1 .. n + 1
      /\ \A k \in 1 .. n : k \in 1 .. n + 1
      /\ e.client \in Client
  BY DEF TableOK, Entries
<1>2. CASE e.session = 0
  <2> DEFINE c == e.client
             new == [NoRecord EXCEPT !.session = n + 1, !.op = n + 1]
  <2>1. new \in Records /\ new.op = n + 1 /\ new.session = n + 1
    BY <1>1, NoRecordTyped DEF NoRecord, Records
  <2>2. CASE table[c] # NoRecord
    <3>1. Executed(table, n + 1, e) = table
      BY <1>2, <2>2 DEF Executed, Registered
    <3> QED
      BY <1>1, <3>1 DEF TableOK
  <2>3. CASE table[c] = NoRecord
    <3> DEFINE old == IF Cardinality({d \in Client : table[d] # NoRecord}) >= ClientsMax
                      THEN Evict(table) ELSE table
    <3>1. Executed(table, n + 1, e) = [old EXCEPT ![c] = new]
      BY <1>2, <2>3 DEF Executed, Registered
    <3>2. old \in [Client -> Records] /\ \A d \in Client : old[d] = table[d] \/ old[d] = NoRecord
      <4>1. \A x : /\ [table EXCEPT ![x] = NoRecord] \in [Client -> Records]
                   /\ \A d \in Client : \/ [table EXCEPT ![x] = NoRecord][d] = table[d]
                                        \/ [table EXCEPT ![x] = NoRecord][d] = NoRecord
        BY <1>1, NoRecordTyped
      <4> QED
        BY <1>1, <4>1 DEF Evict
    <3> HIDE DEF old, new
    <3> DEFINE after == [old EXCEPT ![c] = new]
    <3>3. after \in [Client -> Records]
      BY <1>1, <2>1, <3>2
    <3>4. \A d \in Client : after[d] = IF d = c THEN new ELSE old[d]
      BY <1>1, <3>2
    <3>5. ASSUME NEW d \in Held(after)
          PROVE  /\ after[d].op \in 1 .. n + 1 /\ h[after[d].op].client = d
                 /\ after[d].session # 0
      <4>1. CASE d = c
        BY <1>1, <2>1, <3>4, <4>1 DEF Held
      <4>2. CASE d # c
        <5>1. d \in Held(table) /\ after[d] = table[d]
          BY <3>2, <3>4, <4>2 DEF Held
        <5> QED
          BY <1>1, <5>1 DEF TableOK
      <4> QED
        BY <4>1, <4>2
    <3> QED
      BY <3>1, <3>3, <3>5 DEF TableOK
  <2> QED
    BY <2>2, <2>3
<1>3. CASE e.session # 0 /\ InSession(table, e)
  <2> DEFINE c == e.client
             new == RecordAfter(table[c], n + 1, e)
             after == [table EXCEPT ![c] = new]
  <2>1. Executed(table, n + 1, e) = after
    BY <1>1, <1>3 DEF Executed
  <2>2. table[c] \in Records /\ table[c].session = e.session
    BY <1>1, <1>3 DEF InSession
  <2>3. new \in Records /\ new.op = n + 1 /\ new.session = e.session
    BY <1>1, <2>2, RecordAfterTyped
  <2> HIDE DEF new
  <2>4. after \in [Client -> Records] /\ \A d \in Client : after[d] = IF d = c THEN new ELSE table[d]
    BY <1>1, <2>3
  <2>5. ASSUME NEW d \in Held(after)
        PROVE  /\ after[d].op \in 1 .. n + 1 /\ h[after[d].op].client = d
               /\ after[d].session # 0
    <3>1. CASE d = c
      BY <1>1, <1>3, <2>3, <2>4, <3>1 DEF Held
    <3>2. CASE d # c
      <4>1. d \in Held(table) /\ after[d] = table[d]
        BY <2>4, <3>2 DEF Held
      <4> QED
        BY <1>1, <4>1 DEF TableOK
    <3> QED
      BY <3>1, <3>2
  <2> QED
    BY <2>1, <2>4, <2>5 DEF TableOK
<1>4. CASE e.session # 0 /\ ~InSession(table, e)
  BY <1>1, <1>4 DEF Executed, TableOK
<1> QED
  BY <1>2, <1>3, <1>4

\* The table after n ops of a log is one.
LEMMA ClientTableOK ==
  ASSUME NEW h, NEW m \in Nat, \A i \in 1 .. m : h[i] \in Entries, NEW n \in 0 .. m
  PROVE  TableOK(h, ClientTable(h, n), n)
<1> DEFINE S == {k \in 0 .. m : ~TableOK(h, ClientTable(h, k), k)}
<1> SUFFICES ASSUME S # {} PROVE FALSE
  OBVIOUS
<1>1. PICK k \in S : \A i \in S : k <= i
  <2>1. S \in SUBSET Nat
    OBVIOUS
  <2> HIDE DEF S
  <2> QED
    BY <2>1, LeastExists
<1>2. CASE k = 0
  <2>1. TableOK(h, NoRecords, 0)
    BY NoRecordTyped DEF TableOK, NoRecords, Held
  <2> QED
    BY <1>2, <2>1, ClientTableStep
<1>3. CASE k # 0
  <2>1. k - 1 \in Nat /\ k - 1 \in 0 .. m /\ ~(k <= k - 1) /\ k - 1 + 1 = k /\ k \in 1 .. m
    BY <1>3
  <2>2. TableOK(h, ClientTable(h, k - 1), k - 1)
    BY <1>1, <2>1
  <2>3. h[k] \in Entries
    BY <2>1
  <2>4. TableOK(h, Executed(ClientTable(h, k - 1), k - 1 + 1, h[k - 1 + 1]), k - 1 + 1)
    BY <2>1, <2>2, <2>3, ExecutedOK
  <2>5. ClientTable(h, k - 1 + 1) = Executed(ClientTable(h, k - 1), k - 1 + 1, h[k - 1 + 1])
    BY <2>1, ClientTableStep
  <2>6. TableOK(h, ClientTable(h, k), k)
    BY <2>1, <2>4, <2>5
  <2> QED
    BY <2>6
<1> QED
  BY <1>2, <1>3

\* The record of a session that begins at op.
NewRecord(op) == [NoRecord EXCEPT !.session = op, !.op = op]

\* What executing entry e as op does to the record of client c: nothing, an
\* eviction, a new session, or a request.
RecordMoves(old, new, op, e, c) ==
  \/ new = old /\ ~(e.client = c /\ e.session # 0 /\ old.session = e.session)
  \/ e.session = 0 /\ e.client # c /\ new = NoRecord
  \/ e.session = 0 /\ e.client = c /\ new = NewRecord(op)
  \/ /\ e.session # 0 /\ e.client = c /\ old.session = e.session
     /\ new = RecordAfter(old, op, e)

LEMMA ExecutedCases ==
  ASSUME NEW table \in [Client -> Records], NEW op, NEW e \in Entries, NEW c \in Client
  PROVE  RecordMoves(table[c], Executed(table, op, e)[c], op, e, c)
<1> USE DEF RecordMoves, NewRecord
<1>1. e.client \in Client
  BY DEF Entries
<1>2. CASE e.session = 0
  <2> DEFINE new == [NoRecord EXCEPT !.session = op, !.op = op]
             old == IF Cardinality({d \in Client : table[d] # NoRecord}) >= ClientsMax
                    THEN Evict(table) ELSE table
  <2>1. CASE table[e.client] # NoRecord
    <3>1. Executed(table, op, e) = table
      BY <1>2, <2>1 DEF Executed, Registered
    <3> QED
      BY <1>2, <3>1
  <2>2. CASE table[e.client] = NoRecord
    <3>1. Executed(table, op, e) = [old EXCEPT ![e.client] = new]
      BY <1>2, <2>2 DEF Executed, Registered
    <3>2. DOMAIN old = Client /\ (old[c] = table[c] \/ old[c] = NoRecord)
      <4>1. \A x : LET t == [table EXCEPT ![x] = NoRecord] IN
                   DOMAIN t = Client /\ (t[c] = table[c] \/ t[c] = NoRecord)
        OBVIOUS
      <4> QED
        BY <4>1 DEF Evict
    <3> HIDE DEF old, new
    <3>3. Executed(table, op, e)[c] = IF c = e.client THEN new ELSE old[c]
      BY <1>1, <3>1, <3>2
    <3>4. CASE c = e.client
      BY <1>2, <3>3, <3>4 DEF new
    <3>5. CASE c # e.client
      BY <1>2, <3>2, <3>3, <3>5
    <3> QED
      BY <3>4, <3>5
  <2> QED
    BY <2>1, <2>2
<1>3. CASE e.session # 0 /\ InSession(table, e)
  <2>1. Executed(table, op, e) = [table EXCEPT ![e.client] = RecordAfter(table[e.client], op, e)]
    BY <1>1, <1>3 DEF Executed
  <2>2. table[e.client].session = e.session
    BY <1>3 DEF InSession
  <2>3. Executed(table, op, e)[c] = IF c = e.client THEN RecordAfter(table[c], op, e) ELSE table[c]
    BY <1>1, <2>1
  <2> QED
    BY <1>3, <2>2, <2>3
<1>4. CASE e.session # 0 /\ ~InSession(table, e)
  <2>1. Executed(table, op, e) = table
    BY <1>4 DEF Executed
  <2> QED
    BY <1>4, <2>1 DEF InSession
<1> QED
  BY <1>2, <1>3, <1>4

\* The first m entries of a history.
History(h, m) == \A i \in 1 .. m : h[i] \in Entries

\* A table is a table at every op.
LEMMA TableTyped ==
  ASSUME NEW h, NEW m \in Nat, History(h, m), NEW n \in 0 .. m, NEW c \in Client
  PROVE  /\ ClientTable(h, n) \in [Client -> Records]
         /\ ClientTable(h, n)[c] \in Records
         /\ ClientTable(h, n)[c].session = 0 <=> ClientTable(h, n)[c] = NoRecord
<1>1. TableOK(h, ClientTable(h, n), n)
  BY ClientTableOK DEF History
<1>2. NoRecord.session = 0
  BY DEF NoRecord
<1> QED
  BY <1>1, <1>2 DEF TableOK, Held

\* The record of client c after one op more.
LEMMA RecordStep ==
  ASSUME NEW h, NEW m \in Nat, History(h, m), NEW n \in 0 .. m - 1, NEW c \in Client
  PROVE  RecordMoves(ClientTable(h, n)[c], ClientTable(h, n + 1)[c], n + 1, h[n + 1], c)
<1>1. n \in Nat /\ n \in 0 .. m /\ n + 1 \in 1 .. m
  OBVIOUS
<1>2. ClientTable(h, n) \in [Client -> Records] /\ h[n + 1] \in Entries
  BY <1>1, TableTyped DEF History
<1>3. ClientTable(h, n + 1) = Executed(ClientTable(h, n), n + 1, h[n + 1])
  BY <1>1, ClientTableStep
<1> HIDE DEF History
<1> QED
  BY <1>2, <1>3, ExecutedCases

\* What a record keeps of a new session, and of a request.
LEMMA NewSession ==
  ASSUME NEW op
  PROVE  /\ NewRecord(op).session = op /\ NewRecord(op).number = 0
         /\ NewRecord(op).replies = <<>>
  BY DEF NewRecord, NoRecord

LEMMA AfterRequest ==
  ASSUME NEW record \in Records, NEW op, NEW e
  PROVE  LET new == RecordAfter(record, op, e)
         IN  /\ new.session = record.session /\ new.number = e.number
             /\ new.replies = Kept(record.replies, op, e)
  BY DEF RecordAfter, Records

\* A session began with the op it is named after, and was there ever since.
LEMMA SessionBegan ==
  ASSUME NEW h, NEW m \in Nat, History(h, m), NEW n \in 0 .. m, NEW c \in Client,
         ClientTable(h, n)[c].session # 0
  PROVE  LET s == ClientTable(h, n)[c].session
         IN  s \in 1 .. n /\ \A i \in s .. n : ClientTable(h, i)[c].session = s
<1> DEFINE Session(i) == ClientTable(h, i)[c].session
           Good(i) == Session(i) # 0 =>
                        Session(i) \in 1 .. i /\ \A j \in Session(i) .. i : Session(j) = Session(i)
           S == {i \in 0 .. m : ~Good(i)}
<1> SUFFICES ASSUME S # {} PROVE FALSE
  OBVIOUS
<1>1. PICK k \in S : \A i \in S : k <= i
  <2>1. S \in SUBSET Nat
    OBVIOUS
  <2> HIDE DEF S
  <2> QED
    BY <2>1, LeastExists
<1>2. k # 0
  <2>1. Session(0) = 0
    BY ClientTableStep DEF NoRecords, NoRecord
  <2> QED
    BY <1>1, <2>1
<1>3. k \in 1 .. m /\ k - 1 \in 0 .. m - 1 /\ k - 1 + 1 = k /\ k - 1 \in 0 .. m
  BY <1>2
<1>4. Good(k - 1) /\ ~Good(k)
  BY <1>1, <1>3
<1>5. Session(k) \in Nat /\ Session(k - 1) \in Nat
  BY <1>3, TableTyped DEF Records
<1>6. Session(k) = Session(k - 1) \/ Session(k) = 0 \/ Session(k) = k
  <2>1. ClientTable(h, k - 1)[c] \in Records
    BY <1>3, TableTyped
  <2>2. NoRecord.session = 0
    BY DEF NoRecord
  <2> QED
    <3>1. RecordMoves(ClientTable(h, k - 1)[c], ClientTable(h, k)[c], k, h[k], c)
      BY <1>3, RecordStep
    <3> QED
      BY <2>1, <2>2, <3>1, NewSession, AfterRequest DEF RecordMoves
<1> HIDE DEF Session, S
<1>7. CASE Session(k) = k
  BY <1>3, <1>4, <1>7
<1>8. CASE Session(k) = 0
  BY <1>4, <1>8
<1>9. CASE Session(k) = Session(k - 1) /\ Session(k) # 0
  BY <1>3, <1>4, <1>5, <1>9
<1> QED
  BY <1>6, <1>7, <1>8, <1>9

\* Sessions of a client that are open at two ops: the later is the later one.
LEMMA SessionsAscend ==
  ASSUME NEW h, NEW m \in Nat, History(h, m), NEW n \in 0 .. m, NEW i \in 0 .. n,
         NEW c \in Client,
         ClientTable(h, i)[c].session # 0, ClientTable(h, n)[c].session # 0
  PROVE  /\ ClientTable(h, i)[c].session <= ClientTable(h, n)[c].session
         /\ \/ ClientTable(h, i)[c].session = ClientTable(h, n)[c].session
            \/ i < ClientTable(h, n)[c].session
<1> DEFINE s == ClientTable(h, i)[c].session
           t == ClientTable(h, n)[c].session
<1>1. i \in 0 .. m
  OBVIOUS
<1>2. s \in 1 .. i
  BY <1>1, SessionBegan
<1>3. t \in 1 .. n /\ \A j \in t .. n : ClientTable(h, j)[c].session = t
  BY SessionBegan
<1> HIDE DEF s, t, History
<1>4. CASE t <= i
  <2>1. i \in t .. n
    BY <1>3, <1>4
  <2> QED
    BY <1>2, <1>3, <2>1 DEF s, t
<1>5. CASE i < t
  BY <1>2, <1>3, <1>5 DEF s, t
<1> QED
  BY <1>2, <1>3, <1>4, <1>5

-----------------------------------------------------------------------------
(* The log *)

\* The table before the entry at i executes.
TableBefore(log, i) == ClientTable(log, i - 1)

\* What a primary makes of its log, whatever prefix of it has executed.  A
\* request is the next of its session if that is still open when it executes,
\* and was registered before; the sessions of a client come in order.
OrderedLog(log, n) ==
  /\ log \in [1 .. n -> Entries]
  /\ \A i \in 1 .. n :
       /\ log[i].session = 0 <=> log[i].number = 0
       /\ InOrder(TableBefore(log, i), log[i])
       /\ log[i].session # 0 =>
            /\ log[i].session < i
            /\ ClientTable(log, log[i].session)[log[i].client].session = log[i].session
  /\ \A i, j \in 1 .. n :
       i < j /\ log[i].client = log[j].client /\ log[i].session # 0 /\ log[j].session # 0 =>
         log[i].session <= log[j].session

\* Whether an entry is a certain request, and whether that executed as op i.
IsRequest(e, c, session, number) ==
  e.client = c /\ e.session = session /\ e.number = number

ExecutedAt(log, i, c, session, number) ==
  /\ session # 0 /\ IsRequest(log[i], c, session, number)
  /\ InSession(TableBefore(log, i), log[i])

\* The entries of an ordered log are entries.
LEMMA OrderedLogTyped ==
  ASSUME NEW log, NEW n \in Nat, OrderedLog(log, n)
  PROVE  History(log, n)
  BY DEF OrderedLog, History

\* A prefix of an ordered log is one, as the same tables come from it.
LEMMA LogPrefix ==
  ASSUME NEW log, NEW n \in Nat, OrderedLog(log, n), NEW m \in 0 .. n, NEW g,
         g = [i \in 1 .. m |-> log[i]]
  PROVE  OrderedLog(g, m) /\ \A i \in 0 .. m : ClientTable(g, i) = ClientTable(log, i)
<1>1. \A i \in 1 .. m : i \in 1 .. n /\ g[i] = log[i]
  OBVIOUS
<1>2. ASSUME NEW i \in 0 .. m
      PROVE  ClientTable(g, i) = ClientTable(log, i)
  <2>1. i \in Nat /\ \A j \in 1 .. i : g[j] = log[j]
    BY <1>1
  <2> QED
    BY <2>1, ClientTablePrefix
<1>3. g \in [1 .. m -> Entries]
  BY <1>1 DEF OrderedLog
<1>4. ASSUME NEW i \in 1 .. m
      PROVE  /\ g[i].session = 0 <=> g[i].number = 0
             /\ InOrder(TableBefore(g, i), g[i])
             /\ g[i].session # 0 =>
                  /\ g[i].session < i
                  /\ ClientTable(g, g[i].session)[g[i].client].session = g[i].session
  <2>1. /\ log[i].session = 0 <=> log[i].number = 0
        /\ InOrder(TableBefore(log, i), log[i])
        /\ log[i].session # 0 =>
             /\ log[i].session < i
             /\ ClientTable(log, log[i].session)[log[i].client].session = log[i].session
        /\ log[i] \in Entries
    BY <1>1 DEF OrderedLog
  <2>2. TableBefore(g, i) = TableBefore(log, i)
    BY <1>2 DEF TableBefore
  <2>3. log[i].session # 0 => log[i].session \in 0 .. m
    BY <2>1 DEF Entries
  <2> QED
    BY <1>1, <1>2, <2>1, <2>2, <2>3
<1>5. \A i, j \in 1 .. m :
        i < j /\ g[i].client = g[j].client /\ g[i].session # 0 /\ g[j].session # 0 =>
          g[i].session <= g[j].session
  BY <1>1 DEF OrderedLog
<1> QED
  BY <1>2, <1>3, <1>4, <1>5 DEF OrderedLog

\* What a request that executed leaves.
LEMMA RecordOfExecuted ==
  ASSUME NEW log, NEW n \in Nat, OrderedLog(log, n), NEW i \in 1 .. n, NEW c \in Client,
         NEW s, NEW number, ExecutedAt(log, i, c, s, number)
  PROVE  /\ ClientTable(log, i)[c].session = s
         /\ ClientTable(log, i)[c].number = number
         /\ ClientTable(log, i - 1)[c].session = s
         /\ ClientTable(log, i - 1)[c].number + 1 = number
<1>1. /\ i - 1 \in 0 .. n - 1 /\ i - 1 \in 0 .. n /\ i - 1 + 1 = i /\ History(log, n)
      /\ log[i].client = c /\ log[i].session = s /\ log[i].number = number /\ s # 0
      /\ ClientTable(log, i - 1)[c].session = s
  BY OrderedLogTyped DEF ExecutedAt, IsRequest, InSession, TableBefore
<1>2. RecordMoves(ClientTable(log, i - 1)[c], ClientTable(log, i)[c], i, log[i], c)
  BY <1>1, RecordStep
<1>3. ClientTable(log, i)[c] = RecordAfter(ClientTable(log, i - 1)[c], i, log[i])
  BY <1>1, <1>2 DEF RecordMoves
<1>4. ClientTable(log, i - 1)[c] \in Records
  BY <1>1, TableTyped
<1>5. InOrder(ClientTable(log, i - 1), log[i])
  BY DEF OrderedLog, TableBefore
<1> QED
  BY <1>1, <1>3, <1>4, <1>5, AfterRequest DEF InOrder, InSession

\* Whether a request executed depends on the log up to it.
LEMMA ExecutedPrefix ==
  ASSUME NEW log, NEW g, NEW i \in Nat \ {0}, \A j \in 1 .. i : log[j] = g[j],
         NEW c, NEW s, NEW number
  PROVE  ExecutedAt(log, i, c, s, number) <=> ExecutedAt(g, i, c, s, number)
<1>1. i - 1 \in Nat /\ i \in 1 .. i /\ \A j \in 1 .. i - 1 : log[j] = g[j]
  OBVIOUS
<1>2. ClientTable(log, i - 1) = ClientTable(g, i - 1)
  BY <1>1, ClientTablePrefix
<1>3. log[i] = g[i]
  BY <1>1
<1> QED
  BY <1>2, <1>3 DEF ExecutedAt, TableBefore

\* An entry appended to a log: it is in order if its session is still open, and
\* its session began and is the latest of its client in the log.
LEMMA AppendKeeps ==
  ASSUME NEW log, NEW n \in Nat, OrderedLog(log, n), NEW e \in Entries,
         e.session = 0 <=> e.number = 0,
         InOrder(ClientTable(log, n), e),
         e.session # 0 => /\ e.session <= n
                          /\ ClientTable(log, e.session)[e.client].session = e.session
                          /\ \A i \in 1 .. n : log[i].client = e.client =>
                               log[i].session <= e.session,
         NEW g, g = [i \in 1 .. n + 1 |-> IF i = n + 1 THEN e ELSE log[i]]
  PROVE  OrderedLog(g, n + 1)
<1>1. /\ n + 1 \in 1 .. n + 1 /\ g[n + 1] = e /\ n + 1 - 1 = n
      /\ \A i \in 1 .. n : i \in 1 .. n + 1 /\ g[i] = log[i]
      /\ \A i \in 1 .. n + 1 : i = n + 1 \/ i \in 1 .. n
  OBVIOUS
<1>2. ASSUME NEW i \in 0 .. n
      PROVE  ClientTable(g, i) = ClientTable(log, i)
  <2>1. i \in Nat /\ \A j \in 1 .. i : g[j] = log[j]
    BY <1>1
  <2> QED
    BY <2>1, ClientTablePrefix
<1>3. g \in [1 .. n + 1 -> Entries]
  BY DEF OrderedLog
<1>4. ASSUME NEW i \in 1 .. n + 1
      PROVE  /\ g[i].session = 0 <=> g[i].number = 0
             /\ InOrder(TableBefore(g, i), g[i])
             /\ g[i].session # 0 =>
                  /\ g[i].session < i
                  /\ ClientTable(g, g[i].session)[g[i].client].session = g[i].session
  <2>1. CASE i = n + 1
    <3>1. TableBefore(g, i) = ClientTable(log, n)
      BY <1>1, <1>2, <2>1 DEF TableBefore
    <3>2. e.session # 0 => e.session \in 0 .. n /\ e.session < i
      BY <2>1 DEF Entries
    <3> QED
      BY <1>1, <1>2, <2>1, <3>1, <3>2
  <2>2. CASE i # n + 1
    <3>1. i \in 1 .. n /\ i - 1 \in 0 .. n /\ g[i] = log[i]
      BY <1>1, <2>2
    <3>2. /\ log[i].session = 0 <=> log[i].number = 0
          /\ InOrder(TableBefore(log, i), log[i])
          /\ log[i].session # 0 =>
               /\ log[i].session < i
               /\ ClientTable(log, log[i].session)[log[i].client].session = log[i].session
          /\ log[i] \in Entries
      BY <3>1 DEF OrderedLog
    <3>3. TableBefore(g, i) = TableBefore(log, i)
      BY <1>2, <3>1 DEF TableBefore
    <3>4. log[i].session # 0 => log[i].session \in 0 .. n
      BY <3>1, <3>2 DEF Entries
    <3> QED
      BY <1>2, <3>1, <3>2, <3>3, <3>4
  <2> QED
    BY <2>1, <2>2
<1>5. ASSUME NEW i \in 1 .. n + 1, NEW j \in 1 .. n + 1,
             i < j, g[i].client = g[j].client, g[i].session # 0, g[j].session # 0
      PROVE  g[i].session <= g[j].session
  <2>1. i \in 1 .. n /\ g[i] = log[i]
    BY <1>1, <1>5
  <2>2. CASE j = n + 1
    BY <1>1, <1>5, <2>1, <2>2
  <2>3. CASE j # n + 1
    <3>1. j \in 1 .. n /\ g[j] = log[j]
      BY <1>1, <2>3
    <3> QED
      BY <1>5, <2>1, <3>1 DEF OrderedLog
  <2> QED
    BY <2>2, <2>3
<1> QED
  BY <1>3, <1>4, <1>5 DEF OrderedLog

\* The number of a session stays if no request of it executes.
LEMMA NumberStays ==
  ASSUME NEW log, NEW m \in Nat, History(log, m), NEW n \in 0 .. m, NEW i \in 0 .. n,
         NEW c \in Client, NEW s, s # 0,
         ClientTable(log, i)[c].session = s, ClientTable(log, n)[c].session = s,
         \A j \in i + 1 .. n : ~(log[j].client = c /\ log[j].session = s)
  PROVE  ClientTable(log, n)[c].number = ClientTable(log, i)[c].number
<1> DEFINE Number(k) == ClientTable(log, k)[c].number
           S == {k \in i .. n : Number(k) # Number(i)}
<1> SUFFICES ASSUME S # {} PROVE FALSE
  OBVIOUS
<1>0. i \in Nat /\ i \in 0 .. m
  OBVIOUS
<1>1. PICK k \in S : \A x \in S : k <= x
  <2>1. S \in SUBSET Nat
    BY <1>0
  <2> HIDE DEF S
  <2> QED
    BY <2>1, LeastExists
<1>2. s \in 1 .. i /\ \A x \in s .. n : ClientTable(log, x)[c].session = s
  <2>1. s \in 1 .. i
    BY <1>0, SessionBegan
  <2> QED
    BY <2>1, SessionBegan
<1>3. k # i
  OBVIOUS
<1>4. /\ k \in i + 1 .. n /\ k - 1 \in i .. n /\ k - 1 \in 0 .. m - 1 /\ k - 1 \in 0 .. m
      /\ k - 1 + 1 = k /\ k \in s .. n /\ k - 1 \in s .. n /\ s # k
  BY <1>0, <1>2, <1>3
<1>5. Number(k - 1) = Number(i) /\ Number(k) # Number(i)
  BY <1>1, <1>4
<1>6. RecordMoves(ClientTable(log, k - 1)[c], ClientTable(log, k)[c], k, log[k], c)
  BY <1>4, RecordStep
<1>7. ClientTable(log, k - 1)[c].session = s /\ ClientTable(log, k)[c].session = s
  BY <1>2, <1>4
<1>8. ClientTable(log, k)[c] = ClientTable(log, k - 1)[c]
  BY <1>4, <1>6, <1>7, NewSession DEF RecordMoves, NoRecord
<1> QED
  BY <1>5, <1>8

\* The sessions of the entries that executed are not after the one that is open.
LEMMA SessionsBefore ==
  ASSUME NEW log, NEW n \in Nat, OrderedLog(log, n), NEW m \in 0 .. n, NEW c \in Client,
         ClientTable(log, m)[c].session # 0, NEW i \in 1 .. m, log[i].client = c
  PROVE  log[i].session <= ClientTable(log, m)[c].session
<1>1. History(log, n) /\ i \in 1 .. n /\ log[i].session \in Nat
  BY OrderedLogTyped DEF History, Entries
<1>2. ClientTable(log, m)[c].session \in Nat
  BY <1>1, TableTyped DEF Records
<1>3. CASE log[i].session # 0
  <2>1. /\ log[i].session < i
        /\ ClientTable(log, log[i].session)[c].session = log[i].session
    BY <1>1, <1>3 DEF OrderedLog
  <2>2. log[i].session \in 0 .. m
    BY <1>1, <2>1
  <2> QED
    BY <1>1, <1>3, <2>1, <2>2, SessionsAscend
<1> QED
  BY <1>1, <1>2, <1>3

\* A replica with the ordered log, of which it holds what has not executed.
Reads(r, log) ==
  /\ r.op_number \in Nat /\ r.applied \in 0 .. r.op_number
  /\ OrderedLog(log, r.op_number)
  /\ \A i \in r.applied + 1 .. r.op_number : r.log[i] = log[i]

\* The last entry of a client that has not executed.
LEMMA WaitingIs ==
  ASSUME NEW r, NEW log, Reads(r, log), NEW c
  PROVE  \/ /\ Pending(r, c) = NoPending
            /\ \A i \in r.applied + 1 .. r.op_number : log[i].client # c
         \/ \E last \in r.applied + 1 .. r.op_number :
              /\ log[last].client = c
              /\ \A i \in r.applied + 1 .. r.op_number : log[i].client = c => i <= last
              /\ Pending(r, c) # NoPending
              /\ Pending(r, c).number = log[last].number
              /\ Pending(r, c).session = IF log[last].session = 0 THEN last
                                         ELSE log[last].session
<1> DEFINE waiting == {i \in r.applied + 1 .. r.op_number : log[i].client = c}
           last == Max(waiting)
<1>0. r.op_number \in Nat /\ r.applied \in Nat
  BY DEF Reads
<1>a. waiting = {i \in r.applied + 1 .. r.op_number : r.log[i].client = c}
  BY DEF Reads
<1>1. CASE waiting = {}
  BY <1>a, <1>1 DEF Pending
<1>2. CASE waiting # {}
  <2>1. waiting \in SUBSET (0 .. r.op_number)
    BY <1>0
  <2>2. last \in waiting /\ \A n \in waiting : n <= last
    <3> HIDE DEF waiting
    <3> QED
      BY <1>0, <1>2, <2>1, MaxIsGreatest
  <2>3. Pending(r, c) = [session |-> IF log[last].session = 0 THEN last ELSE log[last].session,
                         number |-> log[last].number]
    <3>1. r.log[last] = log[last]
      BY <2>2 DEF Reads
    <3> QED
      BY <1>a, <1>2, <3>1 DEF Pending
  <2> HIDE DEF last
  <2>4. last # 0
    BY <1>0, <2>2
  <2>5. Pending(r, c) # NoPending
    BY <2>3, <2>4 DEF NoPending
  <2> QED
    BY <2>2, <2>3, <2>5
<1> QED
  BY <1>1, <1>2

\* A request is the next of its session.
NextOf(r, log, c, s, number) ==
  /\ ClientTable(log, r.applied)[c].session = s
  /\ ~(Pending(r, c) # NoPending /\ Pending(r, c).session > s)
  /\ number = (IF Pending(r, c) # NoPending /\ Pending(r, c).session = s
               THEN Pending(r, c).number
               ELSE ClientTable(log, r.applied)[c].number) + 1

\* The next request of an open session is in order, whatever waits to execute.
LEMMA NextInOrder ==
  ASSUME NEW r, NEW log, Reads(r, log), NEW c \in Client, NEW s \in Nat \ {0},
         NEW number \in Nat \ {0}, NEW answered \in Nat, NextOf(r, log, c, s, number),
         NEW e, e = Request(c, s, number, answered),
         NEW g, g = [i \in 1 .. r.op_number + 1 |-> IF i = r.op_number + 1 THEN e ELSE log[i]]
  PROVE  OrderedLog(g, r.op_number + 1)
<1> DEFINE n == r.op_number
           m == r.applied
<1>1. /\ OrderedLog(log, n) /\ n \in Nat /\ m \in 0 .. n /\ m \in Nat
      /\ History(log, n)
  BY OrderedLogTyped DEF Reads
<1>2. /\ e \in Entries /\ e.client = c /\ e.session = s /\ e.number = number
  BY DEF Request, Entries
<1> HIDE DEF n, m
<1> USE DEF NextOf
<1>3. ClientTable(log, m)[c].session = s
  BY DEF m
<1>4. s \in 1 .. m /\ \A i \in s .. m : ClientTable(log, i)[c].session = s
  BY <1>1, <1>3, SessionBegan
<1>5. s <= n /\ ClientTable(log, s)[c].session = s
  BY <1>1, <1>4
<1>6. \/ /\ Pending(r, c) = NoPending
         /\ \A i \in m + 1 .. n : log[i].client # c
      \/ \E last \in m + 1 .. n :
           /\ log[last].client = c
           /\ \A i \in m + 1 .. n : log[i].client = c => i <= last
           /\ Pending(r, c) # NoPending
           /\ Pending(r, c).number = log[last].number
           /\ Pending(r, c).session = IF log[last].session = 0 THEN last ELSE log[last].session
  BY WaitingIs DEF m, n
<1>7. ASSUME NEW last \in m + 1 .. n,
             Pending(r, c) # NoPending,
             Pending(r, c).session = IF log[last].session = 0 THEN last ELSE log[last].session
      PROVE  log[last].session # 0 /\ log[last].session <= s /\ log[last].session \in Nat
  <2>1. last \in 1 .. n /\ log[last].session \in Nat
    BY <1>1 DEF History, Entries
  <2> QED
    BY <1>1, <1>4, <1>7, <2>1
<1>8. ASSUME NEW i \in 1 .. n, log[i].client = c
      PROVE  log[i].session <= s
  <2>1. CASE i <= m
    <3>1. i \in 1 .. m
      BY <1>1, <2>1
    <3> QED
      BY <1>1, <1>3, <1>8, <3>1, SessionsBefore
  <2>2. CASE ~(i <= m)
    <3>1. i \in m + 1 .. n /\ log[i].session \in Nat
      BY <1>1, <2>2 DEF History, Entries
    <3>2. PICK last \in m + 1 .. n :
             /\ log[last].client = c /\ i <= last
             /\ Pending(r, c) # NoPending
             /\ Pending(r, c).session = IF log[last].session = 0 THEN last ELSE log[last].session
      BY <1>6, <1>8, <3>1
    <3>3. log[last].session # 0 /\ log[last].session <= s /\ log[last].session \in Nat
      BY <1>7, <3>2
    <3>4. CASE i = last \/ log[i].session = 0
      BY <3>3, <3>4
    <3>5. CASE i # last /\ log[i].session # 0
      <4>1. i < last /\ last \in 1 .. n
        BY <1>1, <3>1, <3>2, <3>5
      <4>2. log[i].session <= log[last].session
        BY <1>1, <1>8, <3>2, <3>3, <3>5, <4>1 DEF OrderedLog
      <4> QED
        BY <3>1, <3>3, <4>2
    <3> QED
      BY <3>4, <3>5
  <2> QED
    BY <2>1, <2>2
<1>9. ASSUME ClientTable(log, n)[c].session = s
      PROVE  ClientTable(log, n)[c].number + 1 = number
  <2>1. n \in 0 .. n /\ m \in 0 .. n
    BY <1>1
  <2>2. \A i \in s .. n : ClientTable(log, i)[c].session = s
    BY <1>1, <1>9, <2>1, SessionBegan
  <2>3. CASE Pending(r, c) # NoPending /\ Pending(r, c).session = s
    <3>1. PICK last \in m + 1 .. n :
           /\ log[last].client = c
           /\ \A i \in m + 1 .. n : log[i].client = c => i <= last
           /\ Pending(r, c).number = log[last].number
           /\ Pending(r, c).session = IF log[last].session = 0 THEN last ELSE log[last].session
      BY <1>6, <2>3
    <3>2. log[last].session = s /\ number = log[last].number + 1
      BY <1>7, <2>3, <3>1
    <3>3. /\ last \in 1 .. n /\ last - 1 \in s .. n /\ last \in 0 .. n /\ last \in s .. n
          /\ \A i \in last + 1 .. n : i \in m + 1 .. n /\ ~(i <= last)
      BY <1>1, <1>4
    <3>4. ExecutedAt(log, last, c, s, log[last].number)
      BY <2>2, <3>1, <3>2, <3>3 DEF ExecutedAt, IsRequest, InSession, TableBefore
    <3>5. ClientTable(log, last)[c].number = log[last].number
      BY <1>1, <3>3, <3>4, RecordOfExecuted
    <3>6. \A i \in last + 1 .. n : ~(log[i].client = c /\ log[i].session = s)
      BY <3>1, <3>3
    <3>7. ClientTable(log, n)[c].number = ClientTable(log, last)[c].number
      <4>1. ClientTable(log, last)[c].session = s
        BY <2>2, <3>3
      <4>2. n \in Nat /\ n \in 0 .. n /\ last \in 0 .. n /\ c \in Client /\ s # 0
        BY <1>1, <2>1, <3>3
      <4> QED
        BY ONLY <1>1, <1>9, <3>6, <4>1, <4>2, NumberStays
    <3> QED
      BY <3>2, <3>5, <3>7
  <2>4. CASE ~(Pending(r, c) # NoPending /\ Pending(r, c).session = s)
    <3>1. number = ClientTable(log, m)[c].number + 1
      BY <2>4 DEF m
    <3>2. ASSUME NEW i \in m + 1 .. n, log[i].client = c, log[i].session = s
          PROVE  FALSE
      <4>1. PICK last \in m + 1 .. n :
             /\ log[last].client = c /\ i <= last
             /\ Pending(r, c) # NoPending
             /\ Pending(r, c).session = IF log[last].session = 0 THEN last ELSE log[last].session
        BY <1>6, <3>2
      <4>2. log[last].session # 0 /\ log[last].session <= s /\ log[last].session \in Nat
        BY <1>7, <4>1
      <4>3. log[last].session # s /\ i # last
        BY <2>4, <3>2, <4>1, <4>2
      <4>4. i < last /\ last \in 1 .. n /\ i \in 1 .. n
        BY <1>1, <4>1, <4>3
      <4>5. s <= log[last].session
        BY <1>1, <3>2, <4>1, <4>2, <4>4 DEF OrderedLog
      <4> QED
        BY <4>2, <4>3, <4>5
    <3>3. ClientTable(log, n)[c].number = ClientTable(log, m)[c].number
      BY <1>1, <1>3, <1>9, <2>1, <3>2, NumberStays
    <3> QED
      BY <3>1, <3>3
  <2> QED
    BY <2>3, <2>4
<1>10. InOrder(ClientTable(log, n), e)
  BY <1>2, <1>9 DEF InOrder, InSession
<1>11. g = [i \in 1 .. n + 1 |-> IF i = n + 1 THEN e ELSE log[i]]
  BY DEF n
<1> QED
  BY <1>1, <1>2, <1>5, <1>8, <1>10, <1>11, AppendKeeps DEF n

\* A registration always is.
LEMMA RegistrationInOrder ==
  ASSUME NEW r, NEW log, Reads(r, log), NEW c \in Client
  PROVE  LET e == Registration(c)
             g == [i \in 1 .. r.op_number + 1 |-> IF i = r.op_number + 1 THEN e ELSE log[i]]
         IN  OrderedLog(g, r.op_number + 1)
<1> DEFINE e == Registration(c)
<1>1. e \in Entries /\ e.session = 0 /\ e.number = 0
  BY DEF Registration, Entries
<1>2. InOrder(ClientTable(log, r.op_number), e)
  BY <1>1 DEF InOrder
<1>3. OrderedLog(log, r.op_number) /\ r.op_number \in Nat
  BY DEF Reads
<1> HIDE DEF e
<1> QED
  BY <1>1, <1>2, <1>3, AppendKeeps DEF e

=============================================================================
