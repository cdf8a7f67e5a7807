------------------------- MODULE SessionTableProofs -------------------------
(* The client table a replica keeps in memory is the one its log makes,    *)
(* for every set of clients, every limit on sessions, every share of       *)
(* candidates and every log: the invariants of SessionTable, proved from   *)
(* IInv.                                                                   *)
EXTENDS SessionTable, ReplicaFacts

-----------------------------------------------------------------------------
(* The inductive invariant *)

States == [record : Records, pending : [session : Nat, number : Nat]]

\* Every client in the map has a record or a pending entry.
MapOK(map) ==
  /\ DOMAIN map \subseteq Client
  /\ \A c \in DOMAIN map : map[c] \in States /\ map[c] # Unknown

\* The logs a primary makes: registrations, and requests none of which comes twice.
LogOK(entries, n) ==
  /\ entries \in [1 .. n -> Entries]
  /\ \A i \in 1 .. n : entries[i].session = 0 <=> entries[i].number = 0
  /\ \A i, j \in 1 .. n :
       i # j /\ entries[i].client = entries[j].client /\ entries[i].session # 0 =>
         <<entries[i].session, entries[i].number>> # <<entries[j].session, entries[j].number>>

\* The pending entry of c in a log of n entries of which a executed.
PendingIn(entries, a, n, c) ==
  Pending([log |-> entries, applied |-> a, op_number |-> n], c)

\* Candidates in the order of their ops; a session that is none of them has its
\* latest entry after theirs.
CandidatesOK(candidates, table, n) ==
  /\ candidates \in Seq([op : 1 .. n, client : Client])
  /\ \A i, j \in DOMAIN candidates : i < j => candidates[i].op < candidates[j].op
  /\ \A c \in Held(table) :
       \/ \E i \in DOMAIN candidates : candidates[i] = [op |-> table[c].op, client |-> c]
       \/ \A i \in DOMAIN candidates : candidates[i].op < table[c].op

TypeOK ==
  /\ op_number \in Nat /\ applied \in 0 .. op_number
  /\ LogOK(log, op_number)
  /\ MapOK(clients)

RecordsInv ==
  LET table == ClientTable(log, applied) IN
  /\ \A c \in Client : StateOf(clients, c).record = table[c]
  /\ sessions = Cardinality(Held(table))
  /\ CandidatesOK(eviction_candidates, table, applied)

PendingInv ==
  \A c \in Client : StateOf(clients, c).pending = PendingIn(log, applied, op_number, c)

IInv == TypeOK /\ RecordsInv /\ PendingInv

-----------------------------------------------------------------------------
(* The map *)

\* An entry of the map changes alone, and one that holds nothing goes.
LEMMA WithState ==
  ASSUME NEW map, MapOK(map), NEW c \in Client, NEW s \in States
  PROVE  /\ MapOK(With(map, c, s))
         /\ \A d \in Client : StateOf(With(map, c, s), d) = IF d = c THEN s ELSE StateOf(map, d)
<1> DEFINE rest == DOMAIN map \ {c}
<1>1. CASE s = Unknown
  <2> DEFINE m == [d \in rest |-> map[d]]
  <2>1. With(map, c, s) = m
    BY <1>1 DEF With
  <2>2. DOMAIN m = rest /\ \A d \in rest : m[d] = map[d]
    OBVIOUS
  <2> HIDE DEF m
  <2>3. MapOK(m)
    BY <2>2 DEF MapOK
  <2>4. \A d \in Client : StateOf(m, d) = IF d = c THEN s ELSE StateOf(map, d)
    BY <1>1, <2>2 DEF StateOf
  <2> QED
    BY <2>1, <2>3, <2>4
<1>2. CASE s # Unknown
  <2> DEFINE m == [d \in rest \union {c} |-> IF d = c THEN s ELSE map[d]]
  <2>1. With(map, c, s) = m
    BY <1>2 DEF With
  <2>2. /\ DOMAIN m = rest \union {c} /\ m[c] = s
        /\ \A d \in rest : m[d] = map[d]
    OBVIOUS
  <2> HIDE DEF m
  <2>3. MapOK(m)
    BY <1>2, <2>2 DEF MapOK
  <2>4. \A d \in Client : StateOf(m, d) = IF d = c THEN s ELSE StateOf(map, d)
    BY <2>2 DEF StateOf
  <2> QED
    BY <2>1, <2>3, <2>4
<1> QED
  BY <1>1, <1>2

\* Every client has a state.
LEMMA StateTyped ==
  ASSUME NEW map, MapOK(map), NEW c \in Client
  PROVE  StateOf(map, c) \in States
<1>1. Unknown \in States
  BY NoRecordTyped DEF Unknown, States, None, NoPending
<1> QED
  BY <1>1 DEF StateOf, MapOK

-----------------------------------------------------------------------------
(* find_eviction_candidates *)

\* The members of S have ops of their own, up to b.
Ordered(S, b) ==
  /\ IsFiniteSet(S)
  /\ \A x \in S : x.op \in 0 .. b
  /\ \A x, y \in S : x.op = y.op => x = y

Sorted(s) == \A i, j \in DOMAIN s : i < j => s[i].op < s[j].op

\* They can be sorted.
LEMMA SortedExists ==
  ASSUME NEW b \in Nat, NEW S, Ordered(S, b)
  PROVE  \E s \in SetToSeqs(S) : Sorted(s)
<1> DEFINE Fails(n) == \E T : /\ Ordered(T, b) /\ Cardinality(T) = n
                              /\ ~ \E s \in SetToSeqs(T) : Sorted(s)
           Bad == {n \in Nat : Fails(n)}
<1> SUFFICES ASSUME Bad # {} PROVE FALSE
  <2>1. Cardinality(S) \in Nat
    BY FS_CardinalityType DEF Ordered
  <2> QED
    BY <2>1
<1>1. PICK n \in Bad : \A k \in Bad : n <= k
  <2>1. Bad \in SUBSET Nat
    OBVIOUS
  <2> HIDE DEF Bad
  <2> QED
    BY <2>1, LeastExists
<1>2. PICK T : /\ Ordered(T, b) /\ Cardinality(T) = n
               /\ ~ \E s \in SetToSeqs(T) : Sorted(s)
  OBVIOUS
<1>3. CASE T = {}
  <2> DEFINE s == [i \in 1 .. 0 |-> 0]
  <2>1. Cardinality(T) = 0
    BY <1>3, FS_EmptySet
  <2>2. s \in SetToSeqs(T) /\ Sorted(s)
    BY <1>3, <2>1 DEF SetToSeqs, Sorted
  <2> QED
    BY <1>2, <2>2
<1>4. CASE T # {}
  <2> DEFINE ops == {x.op : x \in T}
  <2>1. ops \in SUBSET (0 .. b) /\ ops # {}
    BY <1>2, <1>4 DEF Ordered
  <2>2. Max(ops) \in ops /\ \A m \in ops : m <= Max(ops)
    <3> HIDE DEF ops
    <3> QED
      BY <2>1, MaxIsGreatest
  <2>3. PICK x \in T : \A y \in T : y.op <= x.op
    <3>1. PICK x \in T : x.op = Max(ops)
      BY <2>2
    <3>2. \A y \in T : y.op \in ops
      OBVIOUS
    <3> QED
      BY <2>2, <3>1, <3>2
  <2> DEFINE U == T \ {x}
  <2>4. IsFiniteSet(U) /\ Cardinality(U) = n - 1 /\ n \in Nat /\ n - 1 \in Nat
    <3>1. IsFiniteSet(U) /\ Cardinality(U) = n - 1
      BY <1>2, FS_RemoveElement DEF Ordered
    <3>2. Cardinality(U) \in Nat
      BY <3>1, FS_CardinalityType
    <3> QED
      BY <3>1, <3>2
  <2>5. Ordered(U, b) /\ \A y \in U : y.op < x.op
    BY <1>2, <2>3, <2>4 DEF Ordered
  <2>6. ~Fails(n - 1)
    <3>1. n - 1 \notin Bad
      BY <1>1, <2>4
    <3> QED
      BY <2>4, <3>1
  <2>7. PICK s \in SetToSeqs(U) : Sorted(s)
    BY <2>4, <2>5, <2>6
  <2>8. s \in [1 .. n - 1 -> U] /\ \A i, j \in 1 .. n - 1 : i # j => s[i] # s[j]
    BY <2>4, <2>7 DEF SetToSeqs
  <2> DEFINE r == [i \in 1 .. n |-> IF i = n THEN x ELSE s[i]]
  <2>9. /\ r \in [1 .. n -> T] /\ (n \in 1 .. n => r[n] = x)
        /\ \A i \in 1 .. n : i # n => i \in 1 .. n - 1 /\ r[i] = s[i] /\ r[i] \in U
    BY <2>4, <2>8
  <2> HIDE DEF r, U
  <2>10. Sorted(r)
    <3> SUFFICES ASSUME NEW i \in 1 .. n, NEW j \in 1 .. n, i < j
                 PROVE  r[i].op < r[j].op
      BY <2>9 DEF Sorted
    <3>1. i # n
      BY <2>4
    <3>2. CASE j = n
      BY <2>5, <2>9, <3>1, <3>2
    <3>3. CASE j # n
      BY <2>7, <2>8, <2>9, <3>1, <3>3 DEF Sorted
    <3> QED
      BY <3>2, <3>3
  <2>11. \A i, j \in 1 .. n : i # j => r[i] # r[j]
    <3> SUFFICES ASSUME NEW i \in 1 .. n, NEW j \in 1 .. n, i # j
                 PROVE  r[i] # r[j]
      OBVIOUS
    <3>1. r[i].op < r[j].op \/ r[j].op < r[i].op
      BY <2>4, <2>9, <2>10 DEF Sorted
    <3>2. r[i].op \in Int /\ r[j].op \in Int
      BY <1>2, <2>9 DEF Ordered
    <3> QED
      BY <3>1, <3>2
  <2>12. r \in SetToSeqs(T)
    BY <1>2, <2>9, <2>11 DEF SetToSeqs
  <2> QED
    BY <1>2, <2>10, <2>12
<1> QED
  BY <1>3, <1>4

\* A sequence of the members of a set has every one of them.
LEMMA SeqsAreOnto ==
  ASSUME NEW S, IsFiniteSet(S), NEW s \in SetToSeqs(S), NEW x \in S
  PROVE  \E i \in 1 .. Cardinality(S) : s[i] = x
<1> DEFINE n == Cardinality(S)
<1>1. n \in Nat
  BY FS_CardinalityType
<1>2. s \in [1 .. n -> S] /\ \A i, j \in 1 .. n : i # j => s[i] # s[j]
  BY DEF SetToSeqs
<1> SUFFICES ASSUME \A i \in 1 .. n : s[i] # x PROVE FALSE
  OBVIOUS
<1>3. s \in [1 .. n -> S \ {x}]
  BY <1>2
<1>4. IsFiniteSet(S \ {x}) /\ Cardinality(S \ {x}) = n - 1
  BY FS_RemoveElement
<1>5. IsFiniteSet(1 .. n) /\ Cardinality(1 .. n) = n
  BY <1>1, FS_Interval
<1> HIDE DEF n
<1>6. \E i, j \in 1 .. n : i # j /\ s[i] = s[j]
  BY <1>1, <1>3, <1>4, <1>5, FS_PigeonHole
<1> QED
  BY <1>2, <1>6

\* The map holds the records of a table.
HasRecords(map, table) ==
  MapOK(map) /\ \A c \in Client : StateOf(map, c).record = table[c]

\* A client has a session in the map if it has one in the table.
LEMMA HeldInMap ==
  ASSUME NEW map, NEW table, HasRecords(map, table)
  PROVE  /\ {c \in DOMAIN map : map[c].record # NoRecord} = Held(table)
         /\ \A c \in Held(table) : c \in DOMAIN map /\ map[c].record = table[c]
<1>1. \A c \in Client : c \notin DOMAIN map => table[c] = NoRecord
  BY DEF HasRecords, StateOf, Unknown
<1>2. \A c \in DOMAIN map : c \in Client /\ map[c].record = table[c]
  BY DEF HasRecords, StateOf, MapOK
<1> QED
  BY <1>1, <1>2 DEF Held

\* The clients of two sessions never have the same latest op.
LEMMA OpsDistinct ==
  ASSUME NEW h, NEW table, NEW n \in Nat, TableOK(h, table, n),
         NEW c \in Held(table), NEW d \in Held(table), table[c].op = table[d].op
  PROVE  c = d
  BY DEF TableOK

\* A scan finds candidates, the oldest of which is current, if there is a session.
LEMMA ScanOK ==
  ASSUME NEW h, NEW table, NEW map, NEW n \in Nat, TableOK(h, table, n),
         HasRecords(map, table), Held(table) # {}
  PROVE  /\ CandidatesOK(FindEvictionCandidates(map), table, n)
         /\ 1 \in DOMAIN FindEvictionCandidates(map)
         /\ Current(map, FindEvictionCandidates(map)[1])
<1> DEFINE held == {c \in DOMAIN map : map[c].record # NoRecord}
           kept == Higher(Cardinality(held) \div CandidateShare, 1)
           found == {[op |-> map[c].record.op, client |-> c] : c \in held}
           oldest == CHOOSE s \in SetToSeqs(found) :
                       \A i, j \in DOMAIN s : i < j => s[i].op < s[j].op
           k == Lower(kept, Len(oldest))
<1>1. held = Held(table) /\ \A c \in held : map[c].record = table[c]
  BY HeldInMap
<1>2. IsFiniteSet(held) /\ Cardinality(held) \in Nat
  <2>1. held \in SUBSET Client
    BY <1>1 DEF Held
  <2>2. IsFiniteSet(held)
    BY <2>1, FS_Subset, SessionTableAssumption
  <2> QED
    BY <2>2, FS_CardinalityType
<1>3. kept \in Nat /\ kept >= 1
  BY <1>2, SessionTableAssumption, Division DEF Higher
<1>4. \A x \in found : /\ x \in [op : 1 .. n, client : Client] /\ x.client \in Held(table)
                       /\ x.op = table[x.client].op
  <2> SUFFICES ASSUME NEW c \in held
               PROVE  LET x == [op |-> map[c].record.op, client |-> c]
                      IN  /\ x \in [op : 1 .. n, client : Client] /\ x.client \in Held(table)
                          /\ x.op = table[x.client].op
    OBVIOUS
  <2> QED
    BY <1>1 DEF TableOK, Held
<1>5. \A c \in Held(table) : [op |-> table[c].op, client |-> c] \in found
  BY <1>1
<1>6. IsFiniteSet(found)
  <2> DEFINE f == [c \in held |-> [op |-> map[c].record.op, client |-> c]]
  <2>1. f \in Surjection(held, found)
    BY DEF Surjection
  <2> HIDE DEF f, held, found
  <2> QED
    BY <1>2, <2>1, FS_Surjection
<1> HIDE DEF found, held, kept
<1>7. Ordered(found, n)
  <2>1. \A x \in found : x.op \in 0 .. n
    BY <1>4
  <2>2. ASSUME NEW x \in found, NEW y \in found, x.op = y.op
        PROVE  x = y
    <3>1. x.client = y.client
      BY <1>4, <2>2, OpsDistinct
    <3> QED
      BY <1>4, <2>2, <3>1
  <2> QED
    BY <1>6, <2>1, <2>2 DEF Ordered
<1>8. oldest \in SetToSeqs(found) /\ Sorted(oldest)
  <2>1. \E s \in SetToSeqs(found) : Sorted(s)
    BY <1>7, SortedExists
  <2> QED
    BY <2>1, Zenon DEF Sorted
<1> DEFINE m == Cardinality(found)
<1>9. /\ oldest \in [1 .. m -> found] /\ m \in Nat /\ m >= 1
      /\ oldest \in Seq(found) /\ Len(oldest) = m
  <2>1. m \in Nat /\ m # 0
    BY <1>5, <1>6, FS_CardinalityType, FS_EmptySet
  <2>2. oldest \in [1 .. m -> found]
    BY <1>8 DEF SetToSeqs
  <2> HIDE DEF m, oldest
  <2> QED
    BY <2>1, <2>2
<1>10. \A x \in found : \E i \in 1 .. m : oldest[i] = x
  BY <1>6, <1>8, SeqsAreOnto
<1> HIDE DEF oldest, m
<1>11. k \in 1 .. m
  BY <1>3, <1>9 DEF Lower
<1> DEFINE s == SubSeq(oldest, 1, k)
<1>12. FindEvictionCandidates(map) = s
  BY DEF FindEvictionCandidates, held, kept, found, oldest
<1> HIDE DEF k
<1>13. /\ s \in Seq(found) /\ Len(s) = k /\ DOMAIN s = 1 .. k
       /\ \A i \in 1 .. k : s[i] = oldest[i]
  BY <1>9, <1>11
<1> HIDE DEF s
<1>14. \A i \in 1 .. k : s[i] \in found
  BY <1>9, <1>11, <1>13
<1>15. CandidatesOK(s, table, n)
  <2>1. s \in Seq([op : 1 .. n, client : Client])
    <3> DEFINE R == [op : 1 .. n, client : Client]
    <3>1. \A i \in 1 .. k : s[i] \in R
      BY <1>4, <1>14
    <3> HIDE DEF R
    <3>2. s \in [1 .. k -> R] /\ k \in Nat
      BY <1>9, <1>11, <1>13, <3>1
    <3>3. s \in Seq(R)
      BY <3>2
    <3> QED
      BY <3>3 DEF R
  <2>2. \A i, j \in DOMAIN s : i < j => s[i].op < s[j].op
    BY <1>8, <1>9, <1>11, <1>13 DEF Sorted
  <2>3. ASSUME NEW c \in Held(table)
        PROVE  \/ \E i \in DOMAIN s : s[i] = [op |-> table[c].op, client |-> c]
               \/ \A i \in DOMAIN s : s[i].op < table[c].op
    <3>1. PICK i \in 1 .. m : oldest[i] = [op |-> table[c].op, client |-> c]
      BY <1>5, <1>10
    <3>2. CASE i <= k
      BY <1>11, <1>13, <3>1, <3>2
    <3>3. CASE i > k
      <4> SUFFICES ASSUME NEW j \in DOMAIN s PROVE s[j].op < table[c].op
        OBVIOUS
      <4>1. j \in 1 .. k
        BY <1>13
      <4>2. j \in 1 .. m /\ j < i /\ s[j] = oldest[j]
        BY <1>9, <1>11, <1>13, <3>3, <4>1
      <4>3. oldest[j].op < oldest[i].op
        BY <1>8, <1>9, <4>2 DEF Sorted
      <4> QED
        BY <3>1, <4>2, <4>3
    <3> QED
      BY <1>11, <3>2, <3>3
  <2> QED
    BY <2>1, <2>2, <2>3 DEF CandidatesOK
<1>16. 1 \in DOMAIN s /\ Current(map, s[1])
  <2>1. 1 \in 1 .. k
    BY <1>11
  <2>2. s[1].client \in Held(table) /\ s[1].op = table[s[1].client].op
    BY <1>4, <1>14, <2>1
  <2>3. StateOf(map, s[1].client).record = table[s[1].client]
    BY <2>2 DEF HasRecords, Held
  <2> QED
    BY <1>13, <2>1, <2>2, <2>3 DEF Current
<1> QED
  BY <1>12, <1>15, <1>16

-----------------------------------------------------------------------------
(* evict, register and execute *)

\* t = [clients, sessions, candidates] stands for a table.
Tracks(t, table, n) ==
  /\ HasRecords(t.clients, table)
  /\ t.sessions = Cardinality(Held(table))
  /\ CandidatesOK(t.candidates, table, n)

\* The pending entries of two maps are the same.
SamePending(map1, map2) ==
  \A c \in Client : StateOf(map1, c).pending = StateOf(map2, c).pending

\* The sessions of a table are finitely many.
LEMMA HeldFinite ==
  ASSUME NEW table
  PROVE  IsFiniteSet(Held(table)) /\ Cardinality(Held(table)) \in Nat
<1>1. Held(table) \in SUBSET Client
  BY DEF Held
<1>2. IsFiniteSet(Held(table))
  BY <1>1, FS_Subset, SessionTableAssumption
<1> QED
  BY <1>2, FS_CardinalityType

\* The first current candidate is the session whose latest entry is the oldest.
LEMMA FirstCurrent ==
  ASSUME NEW h, NEW table, NEW map, NEW n \in Nat, TableOK(h, table, n),
         HasRecords(map, table), NEW s, CandidatesOK(s, table, n),
         NEW i \in DOMAIN s, Current(map, s[i]),
         \A j \in DOMAIN s : Current(map, s[j]) => i <= j
  PROVE  /\ s[i].client \in Held(table)
         /\ Evict(table) = [table EXCEPT ![s[i].client] = NoRecord]
         /\ CandidatesOK(SubSeq(s, i + 1, Len(s)), Evict(table), n)
<1> DEFINE c == s[i].client
           R == [op : 1 .. n, client : Client]
<1>1. s \in Seq(R) /\ i \in 1 .. Len(s) /\ DOMAIN s = 1 .. Len(s) /\ Len(s) \in Nat
  <2>1. s \in Seq(R)
    BY DEF CandidatesOK
  <2> HIDE DEF R
  <2> QED
    BY <2>1
<1>2. \A j \in 1 .. Len(s) : s[j] \in R
  <2> HIDE DEF R
  <2> QED
    BY <1>1
<1>3. c \in Held(table) /\ table[c].op = s[i].op
  <2>1. c \in Client /\ s[i].op \in 1 .. n
    BY <1>1, <1>2
  <2>2. table[c].op = s[i].op
    BY <2>1 DEF HasRecords, Current
  <2> QED
    BY <2>1, <2>2 DEF Held, NoRecord
<1>4. ASSUME NEW d \in Held(table)
      PROVE  /\ d = c \/ table[c].op < table[d].op
             /\ d = c \/ (\E j \in i + 1 .. Len(s) : s[j] = [op |-> table[d].op, client |-> d])
                      \/ \A j \in DOMAIN s : s[j].op < table[d].op
  <2>1. CASE \E j \in DOMAIN s : s[j] = [op |-> table[d].op, client |-> d]
    <3>1. PICK j \in DOMAIN s : s[j] = [op |-> table[d].op, client |-> d]
      BY <2>1
    <3>2. Current(map, s[j])
      BY <3>1 DEF Current, HasRecords, Held
    <3>3. i <= j /\ (i = j => d = c)
      BY <3>1, <3>2
    <3>4. CASE i < j
      <4>1. s[i].op < s[j].op
        BY <3>4 DEF CandidatesOK
      <4> QED
        BY <1>1, <1>3, <3>1, <3>4, <4>1
    <3>5. i < j \/ i = j
      BY <1>1, <3>3
    <3> QED
      BY <3>3, <3>4, <3>5
  <2>2. CASE \A j \in DOMAIN s : s[j].op < table[d].op
    BY <1>3, <2>2
  <2> QED
    BY <2>1, <2>2 DEF CandidatesOK
<1>5. Evict(table) = [table EXCEPT ![c] = NoRecord]
  <2> DEFINE oldest == CHOOSE x \in Held(table) : \A d \in Held(table) : table[x].op <= table[d].op
  <2> HIDE DEF c
  <2>1. \A d \in Held(table) : table[d].op \in Nat /\ (d = c \/ table[c].op < table[d].op)
    <3>1. \A d \in Held(table) : table[d].op \in Nat
      BY DEF TableOK
    <3>2. \A d \in Held(table) : d = c \/ table[c].op < table[d].op
      BY <1>4
    <3> QED
      BY <3>1, <3>2
  <2>2. \A d \in Held(table) : table[c].op <= table[d].op
    BY <1>3, <2>1
  <2>3. oldest \in Held(table) /\ \A d \in Held(table) : table[oldest].op <= table[d].op
    BY <1>3, <2>2, Zenon
  <2>4. Evict(table) = [table EXCEPT ![oldest] = NoRecord]
    BY DEF Evict, Held
  <2> HIDE DEF oldest
  <2>5. oldest = c
    BY <1>3, <2>1, <2>3
  <2> QED
    BY <2>4, <2>5
<1>6. CandidatesOK(SubSeq(s, i + 1, Len(s)), Evict(table), n)
  <2> DEFINE q == SubSeq(s, i + 1, Len(s))
  <2>1. /\ q \in Seq(R) /\ Len(q) = Len(s) - i /\ DOMAIN q = 1 .. Len(s) - i
        /\ \A j \in 1 .. Len(s) - i : q[j] = s[i + j] /\ i + j \in DOMAIN s
    <3> HIDE DEF R
    <3> QED
      BY <1>1
  <2> HIDE DEF q
  <2>2. \A j, k \in DOMAIN q : j < k => q[j].op < q[k].op
    <3> SUFFICES ASSUME NEW j \in DOMAIN q, NEW k \in DOMAIN q, j < k
                 PROVE  q[j].op < q[k].op
      OBVIOUS
    <3>1. i + j \in DOMAIN s /\ i + k \in DOMAIN s /\ i + j < i + k
      BY <1>1, <2>1
    <3>2. s[i + j].op < s[i + k].op
      BY <3>1 DEF CandidatesOK
    <3> QED
      BY <2>1, <3>2
  <2>3. ASSUME NEW d \in Held(Evict(table))
        PROVE  \/ \E j \in DOMAIN q : q[j] = [op |-> Evict(table)[d].op, client |-> d]
               \/ \A j \in DOMAIN q : q[j].op < Evict(table)[d].op
    <3>1. d \in Held(table) /\ d # c /\ Evict(table)[d] = table[d]
      BY <1>5 DEF Held, TableOK
    <3>2. CASE \E j \in i + 1 .. Len(s) : s[j] = [op |-> table[d].op, client |-> d]
      <4>1. PICK j \in i + 1 .. Len(s) : s[j] = [op |-> table[d].op, client |-> d]
        BY <3>2
      <4>2. j - i \in DOMAIN q /\ i + (j - i) = j
        BY <1>1, <2>1, <4>1
      <4> QED
        BY <2>1, <3>1, <4>1, <4>2
    <3>3. CASE \A j \in DOMAIN s : s[j].op < table[d].op
      BY <2>1, <3>1, <3>3
    <3> QED
      BY <1>4, <3>1, <3>2, <3>3
  <2> QED
    BY <2>1, <2>2, <2>3 DEF CandidatesOK, q
<1> QED
  BY <1>3, <1>5, <1>6

\* evict takes the session that the table's eviction takes.
LEMMA EvictCandidateOK ==
  ASSUME NEW h, NEW table, NEW t, NEW n \in Nat, TableOK(h, table, n),
         Tracks(t, table, n), Held(table) # {}
  PROVE  /\ Tracks(EvictCandidate(t), Evict(table), n)
         /\ SamePending(EvictCandidate(t).clients, t.clients)
<1> DEFINE map == t.clients
           good(s) == {i \in DOMAIN s : Current(map, s[i])}
           from == IF good(t.candidates) # {} THEN t.candidates
                   ELSE FindEvictionCandidates(map)
           i == Min(good(from))
           c == from[i].client
           s == [map[c] EXCEPT !.record = NoRecord]
<1>1. HasRecords(map, table) /\ MapOK(map) /\ CandidatesOK(t.candidates, table, n)
      /\ t.sessions = Cardinality(Held(table))
  BY DEF Tracks, HasRecords
<1>2. CandidatesOK(from, table, n) /\ good(from) # {}
  <2>1. CASE good(t.candidates) # {}
    BY <1>1, <2>1
  <2>2. CASE good(t.candidates) = {}
    BY <1>1, <2>2, ScanOK
  <2> QED
    BY <2>1, <2>2
<1>3. /\ EvictCandidate(t).clients = With(map, c, s)
      /\ EvictCandidate(t).sessions = t.sessions - 1
      /\ EvictCandidate(t).candidates = SubSeq(from, i + 1, Len(from))
  BY DEF EvictCandidate
<1> HIDE DEF from, map
<1>4. i \in DOMAIN from /\ Current(map, from[i]) /\ \A j \in DOMAIN from : Current(map, from[j]) => i <= j
  <2>1. good(from) \in SUBSET Nat
    BY <1>2 DEF CandidatesOK
  <2>2. Min(good(from)) \in good(from) /\ \A j \in good(from) : Min(good(from)) <= j
    <3> HIDE DEF good
    <3> QED
      BY <1>2, <2>1, MinIsLeast
  <2> QED
    BY <2>2
<1> HIDE DEF i
<1>5. /\ c \in Held(table) /\ Evict(table) = [table EXCEPT ![c] = NoRecord]
      /\ CandidatesOK(SubSeq(from, i + 1, Len(from)), Evict(table), n)
  BY <1>1, <1>2, <1>4, FirstCurrent
<1> HIDE DEF c
<1>6. c \in DOMAIN map /\ map[c] \in States /\ c \in Client /\ StateOf(map, c) = map[c]
  BY <1>1, <1>5, HeldInMap DEF MapOK, Held, StateOf
<1>7. s \in States /\ s.record = NoRecord /\ s.pending = map[c].pending
  BY <1>6, NoRecordTyped DEF States
<1> HIDE DEF s
<1>8. /\ MapOK(With(map, c, s))
      /\ \A d \in Client : StateOf(With(map, c, s), d) = IF d = c THEN s ELSE StateOf(map, d)
  BY <1>1, <1>6, <1>7, WithState
<1>9. \A d \in Client : Evict(table)[d] = IF d = c THEN NoRecord ELSE table[d]
  BY <1>5 DEF TableOK
<1>10. HasRecords(With(map, c, s), Evict(table))
  BY <1>1, <1>7, <1>8, <1>9 DEF HasRecords
<1>11. t.sessions - 1 = Cardinality(Held(Evict(table)))
  <2>1. Held(Evict(table)) = Held(table) \ {c}
    BY <1>9 DEF Held
  <2>2. IsFiniteSet(Held(table))
    BY HeldFinite
  <2> QED
    BY <1>1, <1>5, <2>1, <2>2, FS_RemoveElement
<1>12. SamePending(With(map, c, s), map)
  BY <1>6, <1>7, <1>8 DEF SamePending
<1> QED
  BY <1>3, <1>5, <1>10, <1>11, <1>12 DEF Tracks, map

\* A record takes the place of another and leaves what is pending.
LEMMA RecordPut ==
  ASSUME NEW s \in States, NEW record \in Records
  PROVE  LET new == [s EXCEPT !.record = record]
         IN  new \in States /\ new.record = record /\ new.pending = s.pending
  BY DEF States

\* What clearing key leaves pending for c.
Cleared(map1, map2, c, key) ==
  \A d \in Client :
    StateOf(map2, d).pending = IF d = c /\ StateOf(map1, d).pending = key THEN None
                               ELSE StateOf(map1, d).pending

\* Clearing changes what is pending, if it is the key, and nothing else.
LEMMA ClearTyped ==
  ASSUME NEW s \in States, NEW key
  PROVE  /\ Clear(s, key) \in States /\ Clear(s, key).record = s.record
         /\ Clear(s, key).pending = IF s.pending = key THEN None ELSE s.pending
  BY DEF Clear, States, None, NoPending

\* A client's state with what a cleared entry leaves: the map still has the records.
LEMMA ClearOK ==
  ASSUME NEW map, NEW table, HasRecords(map, table), NEW c \in Client, NEW key,
         NEW s, s = Clear(StateOf(map, c), key)
  PROVE  /\ HasRecords(With(map, c, s), table)
         /\ Cleared(map, With(map, c, s), c, key)
         /\ s \in States /\ s.record = table[c]
         /\ s.pending = IF StateOf(map, c).pending = key THEN None ELSE StateOf(map, c).pending
<1>1. MapOK(map) /\ StateOf(map, c) \in States /\ StateOf(map, c).record = table[c]
  BY StateTyped DEF HasRecords
<1>2. /\ s \in States /\ s.record = table[c]
      /\ s.pending = IF StateOf(map, c).pending = key THEN None ELSE StateOf(map, c).pending
  BY <1>1, ClearTyped
<1>3. /\ MapOK(With(map, c, s))
      /\ \A d \in Client : StateOf(With(map, c, s), d) = IF d = c THEN s ELSE StateOf(map, d)
  BY <1>1, <1>2, WithState
<1> QED
  BY <1>2, <1>3 DEF HasRecords, Cleared

\* Changing one record: the sessions, and the candidates, of the table it makes.
LEMMA NewlyRegistered ==
  ASSUME NEW table \in [Client -> Records], NEW c \in Client, NEW n \in Nat,
         NEW record \in Records, record.op = n + 1, NEW s, CandidatesOK(s, table, n)
  PROVE  /\ CandidatesOK(s, [table EXCEPT ![c] = record], n + 1)
         /\ Held([table EXCEPT ![c] = record]) = Held(table) \union {c}
         /\ \A d \in Client : [table EXCEPT ![c] = record][d] = IF d = c THEN record ELSE table[d]
<1> DEFINE after == [table EXCEPT ![c] = record]
           R == [op : 1 .. n, client : Client]
           Q == [op : 1 .. n + 1, client : Client]
<1>1. \A d \in Client : after[d] = IF d = c THEN record ELSE table[d]
  OBVIOUS
<1>2. record # NoRecord
  BY DEF NoRecord
<1> HIDE DEF after
<1>3. Held(after) = Held(table) \union {c}
  BY <1>1, <1>2 DEF Held
<1>4. s \in Seq(R)
  BY DEF CandidatesOK
<1>5. \A x \in R : x \in Q
  OBVIOUS
<1>6. s \in Seq(Q) /\ \A i \in DOMAIN s : s[i] \in R
  <2> HIDE DEF R, Q
  <2>1. DOMAIN s = 1 .. Len(s) /\ Len(s) \in Nat /\ \A i \in 1 .. Len(s) : s[i] \in R
    BY <1>4
  <2>2. s \in [1 .. Len(s) -> Q]
    BY <1>4, <1>5, <2>1
  <2> QED
    BY <2>1, <2>2
<1>7. \A i \in DOMAIN s : s[i].op < record.op
  BY <1>6
<1>8. ASSUME NEW d \in Held(after)
      PROVE  \/ \E i \in DOMAIN s : s[i] = [op |-> after[d].op, client |-> d]
             \/ \A i \in DOMAIN s : s[i].op < after[d].op
  <2>1. CASE d = c
    BY <1>1, <1>7, <2>1
  <2>2. CASE d # c
    BY <1>1, <1>3, <2>2 DEF CandidatesOK, Held
  <2> QED
    BY <2>1, <2>2
<1>9. CandidatesOK(s, after, n + 1)
  BY <1>6, <1>8 DEF CandidatesOK
<1> QED
  BY <1>1, <1>3, <1>9 DEF after

\* The candidates of a table are those of a longer history.
LEMMA CandidatesLater ==
  ASSUME NEW table, NEW n \in Nat, NEW s, CandidatesOK(s, table, n)
  PROVE  CandidatesOK(s, table, n + 1)
<1> DEFINE R == [op : 1 .. n, client : Client]
           Q == [op : 1 .. n + 1, client : Client]
<1>1. s \in Seq(R)
  BY DEF CandidatesOK
<1>2. \A x \in R : x \in Q
  OBVIOUS
<1>3. s \in Seq(Q)
  <2> HIDE DEF R, Q
  <2>1. DOMAIN s = 1 .. Len(s) /\ Len(s) \in Nat /\ \A i \in 1 .. Len(s) : s[i] \in R
    BY <1>1
  <2>2. s \in [1 .. Len(s) -> Q]
    BY <1>1, <1>2, <2>1
  <2> QED
    BY <2>1, <2>2
<1> QED
  BY <1>3 DEF CandidatesOK

\* A session counts once.
LEMMA OneMoreHeld ==
  ASSUME NEW table, NEW c
  PROVE  Cardinality(Held(table) \union {c}) =
           IF c \in Held(table) THEN Cardinality(Held(table)) ELSE Cardinality(Held(table)) + 1
  BY HeldFinite, FS_AddElement

\* A registration does to the map what it does to the table.
LEMMA RegisterOK ==
  ASSUME NEW h, NEW table, NEW n \in Nat, TableOK(h, table, n),
         NEW map, NEW count, NEW candidates, NEW t,
         t = [clients |-> map, sessions |-> count, candidates |-> candidates],
         Tracks(t, table, n), NEW c \in Client
  PROVE  /\ Tracks(RegisterClient(t, n + 1, c), Registered(table, n + 1, c), n + 1)
         /\ Cleared(map, RegisterClient(t, n + 1, c).clients, c, [session |-> n + 1, number |-> 0])
<1> DEFINE key == [session |-> n + 1, number |-> 0]
           s == Clear(StateOf(map, c), key)
           known == [clients |-> With(map, c, s), sessions |-> count, candidates |-> candidates]
           new == [NoRecord EXCEPT !.session = n + 1, !.op = n + 1]
           room == IF count >= ClientsMax THEN EvictCandidate(known) ELSE known
           old == IF Cardinality(Held(table)) >= ClientsMax THEN Evict(table) ELSE table
           state == [StateOf(room.clients, c) EXCEPT !.record = new]
<1>1. /\ HasRecords(map, table) /\ count = Cardinality(Held(table))
      /\ CandidatesOK(candidates, table, n) /\ count \in Nat
  BY HeldFinite DEF Tracks
<1>2. /\ HasRecords(known.clients, table) /\ Cleared(map, known.clients, c, key)
      /\ s.record = table[c]
  BY <1>1, ClearOK
<1>3. Tracks(known, table, n)
  BY <1>1, <1>2 DEF Tracks
<1>4. CASE table[c] # NoRecord
  <2>1. RegisterClient(t, n + 1, c) = known /\ Registered(table, n + 1, c) = table
    BY <1>2, <1>4 DEF RegisterClient, Registered
  <2>2. Tracks(known, table, n + 1)
    BY <1>3, CandidatesLater DEF Tracks
  <2> QED
    BY <1>2, <2>1, <2>2
<1>5. CASE table[c] = NoRecord
  <2>1. Registered(table, n + 1, c) = [old EXCEPT ![c] = new]
    BY <1>5 DEF Registered, Held
  <2>2. RegisterClient(t, n + 1, c) =
          [room EXCEPT !.clients = With(room.clients, c, state), !.sessions = room.sessions + 1]
    <3>1. [t EXCEPT !.clients = With(@, c, s)] = known
      OBVIOUS
    <3> QED
      BY <1>2, <1>5, <3>1 DEF RegisterClient
  <2>3. new \in Records /\ new.op = n + 1
    <3>1. n + 1 \in Nat
      OBVIOUS
    <3> QED
      BY <3>1, NoRecordTyped DEF NoRecord, Records
  <2>4. /\ Tracks(room, old, n) /\ SamePending(room.clients, known.clients)
        /\ old \in [Client -> Records] /\ old[c] = NoRecord
    <3>1. CASE count >= ClientsMax
      <4>1. Held(table) # {}
        BY <1>1, <3>1, ConfigAssumption, FS_EmptySet
      <4>2. Tracks(EvictCandidate(known), Evict(table), n) /\ SamePending(EvictCandidate(known).clients, known.clients)
        <5> HIDE DEF known
        <5> QED
          BY <1>3, <4>1, EvictCandidateOK
      <4>3. room = EvictCandidate(known) /\ old = Evict(table)
        BY <1>1, <3>1
      <4>4. \A x : /\ [table EXCEPT ![x] = NoRecord] \in [Client -> Records]
                   /\ [table EXCEPT ![x] = NoRecord][c] = NoRecord
        BY <1>5, NoRecordTyped DEF TableOK
      <4> HIDE DEF room, old
      <4> QED
        BY <4>2, <4>3, <4>4 DEF Evict
    <3>2. CASE ~(count >= ClientsMax)
      BY <1>1, <1>3, <1>5, <3>2 DEF SamePending, TableOK
    <3> QED
      BY <3>1, <3>2
  <2>5. /\ DOMAIN room = {"clients", "sessions", "candidates"}
    BY DEF EvictCandidate
  <2>6. /\ HasRecords(room.clients, old) /\ MapOK(room.clients)
        /\ room.sessions = Cardinality(Held(old)) /\ CandidatesOK(room.candidates, old, n)
    BY <2>4 DEF Tracks, HasRecords
  <2> HIDE DEF room, old, new, known
  <2>7. state \in States /\ state.record = new /\ state.pending = StateOf(room.clients, c).pending
    <3>1. StateOf(room.clients, c) \in States
      BY <2>6, StateTyped
    <3> QED
      BY <2>3, <3>1 DEF States
  <2> HIDE DEF state
  <2>8. /\ MapOK(With(room.clients, c, state))
        /\ \A d \in Client : StateOf(With(room.clients, c, state), d) =
                               IF d = c THEN state ELSE StateOf(room.clients, d)
    BY <2>6, <2>7, WithState
  <2> DEFINE after == [old EXCEPT ![c] = new]
             result == RegisterClient(t, n + 1, c)
  <2>9. /\ CandidatesOK(room.candidates, after, n + 1) /\ Held(after) = Held(old) \union {c}
        /\ \A d \in Client : after[d] = IF d = c THEN new ELSE old[d]
    BY <2>3, <2>4, <2>6, NewlyRegistered
  <2> HIDE DEF after
  <2>10. /\ result.clients = With(room.clients, c, state) /\ result.sessions = room.sessions + 1
         /\ result.candidates = room.candidates
    BY <2>2, <2>5
  <2> HIDE DEF result
  <2>11. HasRecords(result.clients, after)
    BY <2>6, <2>7, <2>8, <2>9, <2>10 DEF HasRecords
  <2>12. result.sessions = Cardinality(Held(after))
    <3>1. c \notin Held(old)
      BY <2>4 DEF Held
    <3> QED
      BY <2>6, <2>9, <2>10, <3>1, OneMoreHeld
  <2>13. Cleared(map, result.clients, c, key)
    BY <1>2, <2>4, <2>7, <2>8, <2>10 DEF Cleared, SamePending
  <2> QED
    BY <2>1, <2>9, <2>10, <2>11, <2>12, <2>13 DEF Tracks, after, result
<1> QED
  BY <1>4, <1>5

\* Executing an entry does to the map what it does to the table, and clears the
\* pending entry of its client if this is the one.
LEMMA ExecuteEntryOK ==
  ASSUME NEW h, NEW table, NEW n \in Nat, TableOK(h, table, n),
         NEW map, NEW count, NEW candidates, NEW t,
         t = [clients |-> map, sessions |-> count, candidates |-> candidates],
         Tracks(t, table, n), NEW e \in Entries, e.session = 0 => e.number = 0
  PROVE  /\ Tracks(ExecuteEntry(t, n + 1, e), Executed(table, n + 1, e), n + 1)
         /\ Cleared(map, ExecuteEntry(t, n + 1, e).clients, e.client, PendingKey(n + 1, e))
<1> DEFINE c == e.client
           key == PendingKey(n + 1, e)
           s == Clear(StateOf(map, c), key)
           done == [s EXCEPT !.record = RecordAfter(s.record, n + 1, e)]
<1>1. /\ HasRecords(map, table) /\ count = Cardinality(Held(table))
      /\ CandidatesOK(candidates, table, n) /\ c \in Client /\ table \in [Client -> Records]
  BY DEF Tracks, Entries, TableOK
<1>2. CASE e.session = 0
  <2>1. key = [session |-> n + 1, number |-> 0]
    BY <1>2 DEF PendingKey
  <2>2. /\ ExecuteEntry(t, n + 1, e) = RegisterClient(t, n + 1, c)
        /\ Executed(table, n + 1, e) = Registered(table, n + 1, c)
    BY <1>2 DEF ExecuteEntry, Executed
  <2> QED
    BY <1>1, <2>1, <2>2, RegisterOK
<1>3. CASE e.session # 0
  <2>1. /\ HasRecords(With(map, c, s), table) /\ Cleared(map, With(map, c, s), c, key)
        /\ s \in States /\ s.record = table[c]
        /\ s.pending = IF StateOf(map, c).pending = key THEN None ELSE StateOf(map, c).pending
    BY <1>1, ClearOK
  <2>2. (s.record # NoRecord /\ s.record.session = e.session) <=> InSession(table, e)
    BY <1>3, <2>1 DEF InSession, NoRecord
  <2> DEFINE result == ExecuteEntry(t, n + 1, e)
             state == IF InSession(table, e) THEN done ELSE s
  <2>3. /\ result.clients = With(map, c, state) /\ result.sessions = count
        /\ result.candidates = candidates
    BY <1>3, <2>2 DEF ExecuteEntry
  <2> HIDE DEF result
  <2>4. CASE InSession(table, e)
    <3> DEFINE record == RecordAfter(table[c], n + 1, e)
               after == [table EXCEPT ![c] = record]
    <3>1. Executed(table, n + 1, e) = after
      BY <1>1, <1>3, <2>4 DEF Executed
    <3>2. record \in Records /\ record.op = n + 1
      BY <1>1, RecordAfterTyped
    <3>3. done = [s EXCEPT !.record = record]
      BY <2>1
    <3> HIDE DEF record, s, done
    <3>4. done \in States /\ done.record = record /\ done.pending = s.pending
      BY <2>1, <3>2, <3>3, RecordPut
    <3>5. /\ CandidatesOK(candidates, after, n + 1) /\ Held(after) = Held(table) \union {c}
          /\ \A d \in Client : after[d] = IF d = c THEN record ELSE table[d]
      <4> HIDE DEF c
      <4> QED
        BY <1>1, <3>2, NewlyRegistered
    <3> HIDE DEF after
    <3>6. c \in Held(table)
      <4>1. table[c] # NoRecord
        BY <1>3, <2>2, <2>4, <2>1
      <4> QED
        BY <1>1, <4>1 DEF Held
    <3>7. Held(after) = Held(table)
      BY <3>5, <3>6
    <3>8. /\ MapOK(With(map, c, done))
          /\ \A d \in Client : StateOf(With(map, c, done), d) = IF d = c THEN done ELSE StateOf(map, d)
      BY <1>1, <3>4, WithState DEF HasRecords
    <3>9. HasRecords(With(map, c, done), after)
      BY <1>1, <3>4, <3>5, <3>8 DEF HasRecords
    <3>10. Cleared(map, With(map, c, done), c, key)
      BY <2>1, <3>4, <3>8 DEF Cleared
    <3>11. result.clients = With(map, c, done)
      BY <2>3, <2>4
    <3> QED
      BY <1>1, <2>3, <3>1, <3>5, <3>7, <3>9, <3>10, <3>11 DEF Tracks, result
  <2>5. CASE ~InSession(table, e)
    <3>1. Executed(table, n + 1, e) = table
      BY <1>3, <2>5 DEF Executed
    <3>2. CandidatesOK(candidates, table, n + 1)
      BY <1>1, CandidatesLater
    <3>3. result.clients = With(map, c, s)
      BY <2>3, <2>5
    <3> HIDE DEF s
    <3> QED
      BY <1>1, <2>1, <2>3, <3>1, <3>2, <3>3 DEF Tracks, result
  <2> QED
    BY <2>4, <2>5
<1> QED
  BY <1>2, <1>3

-----------------------------------------------------------------------------
(* What is pending *)

\* The ops of c that have not executed.
Waiting(entries, a, n, c) == {i \in a + 1 .. n : entries[i].client = c}

\* The pending entry of c is the greatest of them.
LEMMA PendingIs ==
  ASSUME NEW l, NEW a \in Nat, NEW n \in Nat, NEW c
  PROVE  /\ Waiting(l, a, n, c) = {} => PendingIn(l, a, n, c) = None
         /\ \A k \in Waiting(l, a, n, c) :
              (\A i \in Waiting(l, a, n, c) : i <= k) => PendingIn(l, a, n, c) = PendingKey(k, l[k])
<1> DEFINE W == Waiting(l, a, n, c)
<1>1. PendingIn(l, a, n, c) = IF W = {} THEN NoPending ELSE PendingKey(Max(W), l[Max(W)])
  BY DEF PendingIn, Pending, Waiting, PendingKey
<1>2. ASSUME NEW k \in W, \A i \in W : i <= k
      PROVE  Max(W) = k
  <2>1. W \in SUBSET (0 .. n) /\ W # {}
    BY DEF Waiting
  <2>2. Max(W) \in W /\ \A i \in W : i <= Max(W)
    BY <2>1, MaxIsGreatest
  <2>3. k \in Nat /\ Max(W) \in Nat /\ k <= Max(W) /\ Max(W) <= k
    BY <1>2, <2>1, <2>2
  <2> QED
    BY <2>3
<1> HIDE DEF W
<1> QED
  BY <1>1, <1>2 DEF None, W

\* A client with entries that wait has a last one.
LEMMA LastWaiting ==
  ASSUME NEW l, NEW a \in Nat, NEW n \in Nat, NEW c, Waiting(l, a, n, c) # {}
  PROVE  \E k \in Waiting(l, a, n, c) : \A i \in Waiting(l, a, n, c) : i <= k
<1>1. Waiting(l, a, n, c) \in SUBSET (0 .. n)
  BY DEF Waiting
<1> QED
  BY <1>1, MaxIsGreatest

\* Nothing is pending when everything has executed.
LEMMA PendingNone ==
  ASSUME NEW l, NEW a \in Nat, NEW c
  PROVE  PendingIn(l, a, a, c) = None
<1>1. Waiting(l, a, a, c) = {}
  BY DEF Waiting
<1> QED
  BY <1>1, PendingIs

\* An entry appended is its client's pending one; the others keep theirs.
LEMMA PendingAppended ==
  ASSUME NEW m, NEW n \in Nat, NEW a \in 0 .. n, NEW c
  PROVE  PendingIn(m, a, n + 1, c) =
           IF m[n + 1].client = c THEN PendingKey(n + 1, m[n + 1]) ELSE PendingIn(m, a, n, c)
<1>1. a \in Nat /\ n + 1 \in Nat /\ \A i \in a + 1 .. n + 1 : i = n + 1 \/ i \in a + 1 .. n
  OBVIOUS
<1>2. CASE m[n + 1].client = c
  <2>1. n + 1 \in Waiting(m, a, n + 1, c) /\ \A i \in Waiting(m, a, n + 1, c) : i <= n + 1
    BY <1>2 DEF Waiting
  <2> QED
    BY <1>1, <1>2, <2>1, PendingIs
<1>3. CASE m[n + 1].client # c
  <2>1. Waiting(m, a, n + 1, c) = Waiting(m, a, n, c)
    BY <1>1, <1>3 DEF Waiting
  <2>2. CASE Waiting(m, a, n, c) = {}
    BY <1>1, <1>3, <2>1, <2>2, PendingIs
  <2>3. CASE Waiting(m, a, n, c) # {}
    <3>1. PICK k \in Waiting(m, a, n, c) : \A i \in Waiting(m, a, n, c) : i <= k
      BY <1>1, <2>3, LastWaiting
    <3>2. /\ PendingIn(m, a, n, c) = PendingKey(k, m[k])
          /\ PendingIn(m, a, n + 1, c) = PendingKey(k, m[k])
      BY <1>1, <2>1, <3>1, PendingIs
    <3> QED
      BY <1>3, <3>2
  <2> QED
    BY <2>2, <2>3
<1> QED
  BY <1>2, <1>3

\* What is pending depends on the entries that have not executed.
LEMMA PendingSame ==
  ASSUME NEW l, NEW m, NEW n \in Nat, NEW a \in 0 .. n, NEW c,
         \A i \in a + 1 .. n : l[i] = m[i]
  PROVE  PendingIn(m, a, n, c) = PendingIn(l, a, n, c)
<1>1. a \in Nat
  OBVIOUS
<1>2. Waiting(m, a, n, c) = Waiting(l, a, n, c)
  BY DEF Waiting
<1>3. CASE Waiting(l, a, n, c) = {}
  BY <1>1, <1>2, <1>3, PendingIs
<1>4. CASE Waiting(l, a, n, c) # {}
  <2>1. PICK k \in Waiting(l, a, n, c) : \A i \in Waiting(l, a, n, c) : i <= k
    BY <1>1, <1>4, LastWaiting
  <2>2. l[k] = m[k]
    BY DEF Waiting
  <2>3. PendingIn(l, a, n, c) = PendingKey(k, l[k]) /\ PendingIn(m, a, n, c) = PendingKey(k, m[k])
    BY <1>1, <1>2, <2>1, PendingIs
  <2> QED
    BY <2>2, <2>3
<1> QED
  BY <1>3, <1>4

\* No two entries of a client have the same key.
LEMMA KeysDiffer ==
  ASSUME NEW n \in Nat, NEW l, LogOK(l, n), NEW i \in 1 .. n, NEW j \in 1 .. n, i # j,
         l[i].client = l[j].client
  PROVE  PendingKey(i, l[i]) # PendingKey(j, l[j])
<1>1. /\ l[i].session = 0 <=> l[i].number = 0
      /\ l[j].session = 0 <=> l[j].number = 0
      /\ l[i].session # 0 => <<l[i].session, l[i].number>> # <<l[j].session, l[j].number>>
  BY DEF LogOK
<1> QED
  BY <1>1 DEF PendingKey

\* An entry that executes is pending no more, and no other entry is disturbed:
\* the key tells it from a later entry of its client.
LEMMA PendingExecuted ==
  ASSUME NEW l, NEW n \in Nat, LogOK(l, n), NEW a \in 0 .. n - 1, NEW c
  PROVE  PendingIn(l, a + 1, n, c) =
           IF c = l[a + 1].client /\ PendingIn(l, a, n, c) = PendingKey(a + 1, l[a + 1]) THEN None
           ELSE PendingIn(l, a, n, c)
<1>1. /\ a \in Nat /\ a + 1 \in Nat /\ a + 1 \in 1 .. n
      /\ \A i : i \in a + 1 .. n <=> i = a + 1 \/ i \in a + 1 + 1 .. n
  OBVIOUS
<1> DEFINE V == Waiting(l, a, n, c)
           W == Waiting(l, a + 1, n, c)
<1>2. /\ W \subseteq V /\ V \subseteq W \union {a + 1} /\ a + 1 \notin W
      /\ a + 1 \in V <=> c = l[a + 1].client
      /\ \A k \in W : k \in 1 .. n /\ k > a + 1 /\ l[k].client = c
  BY <1>1 DEF Waiting
<1>3. CASE W = {}
  <2>1. PendingIn(l, a + 1, n, c) = None
    BY <1>1, <1>3, PendingIs
  <2>2. CASE c = l[a + 1].client
    <3>1. a + 1 \in V /\ \A i \in V : i <= a + 1
      BY <1>1, <1>2, <1>3, <2>2
    <3>2. PendingIn(l, a, n, c) = PendingKey(a + 1, l[a + 1])
      BY <1>1, <3>1, PendingIs
    <3> QED
      BY <2>1, <2>2, <3>2
  <2>3. CASE c # l[a + 1].client
    <3>1. V = {}
      BY <1>2, <1>3, <2>3
    <3> QED
      BY <1>1, <2>1, <2>3, <3>1, PendingIs
  <2> QED
    BY <2>2, <2>3
<1>4. CASE W # {}
  <2>1. PICK k \in W : \A i \in W : i <= k
    BY <1>1, <1>4, LastWaiting
  <2>2. k \in V /\ \A i \in V : i <= k
    BY <1>1, <1>2, <2>1
  <2>3. /\ PendingIn(l, a + 1, n, c) = PendingKey(k, l[k])
        /\ PendingIn(l, a, n, c) = PendingKey(k, l[k])
    BY <1>1, <2>1, <2>2, PendingIs
  <2>4. c = l[a + 1].client => PendingKey(k, l[k]) # PendingKey(a + 1, l[a + 1])
    <3>1. k \in 1 .. n /\ k # a + 1 /\ l[k].client = c
      BY <1>1, <1>2, <2>1
    <3> QED
      BY <1>1, <3>1, KeysDiffer
  <2> QED
    BY <2>3, <2>4
<1> QED
  BY <1>3, <1>4

\* Noting an entry changes what is pending for its client, and no record.
LEMMA NotePendingOK ==
  ASSUME NEW map, NEW table, HasRecords(map, table), NEW op \in Nat, NEW e \in Entries
  PROVE  /\ HasRecords(NotePending(map, op, e), table)
         /\ \A c \in Client : StateOf(NotePending(map, op, e), c).pending =
              IF e.client = c THEN PendingKey(op, e) ELSE StateOf(map, c).pending
<1> DEFINE c == e.client
           s == [StateOf(map, c) EXCEPT !.pending = PendingKey(op, e)]
<1>1. c \in Client /\ MapOK(map) /\ StateOf(map, c).record = table[c]
  BY DEF HasRecords, Entries
<1>2. StateOf(map, c) \in States
  BY <1>1, StateTyped
<1>3. PendingKey(op, e) \in [session : Nat, number : Nat]
  BY DEF PendingKey, Entries
<1>4. s \in States /\ s.record = table[c] /\ s.pending = PendingKey(op, e)
  BY <1>1, <1>2, <1>3 DEF States
<1>5. NotePending(map, op, e) = With(map, c, s)
  BY DEF NotePending
<1> HIDE DEF c, s
<1>6. /\ MapOK(With(map, c, s))
      /\ \A d \in Client : StateOf(With(map, c, s), d) = IF d = c THEN s ELSE StateOf(map, d)
  BY <1>1, <1>4, WithState
<1>7. HasRecords(With(map, c, s), table)
  BY <1>4, <1>6 DEF HasRecords
<1> QED
  BY <1>4, <1>5, <1>6, <1>7 DEF c

\* f holds the maps rebuild_pending makes on the way from start.
Notes(start, entries, from, to, f) ==
  f = [i \in from - 1 .. to |-> IF i = from - 1 THEN start ELSE NotePending(f[i - 1], i, entries[i])]

\* There are such maps.
LEMMA NotesExist ==
  ASSUME NEW start, NEW l, NEW a \in Nat, NEW n \in Nat, a <= n
  PROVE  \E f : Notes(start, l, a + 1, n, f)
<1> DEFINE S == {k \in Nat : a <= k /\ ~ \E f : Notes(start, l, a + 1, k, f)}
<1> SUFFICES ASSUME S # {} PROVE FALSE
  OBVIOUS
<1>1. PICK k \in S : \A i \in S : k <= i
  <2>1. S \in SUBSET Nat
    OBVIOUS
  <2> HIDE DEF S
  <2> QED
    BY <2>1, LeastExists
<1>0. a + 1 - 1 = a
  OBVIOUS
<1>2. CASE k = a
  <2> DEFINE f == [i \in a .. a |-> start]
  <2>1. Notes(start, l, a + 1, a, f)
    BY <1>0 DEF Notes
  <2> QED
    BY <1>2, <2>1
<1>3. CASE k # a
  <2>1. k - 1 \in Nat /\ a <= k - 1 /\ k - 1 \notin S
    BY <1>1, <1>3
  <2>2. PICK f : Notes(start, l, a + 1, k - 1, f)
    BY <2>1
  <2> DEFINE g == [i \in a .. k |-> IF i = k THEN NotePending(f[k - 1], k, l[k]) ELSE f[i]]
  <2>3. Notes(start, l, a + 1, k, g)
    <3>1. \A i \in a .. k - 1 : f[i] = IF i = a THEN start ELSE NotePending(f[i - 1], i, l[i])
      BY <1>0, <2>2 DEF Notes
    <3>2. ASSUME NEW i \in a .. k
          PROVE  g[i] = IF i = a THEN start ELSE NotePending(g[i - 1], i, l[i])
      <4>1. CASE i = k
        <5>1. i # a /\ g[i] = NotePending(f[k - 1], k, l[k]) /\ k - 1 \in a .. k /\ k - 1 # k
          BY <1>3, <2>1, <4>1
        <5>2. g[i - 1] = f[k - 1]
          BY <4>1, <5>1
        <5> HIDE DEF g
        <5> QED
          BY <4>1, <5>1, <5>2
      <4>2. CASE i # k
        <5>1. i \in a .. k - 1 /\ (i # a => i - 1 \in a .. k /\ i - 1 # k)
          BY <2>1, <4>2
        <5>2. g[i] = f[i] /\ (i # a => g[i - 1] = f[i - 1])
          BY <4>2, <5>1
        <5> HIDE DEF g
        <5> QED
          BY <3>1, <5>1, <5>2
      <4> QED
        BY <4>1, <4>2
    <3>3. g = [i \in a .. k |-> g[i]]
      OBVIOUS
    <3> HIDE DEF g
    <3>4. \A i \in a + 1 - 1 .. k :
            g[i] = IF i = a + 1 - 1 THEN start ELSE NotePending(g[i - 1], i, l[i])
      BY <1>0, <3>2
    <3>5. g = [i \in a + 1 - 1 .. k |-> g[i]]
      BY <1>0, <3>3
    <3> QED
      <4>1. [i \in a + 1 - 1 .. k |-> g[i]] =
              [i \in a + 1 - 1 .. k |->
                 IF i = a + 1 - 1 THEN start ELSE NotePending(g[i - 1], i, l[i])]
        BY <3>4
      <4>2. g = [i \in a + 1 - 1 .. k |->
                   IF i = a + 1 - 1 THEN start ELSE NotePending(g[i - 1], i, l[i])]
        BY <3>5, <4>1
      <4> QED
        BY <4>2 DEF Notes
  <2> QED
    BY <2>1, <2>3
<1> QED
  BY <1>2, <1>3

\* rebuild_pending keeps the records and notes the entries that have not executed.
LEMMA RebuildPendingOK ==
  ASSUME NEW map, NEW table, HasRecords(map, table), NEW l, NEW n \in Nat, NEW a \in 0 .. n,
         \A i \in 1 .. n : l[i] \in Entries
  PROVE  /\ HasRecords(RebuildPending(map, l, a + 1, n), table)
         /\ \A c \in Client :
              StateOf(RebuildPending(map, l, a + 1, n), c).pending = PendingIn(l, a, n, c)
<1> DEFINE held == {c \in DOMAIN map : map[c].record # NoRecord}
           start == [c \in held |-> [map[c] EXCEPT !.pending = None]]
           f == CHOOSE f : Notes(start, l, a + 1, n, f)
<1>1. HasRecords(start, table) /\ \A c \in Client : StateOf(start, c).pending = None
  <2>1. held = Held(table) /\ \A c \in held : map[c].record = table[c] /\ map[c] \in States
    BY HeldInMap DEF HasRecords, MapOK
  <2>2. \A s \in States : LET new == [s EXCEPT !.pending = None]
                          IN  new \in States /\ new.record = s.record /\ new.pending = None
    BY DEF States, None, NoPending
  <2>3. DOMAIN start = Held(table)
    BY <2>1
  <2>4. \A c \in Held(table) : start[c] \in States /\ start[c].record = table[c] /\ start[c].pending = None
    BY <2>1, <2>2
  <2> HIDE DEF start
  <2> QED
    BY <2>3, <2>4 DEF HasRecords, MapOK, StateOf, Held, Unknown
<1> HIDE DEF start
<1>2. a \in Nat /\ a <= n /\ a + 1 - 1 = a
  OBVIOUS
<1>3. Notes(start, l, a + 1, n, f)
  <2>1. \E x : Notes(start, l, a + 1, n, x)
    BY <1>2, NotesExist
  <2> QED
    BY <2>1, Zenon
<1>4. RebuildPending(map, l, a + 1, n) = f[n]
  BY DEF RebuildPending, Notes, start
<1> HIDE DEF f
<1>5. \A i \in a .. n : f[i] = IF i = a THEN start ELSE NotePending(f[i - 1], i, l[i])
  BY <1>2, <1>3 DEF Notes
<1> DEFINE Good(i) == /\ HasRecords(f[i], table)
                      /\ \A c \in Client : StateOf(f[i], c).pending = PendingIn(l, a, i, c)
           S == {i \in a .. n : ~Good(i)}
<1>6. S = {}
  <2> SUFFICES ASSUME S # {} PROVE FALSE
    OBVIOUS
  <2>1. PICK k \in S : \A i \in S : k <= i
    <3>1. S \in SUBSET Nat
      BY <1>2
    <3> HIDE DEF S
    <3> QED
      BY <3>1, LeastExists
  <2>2. CASE k = a
    <3>1. f[k] = start
      BY <1>5, <2>2
    <3>2. Good(k)
      BY <1>1, <1>2, <2>2, <3>1, PendingNone
    <3> QED
      BY <3>2
  <2>3. CASE k # a
    <3>1. /\ k - 1 \in a .. n /\ k - 1 \in Nat /\ k - 1 + 1 = k /\ ~(k <= k - 1) /\ k \in 1 .. n
          /\ a \in 0 .. k - 1 /\ k \in Nat
      BY <2>3
    <3>2. Good(k - 1)
      BY <2>1, <3>1
    <3>3. f[k] = NotePending(f[k - 1], k, l[k])
      BY <1>5, <2>3
    <3>4. l[k] \in Entries
      BY <3>1
    <3>5. /\ HasRecords(f[k], table)
          /\ \A c \in Client : StateOf(f[k], c).pending =
               IF l[k].client = c THEN PendingKey(k, l[k]) ELSE StateOf(f[k - 1], c).pending
      <4>1. PICK m : m = f[k - 1]
        OBVIOUS
      <4>2. HasRecords(m, table) /\ f[k] = NotePending(m, k, l[k]) /\ k \in Nat
        BY <3>1, <3>2, <3>3, <4>1
      <4> HIDE DEF S
      <4>3. /\ HasRecords(NotePending(m, k, l[k]), table)
            /\ \A c \in Client : StateOf(NotePending(m, k, l[k]), c).pending =
                 IF l[k].client = c THEN PendingKey(k, l[k]) ELSE StateOf(m, c).pending
        BY <3>4, <4>2, NotePendingOK
      <4> QED
        BY <4>1, <4>2, <4>3
    <3>6. \A c \in Client : PendingIn(l, a, k, c) =
            IF l[k].client = c THEN PendingKey(k, l[k]) ELSE PendingIn(l, a, k - 1, c)
      <4> SUFFICES ASSUME NEW c \in Client
                   PROVE  PendingIn(l, a, k, c) =
                            IF l[k].client = c THEN PendingKey(k, l[k]) ELSE PendingIn(l, a, k - 1, c)
        OBVIOUS
      <4>1. PendingIn(l, a, k - 1 + 1, c) =
              IF l[k - 1 + 1].client = c THEN PendingKey(k - 1 + 1, l[k - 1 + 1])
              ELSE PendingIn(l, a, k - 1, c)
        BY <3>1, PendingAppended
      <4> QED
        BY <3>1, <4>1
    <3>7. Good(k)
      BY <3>2, <3>5, <3>6
    <3> QED
      BY <3>7
  <2> QED
    BY <2>2, <2>3
<1>7. Good(n)
  BY <1>2, <1>6
<1> QED
  BY <1>4, <1>7

\* The map of a table of records has those records and no more.
LEMMA LoadedOK ==
  ASSUME NEW table \in [Client -> Records]
  PROVE  HasRecords(Loaded(table), table) /\ DOMAIN Loaded(table) = Held(table)
<1> DEFINE map == Loaded(table)
<1>1. DOMAIN map = Held(table)
  BY DEF Loaded, Held
<1>2. \A c \in Held(table) : map[c] = [record |-> table[c], pending |-> None]
  BY DEF Loaded, Held
<1>3. \A c \in Held(table) :
        c \in Client /\ map[c] \in States /\ map[c].record = table[c] /\ table[c] # NoRecord
  <2>1. \A c \in Held(table) : c \in Client /\ table[c] \in Records /\ table[c] # NoRecord
    BY DEF Held
  <2>2. None \in [session : Nat, number : Nat]
    BY DEF None, NoPending
  <2>3. \A r \in Records : LET x == [record |-> r, pending |-> None] IN x \in States /\ x.record = r
    BY <2>2 DEF States
  <2> HIDE DEF map
  <2> QED
    BY <1>2, <2>1, <2>3
<1> HIDE DEF map
<1>4. HasRecords(map, table)
  BY <1>1, <1>3 DEF HasRecords, MapOK, StateOf, Held, Unknown
<1> QED
  BY <1>1, <1>4 DEF map

-----------------------------------------------------------------------------
(* The steps *)

\* What a primary appends keeps a log one: its next entry comes in it once.
LEMMA AppendableOK ==
  ASSUME NEW n \in Nat, NEW l, LogOK(l, n), NEW k, \A i \in 1 .. n : l[i] = k[i],
         NEW e \in Appendable(l, n),
         NEW m, m = [i \in 1 .. n + 1 |-> IF i <= n THEN k[i] ELSE e]
  PROVE  LogOK(m, n + 1) /\ e \in Entries /\ m[n + 1] = e /\ \A i \in 1 .. n : m[i] = l[i]
<1>1. /\ e \in Entries /\ (e.session = 0 <=> e.number = 0)
      /\ e.session # 0 => \A i \in 1 .. n :
           ~(l[i].client = e.client /\ l[i].session = e.session /\ l[i].number = e.number)
  <2>1. CASE e \in {Registration(c) : c \in Client}
    BY <2>1 DEF Registration, Entries
  <2>2. CASE e \notin {Registration(c) : c \in Client}
    <3>1. /\ e \in {Request(c, session, number, number - 1) :
                      c \in Client, session \in 1 .. n, number \in 1 .. MaxNumber}
          /\ \A i \in 1 .. n :
               ~(l[i].client = e.client /\ l[i].session = e.session /\ l[i].number = e.number)
      BY <2>2 DEF Appendable
    <3>2. PICK c \in Client, session \in 1 .. n, number \in 1 .. MaxNumber :
            e = Request(c, session, number, number - 1)
      BY <3>1
    <3>3. e \in Entries /\ e.session # 0 /\ e.number # 0
      BY <3>2, SessionTableAssumption DEF Request, Entries
    <3> QED
      BY <3>1, <3>3
  <2> QED
    BY <2>1, <2>2
<1>2. /\ m[n + 1] = e /\ \A i \in 1 .. n : m[i] = l[i]
      /\ \A i \in 1 .. n + 1 : i = n + 1 \/ i \in 1 .. n
  OBVIOUS
<1>3. m \in [1 .. n + 1 -> Entries]
  BY <1>1 DEF LogOK
<1>4. \A i \in 1 .. n + 1 : m[i].session = 0 <=> m[i].number = 0
  BY <1>1, <1>2 DEF LogOK
<1>5. ASSUME NEW i \in 1 .. n + 1, NEW j \in 1 .. n + 1,
             i # j, m[i].client = m[j].client, m[i].session # 0
      PROVE  <<m[i].session, m[i].number>> # <<m[j].session, m[j].number>>
  <2>1. CASE i \in 1 .. n /\ j \in 1 .. n
    BY <1>2, <1>5, <2>1 DEF LogOK
  <2>2. CASE i = n + 1 /\ j \in 1 .. n
    BY <1>1, <1>2, <1>5, <2>2
  <2>3. CASE j = n + 1 /\ i \in 1 .. n
    BY <1>1, <1>2, <1>5, <2>3
  <2> QED
    BY <1>2, <1>5, <2>1, <2>2, <2>3
<1> QED
  BY <1>1, <1>2, <1>3, <1>4, <1>5 DEF LogOK

\* A log with other entries after op a: the records and the candidates stand.
LEMMA SameTable ==
  ASSUME NEW l, NEW m, NEW a \in Nat, \A i \in 1 .. a : l[i] = m[i]
  PROVE  ClientTable(m, a) = ClientTable(l, a)
<1>1. \A i \in 1 .. a : m[i] = l[i]
  OBVIOUS
<1> QED
  BY <1>1, ClientTablePrefix

\* A log has entries.
LEMMA LogTyped ==
  ASSUME NEW n \in Nat, NEW l, LogOK(l, n)
  PROVE  \A i \in 1 .. n : l[i] \in Entries
  BY DEF LogOK

\* No candidates is always right.
LEMMA NoCandidates ==
  ASSUME NEW table, NEW n
  PROVE  CandidatesOK(<<>>, table, n)
<1> DEFINE R == [op : 1 .. n, client : Client]
<1>1. <<>> \in Seq(R) /\ DOMAIN <<>> = {}
  <2> HIDE DEF R
  <2> QED
    OBVIOUS
<1> QED
  BY <1>1 DEF CandidatesOK

\* Replica::new
LEMMA InitInv == Init => IInv
<1> SUFFICES ASSUME Init PROVE IInv
  OBVIOUS
<1>1. TypeOK
  BY DEF Init, TypeOK, LogOK, MapOK, NoEntries
<1>2. ClientTable(log, applied) = NoRecords
  BY ClientTableStep DEF Init
<1>3. Held(NoRecords) = {}
  BY DEF Held, NoRecords
<1>4. \A c \in Client : StateOf(clients, c) = Unknown
  BY DEF Init, StateOf
<1>5. CandidatesOK(<<>>, NoRecords, 0)
  BY NoCandidates
<1>6. RecordsInv
  <2>1. \A c \in Client : StateOf(clients, c).record = NoRecords[c]
    BY <1>4 DEF Unknown, NoRecords
  <2>2. sessions = Cardinality(Held(NoRecords)) /\ eviction_candidates = <<>> /\ applied = 0
    BY <1>3, FS_EmptySet DEF Init
  <2> QED
    BY <1>2, <1>5, <2>1, <2>2 DEF RecordsInv
<1>7. PendingInv
  BY <1>4, PendingNone DEF PendingInv, Init, Unknown
<1> QED
  BY <1>1, <1>6, <1>7 DEF IInv

\* The invariant as facts of the map.
LEMMA IInvFacts ==
  ASSUME IInv
  PROVE  /\ HasRecords(clients, ClientTable(log, applied))
         /\ op_number \in Nat /\ applied \in Nat /\ applied <= op_number
         /\ LogOK(log, op_number) /\ TableOK(log, ClientTable(log, applied), applied)
  BY ClientTableOK, LogTyped DEF IInv, TypeOK, RecordsInv, HasRecords

\* append_to_log
LEMMA AppendInv == ASSUME IInv, AppendEntry PROVE IInv'
<1>1. PICK e \in Appendable(log, op_number) :
        /\ log' = [i \in 1 .. op_number + 1 |-> IF i <= op_number THEN log[i] ELSE e]
        /\ clients' = NotePending(clients, op_number + 1, e)
  BY DEF AppendEntry
<1>2. /\ op_number' = op_number + 1 /\ applied' = applied /\ sessions' = sessions
      /\ eviction_candidates' = eviction_candidates
  BY DEF AppendEntry
<1> DEFINE table == ClientTable(log, applied)
<1>3. /\ HasRecords(clients, table)
      /\ op_number \in Nat /\ applied \in Nat /\ applied <= op_number
      /\ LogOK(log, op_number)
  BY IInvFacts
<1>4. LogOK(log', op_number + 1) /\ e \in Entries /\ log'[op_number + 1] = e
      /\ \A i \in 1 .. op_number : log'[i] = log[i]
  BY <1>1, <1>3, AppendableOK
<1>5. ClientTable(log', applied) = table
  BY <1>3, <1>4, SameTable
<1>6. /\ HasRecords(clients', table)
      /\ \A c \in Client : StateOf(clients', c).pending =
           IF e.client = c THEN PendingKey(op_number + 1, e) ELSE StateOf(clients, c).pending
  BY <1>1, <1>3, <1>4, NotePendingOK
<1>7. TypeOK'
  BY <1>2, <1>3, <1>4, <1>6 DEF TypeOK, HasRecords
<1>8. RecordsInv'
  BY <1>2, <1>5, <1>6 DEF IInv, RecordsInv, HasRecords
<1>9. PendingInv'
  <2> SUFFICES ASSUME NEW c \in Client
               PROVE  StateOf(clients', c).pending = PendingIn(log', applied, op_number + 1, c)
    BY <1>2 DEF PendingInv
  <2>1. StateOf(clients, c).pending = PendingIn(log, applied, op_number, c)
    BY DEF IInv, PendingInv
  <2>2. PendingIn(log', applied, op_number + 1, c) =
          IF log'[op_number + 1].client = c THEN PendingKey(op_number + 1, log'[op_number + 1])
          ELSE PendingIn(log, applied, op_number, c)
    <3>1. PICK m : m = log'
      OBVIOUS
    <3>2. applied \in 0 .. op_number /\ \A i \in applied + 1 .. op_number : log[i] = m[i]
      BY <1>3, <1>4, <3>1
    <3>3. PendingIn(m, applied, op_number + 1, c) =
            IF m[op_number + 1].client = c THEN PendingKey(op_number + 1, m[op_number + 1])
            ELSE PendingIn(m, applied, op_number, c)
      BY <1>3, <3>2, PendingAppended
    <3>4. PendingIn(m, applied, op_number, c) = PendingIn(log, applied, op_number, c)
      BY <1>3, <3>2, PendingSame
    <3> QED
      BY <3>1, <3>3, <3>4
  <2> QED
    BY <1>4, <1>6, <2>1, <2>2
<1> QED
  BY <1>7, <1>8, <1>9 DEF IInv

\* execute
LEMMA ExecuteInv == ASSUME IInv, Execute PROVE IInv'
<1> DEFINE t == [clients |-> clients, sessions |-> sessions, candidates |-> eviction_candidates]
           table == ClientTable(log, applied)
           e == log[applied + 1]
           after == ExecuteEntry(t, applied + 1, e)
<1>1. /\ clients' = after.clients /\ sessions' = after.sessions
      /\ eviction_candidates' = after.candidates /\ applied' = applied + 1
      /\ log' = log /\ op_number' = op_number /\ applied < op_number
  BY DEF Execute
<1>2. /\ HasRecords(clients, table) /\ op_number \in Nat /\ applied \in Nat /\ applied <= op_number
      /\ LogOK(log, op_number) /\ TableOK(log, table, applied)
  BY IInvFacts
<1>3. /\ applied + 1 \in 1 .. op_number /\ applied \in 0 .. op_number - 1
      /\ e \in Entries /\ (e.session = 0 => e.number = 0)
  BY <1>1, <1>2 DEF LogOK
<1>4. Tracks(t, table, applied)
  BY <1>2 DEF IInv, RecordsInv, Tracks
<1> HIDE DEF table
<1>5. /\ Tracks(after, Executed(table, applied + 1, e), applied + 1)
      /\ Cleared(clients, after.clients, e.client, PendingKey(applied + 1, e))
  BY <1>2, <1>3, <1>4, ExecuteEntryOK
<1>6. ClientTable(log, applied + 1) = Executed(table, applied + 1, e)
  BY <1>2, ClientTableStep DEF table
<1> HIDE DEF after
<1>7. TypeOK'
  <2>1. MapOK(after.clients)
    BY <1>5 DEF Tracks, HasRecords
  <2>2. applied + 1 \in 0 .. op_number
    BY <1>1, <1>2
  <2> QED
    BY <1>1, <1>2, <2>1, <2>2 DEF TypeOK
<1>8. RecordsInv'
  <2> DEFINE new == ClientTable(log, applied + 1)
  <2>1. Tracks(after, new, applied + 1)
    BY <1>5, <1>6
  <2>2. ClientTable(log', applied') = new
    BY <1>1
  <2> HIDE DEF new
  <2> QED
    BY <1>1, <2>1, <2>2 DEF RecordsInv, Tracks, HasRecords
<1>9. PendingInv'
  <2> SUFFICES ASSUME NEW c \in Client
               PROVE  StateOf(after.clients, c).pending = PendingIn(log, applied + 1, op_number, c)
    BY <1>1 DEF PendingInv
  <2>1. StateOf(clients, c).pending = PendingIn(log, applied, op_number, c)
    BY DEF IInv, PendingInv
  <2>2. PendingIn(log, applied + 1, op_number, c) =
          IF c = e.client /\ PendingIn(log, applied, op_number, c) = PendingKey(applied + 1, e)
          THEN None ELSE PendingIn(log, applied, op_number, c)
    BY <1>2, <1>3, PendingExecuted
  <2> QED
    BY <1>5, <2>1, <2>2 DEF Cleared
<1> QED
  BY <1>7, <1>8, <1>9 DEF IInv

\* A log of n entries, of which those up to applied are as before, and the map
\* rebuilt from it.
LEMMA RebuiltInv ==
  ASSUME IInv, NEW n \in Nat, NEW m, applied <= n, LogOK(m, n),
         \A i \in 1 .. applied : log[i] = m[i],
         log' = m, op_number' = n, UNCHANGED <<applied, sessions, eviction_candidates>>,
         clients' = RebuildPending(clients, m, applied + 1, n)
  PROVE  IInv'
<1> DEFINE table == ClientTable(log, applied)
<1>1. HasRecords(clients, table) /\ applied \in Nat
  BY IInvFacts
<1>2. ClientTable(m, applied) = table
  BY <1>1, SameTable
<1> HIDE DEF table
<1>3. /\ HasRecords(clients', table)
      /\ \A c \in Client : StateOf(clients', c).pending = PendingIn(m, applied, n, c)
  <2>1. applied \in 0 .. n
    BY <1>1
  <2> QED
    BY <1>1, <2>1, LogTyped, RebuildPendingOK
<1>4. TypeOK'
  BY <1>1, <1>3 DEF TypeOK, HasRecords
<1>5. RecordsInv'
  BY <1>2, <1>3 DEF IInv, RecordsInv, HasRecords, table
<1>6. PendingInv'
  BY <1>3 DEF PendingInv
<1> QED
  BY <1>4, <1>5, <1>6 DEF IInv

\* merge_log
LEMMA ReplaceInv == ASSUME IInv, ReplaceTail PROVE IInv'
<1>1. /\ op_number \in Nat /\ applied \in Nat /\ applied <= op_number /\ LogOK(log, op_number)
      /\ UNCHANGED <<applied, sessions, eviction_candidates>>
  BY IInvFacts DEF ReplaceTail
<1>2. PICK n \in applied .. op_number - 1 :
        LET kept == [i \in 1 .. n |-> log[i]] IN
        \/ /\ log' = kept /\ op_number' = n
           /\ clients' = RebuildPending(clients, kept, applied + 1, n)
        \/ \E e \in Appendable(kept, n) \ {log[n + 1]} :
             /\ log' = [i \in 1 .. n + 1 |-> IF i <= n THEN log[i] ELSE e]
             /\ op_number' = n + 1
             /\ clients' = RebuildPending(clients, log', applied + 1, n + 1)
  BY DEF ReplaceTail
<1> DEFINE kept == [i \in 1 .. n |-> log[i]]
<1>3. n \in Nat /\ applied <= n /\ n + 1 \in Nat /\ applied <= n + 1 /\ \A i \in 1 .. n : i \in 1 .. op_number
  BY <1>1
<1>4. \A i \in 1 .. n : kept[i] = log[i]
  OBVIOUS
<1>5. LogOK(kept, n)
  <2>1. kept \in [1 .. n -> Entries]
    BY <1>1, <1>3 DEF LogOK
  <2> HIDE DEF kept
  <2> QED
    BY <1>1, <1>3, <1>4, <2>1 DEF LogOK
<1>6. CASE /\ log' = kept /\ op_number' = n
           /\ clients' = RebuildPending(clients, kept, applied + 1, n)
  <2>1. \A i \in 1 .. applied : log[i] = kept[i]
    BY <1>1, <1>3, <1>4
  <2> HIDE DEF kept
  <2> QED
    BY <1>1, <1>3, <1>5, <1>6, <2>1, RebuiltInv
<1>7. CASE \E e \in Appendable(kept, n) \ {log[n + 1]} :
             /\ log' = [i \in 1 .. n + 1 |-> IF i <= n THEN log[i] ELSE e]
             /\ op_number' = n + 1
             /\ clients' = RebuildPending(clients, log', applied + 1, n + 1)
  <2>1. PICK e \in Appendable(kept, n) :
             /\ log' = [i \in 1 .. n + 1 |-> IF i <= n THEN log[i] ELSE e]
             /\ op_number' = n + 1
             /\ clients' = RebuildPending(clients, log', applied + 1, n + 1)
    BY <1>7
  <2> HIDE DEF kept
  <2>2. PICK m : m = [i \in 1 .. n + 1 |-> IF i <= n THEN log[i] ELSE e]
    OBVIOUS
  <2>3. LogOK(m, n + 1) /\ \A i \in 1 .. n : m[i] = kept[i]
    BY <1>3, <1>4, <1>5, <2>2, AppendableOK
  <2>4. \A i \in 1 .. applied : log[i] = m[i]
    BY <1>1, <1>3, <1>4, <2>3
  <2> QED
    BY <1>1, <1>3, <2>1, <2>2, <2>3, <2>4, RebuiltInv
<1> QED
  BY <1>2, <1>6, <1>7

\* restart and restore_checkpoint
LEMMA ReloadInv == ASSUME IInv, Reload PROVE IInv'
<1>1. /\ op_number \in Nat /\ LogOK(log, op_number)
      /\ op_number' = op_number /\ log' = log /\ eviction_candidates' = <<>>
  BY IInvFacts DEF Reload
<1>2. PICK n \in 0 .. op_number :
        /\ applied' = n
        /\ clients' = RebuildPending(Loaded(ClientTable(log, n)), log, n + 1, op_number)
        /\ sessions' = Cardinality(DOMAIN Loaded(ClientTable(log, n)))
  BY DEF Reload
<1> DEFINE table == ClientTable(log, n)
<1>3. TableOK(log, table, n) /\ n \in Nat
  BY <1>1, ClientTableOK, LogTyped
<1>4. HasRecords(Loaded(table), table) /\ DOMAIN Loaded(table) = Held(table)
  BY <1>3, LoadedOK DEF TableOK
<1>5. ClientTable(log', applied') = table
  BY <1>1, <1>2
<1>6. /\ clients' = RebuildPending(Loaded(table), log, n + 1, op_number)
      /\ sessions' = Cardinality(Held(table))
  BY <1>2, <1>4
<1> HIDE DEF table
<1>7. /\ HasRecords(clients', table)
      /\ \A c \in Client : StateOf(clients', c).pending = PendingIn(log, n, op_number, c)
  BY <1>1, <1>4, <1>6, LogTyped, RebuildPendingOK
<1>8. CandidatesOK(<<>>, table, n)
  BY NoCandidates
<1>9. TypeOK'
  BY <1>1, <1>2, <1>7 DEF TypeOK, HasRecords
<1>10. RecordsInv'
  BY <1>1, <1>2, <1>5, <1>6, <1>7, <1>8 DEF RecordsInv, HasRecords
<1>11. PendingInv'
  BY <1>1, <1>2, <1>7 DEF PendingInv
<1> QED
  BY <1>9, <1>10, <1>11 DEF IInv

\* A step that changes nothing.
LEMMA StutterInv == ASSUME IInv, UNCHANGED vars PROVE IInv'
<1>1. /\ log' = log /\ op_number' = op_number /\ applied' = applied /\ clients' = clients
      /\ sessions' = sessions /\ eviction_candidates' = eviction_candidates
  BY DEF vars
<1>2. TypeOK' /\ RecordsInv' /\ PendingInv'
  BY <1>1 DEF IInv, TypeOK, RecordsInv, PendingInv
<1> QED
  BY <1>2 DEF IInv

-----------------------------------------------------------------------------

\* The invariant holds of every state.
THEOREM Invariance == Spec => []IInv
<1>1. IInv /\ [Next]_vars => IInv'
  BY AppendInv, ExecuteInv, ReplaceInv, ReloadInv, StutterInv DEF Next
<1> QED
  BY InitInv, <1>1, PTL DEF Spec

\* The client table in memory is the one that the executed entries make:
\* whichever candidates its last scan left it, and however often it restarted
\* or took a checkpoint, a replica evicts the session every other replica does.
THEOREM TablesAreWhatExecuted == Spec => []TableIsWhatExecuted
<1>1. IInv => TableIsWhatExecuted
  BY DEF IInv, RecordsInv, TableIsWhatExecuted, Held
<1> QED
  BY Invariance, <1>1, PTL

\* What is pending for a client is its last entry that has not executed, after
\* any appends, replaced logs and restarts, and the map keeps no client that
\* has neither a session nor a pending entry.
THEOREM PendingAreLast == Spec => []PendingIsLastInLog
<1>1. IInv => PendingIsLastInLog
  BY DEF IInv, TypeOK, MapOK, PendingInv, PendingIn, PendingIsLastInLog
<1> QED
  BY Invariance, <1>1, PTL

=============================================================================
