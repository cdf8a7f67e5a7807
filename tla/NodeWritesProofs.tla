-------------------------- MODULE NodeWritesProofs --------------------------
(* What a crash or a power loss leaves of a node's journal replays to the  *)
(* last write handed back or to a later one, for every number of files,    *)
(* ops, writes and crashes: CrashKeepsHanded, proved from IInv.            *)
EXTENDS NodeWrites, Integers, FiniteSets, FiniteSetTheorems, WellFoundedInduction, TLAPS

-----------------------------------------------------------------------------
(* Numbers.  That a set of naturals has a least member takes the place of  *)
(* induction: the least counterexample has a predecessor that is none.     *)

\* A set of naturals that is not empty has a least member.
LEMMA LeastExists ==
  ASSUME NEW S \in SUBSET Nat, S # {}
  PROVE  \E m \in S : \A n \in S : m <= n
<1>1. PICK m \in S : \A n \in S : ~(<<n, m>> \in OpToRel(<, Nat))
  BY NatLessThanWellFounded, WFMin
<1>2. \A n \in S : ~(n < m)
  BY <1>1 DEF OpToRel
<1> QED
  BY <1>2

\* A bounded set of naturals that is not empty has a greatest member, and Max is it.
LEMMA MaxIsGreatest ==
  ASSUME NEW b \in Nat, NEW S \in SUBSET (0 .. b), S # {}
  PROVE  /\ Max(S) \in S
         /\ \A n \in S : n <= Max(S)
<1> DEFINE T == {n \in Nat : n <= b /\ b - n \in S}
<1>1. T # {}
  <2>1. PICK n \in S : TRUE
    OBVIOUS
  <2>2. b - n \in T
    BY <2>1
  <2> QED
    BY <2>2
<1>2. PICK m \in T : \A n \in T : m <= n
  BY <1>1, LeastExists
<1>3. b - m \in S /\ \A n \in S : b - m >= n
  <2>1. \A n \in S : b - n \in T
    OBVIOUS
  <2> QED
    BY <1>2, <2>1
<1>4. Max(S) \in S /\ \A n \in S : Max(S) >= n
  BY <1>3, Zenon DEF Max
<1> QED
  BY <1>4

\* Min is the least member.
LEMMA MinIsLeast ==
  ASSUME NEW S \in SUBSET Nat, S # {}
  PROVE  /\ Min(S) \in S
         /\ \A n \in S : Min(S) <= n
<1>1. PICK m \in S : \A n \in S : m <= n
  BY LeastExists
<1> QED
  BY <1>1, Zenon DEF Min

-----------------------------------------------------------------------------
(* The inductive invariant *)

Writes == [log_start : Nat, entries_from : Nat, op_number : Nat, counters : Nat]

Span(s) == s.log_start + 1 .. s.op_number

\* The state that the first n records left.
StateAt(w, n) == IF n = 0 THEN Blank ELSE w[n].left

\* Of the first n records, the j-th is the last that wrote entry i, and no
\* record since replaced or compacted it.
Writer(w, n, j, i) ==
  /\ j \in 1 .. n
  /\ w[j].write.entries_from <= i /\ i <= w[j].write.op_number
  /\ \A k \in j + 1 .. n : w[k].write.log_start < i /\ i < w[k].write.entries_from

\* A write that a replica with the state s may take.
Takeable(s, w) ==
  /\ w \in Writes /\ Fits(s, w)
  /\ s.log_start \in Nat /\ s.op_number \in Nat /\ s.counters \in Nat
  /\ w.log_start >= s.log_start /\ w.counters = s.counters + 1

\* The state is the one its write says.
Left_by(s, w) ==
  s = [log_start |-> w.log_start, op_number |-> w.op_number, counters |-> w.counters,
       log |-> [i \in Span(w) |-> s.log[i]]]

\* Every entry of the state after n records is in a file that no bound in B is
\* past, and so is the n-th record.
Covered(w, n, B) ==
  /\ \A i \in Span(StateAt(w, n)) :
       \E j \in 1 .. n : /\ Writer(w, n, j, i)
                         /\ w[j].write.counters = StateAt(w, n).log[i]
                         /\ \A b \in B : b <= w[j].file
  /\ n # 0 => Left_by(w[n].left, w[n].write) /\ \A b \in B : b <= w[n].file

LastFile(w) == IF Len(w) = 0 THEN 0 ELSE w[Len(w)].file

\* The runs start at or before every entry of the state after n records, in
\* files no later than the entry's.
RunsOK(w, n, runs) ==
  /\ \A i \in Span(StateAt(w, n)) : \E r \in DOMAIN runs : r <= i
  /\ DOMAIN runs \subseteq Nat
  /\ \A r \in DOMAIN runs : runs[r] \in Nat /\ runs[r] <= LastFile(w)
  /\ \A i \in Span(StateAt(w, n)) : \A j \in 1 .. n : \A r \in DOMAIN runs :
       Writer(w, n, j, i) /\ r <= i => runs[r] <= w[j].file

IsSeq(s) == \E S : s \in Seq(S)

\* The records: each in the file of the one before or a later one.
WalOK(w) ==
  /\ IsSeq(w)
  /\ \A i \in 1 .. Len(w) : w[i].file \in Nat /\ w[i].write \in Writes
  /\ \A i, j \in 1 .. Len(w) : i <= j => w[i].file <= w[j].file

\* The files below these are deleted, or will be.
Bounds(q, t) == {t} \union {q[i].before : i \in {k \in 1 .. Len(q) : q[k].type = "trim"}}

\* The queue q holds trims, and at its end the write that is out, if any.
QueueOK(q, waits, w) ==
  /\ IsSeq(q)
  /\ \A i \in 1 .. Len(q) : \/ q[i].type = "trim" /\ q[i].before \in Nat
                            \/ waits /\ i = Len(q) /\ q[i] = ToWrite(w)
  /\ waits => q # <<>> /\ q[Len(q)] = ToWrite(w)

TypeOK ==
  /\ phase \in {"down", "opening", "up", "stopped"}
  /\ WalOK(wal) /\ synced \in 0 .. Len(wal) /\ trimmed \in Nat /\ handed \in Nat
  /\ written \in BOOLEAN /\ answered \in BOOLEAN
  /\ writing = NoWrite \/ \E w \in Writes : writing = Out(w)
  /\ landing = NotLanded \/ \E f \in Nat : landing = LandedIn(f)

\* What a failure may leave.
WalInv ==
  /\ \A n \in synced .. Len(wal) :
       Covered(wal, n, Bounds(queue, trimmed)) /\ StateAt(wal, n).counters >= handed
  /\ \A b \in Bounds(queue, trimmed) : b \in Nat /\ b <= LastFile(wal)

\* The write that is out is in the journal.
InWal == written \/ landing.ready

\* The records before the write that is out.
Base == IF InWal THEN Len(wal) - 1 ELSE Len(wal)

ProcessInv ==
  /\ phase = "down" => queue = <<>> /\ ~InWal
  /\ phase # "down" =>
       /\ state = StateAt(wal, Base) /\ RunsOK(wal, Base, journal.runs)
       /\ handed <= state.counters
       /\ IF writing.out
          THEN /\ Takeable(state, writing.write)
               /\ QueueOK(queue, ~landing.ready, writing.write)
               /\ InWal => /\ wal # <<>>
                           /\ wal[Len(wal)].write = writing.write
                           /\ wal[Len(wal)].left = After(state, writing.write)
               /\ written => queue[1].type = "write" /\ synced <= Base
               /\ landing.ready => ~written /\ synced = Len(wal) /\ landing.file = LastFile(wal)
          ELSE ~InWal /\ QueueOK(queue, FALSE, NoWrite)
  /\ phase \in {"down", "stopped"} => ~writing.out
  /\ phase = "opening" => writing.out

IInv == TypeOK /\ WalInv /\ ProcessInv

-----------------------------------------------------------------------------
(* What Read computes *)

\* f holds what each record makes of those before it.
Reads(s, n, f) ==
  f = [i \in 0 .. n |-> IF i = 0 THEN NothingRead ELSE ReadRecord(f[i - 1], s[i])]

\* There is such a function.
LEMMA ReadsExist ==
  ASSUME NEW s, NEW n \in Nat
  PROVE  \E f : Reads(s, n, f)
<1> DEFINE S == {k \in Nat : ~ \E f : Reads(s, k, f)}
<1> SUFFICES ASSUME S # {} PROVE FALSE
  OBVIOUS
<1>1. PICK k \in S : \A i \in S : k <= i
  <2>1. S \in SUBSET Nat
    OBVIOUS
  <2> HIDE DEF S
  <2> QED
    BY <2>1, LeastExists
<1>2. CASE k = 0
  <2> DEFINE f == [i \in 0 .. 0 |-> NothingRead]
  <2>1. Reads(s, 0, f)
    BY DEF Reads
  <2> QED
    BY <1>2, <2>1
<1>3. CASE k # 0
  <2>1. k - 1 \in Nat /\ k - 1 \notin S
    BY <1>1, <1>3
  <2>2. PICK f : Reads(s, k - 1, f)
    BY <2>1
  <2> DEFINE g == [i \in 0 .. k |-> IF i = k THEN ReadRecord(f[k - 1], s[k]) ELSE f[i]]
  <2>3. Reads(s, k, g)
    <3>1. \A i \in 0 .. k - 1 : f[i] = IF i = 0 THEN NothingRead ELSE ReadRecord(f[i - 1], s[i])
      BY <2>2 DEF Reads
    <3>2. ASSUME NEW i \in 0 .. k
          PROVE  g[i] = IF i = 0 THEN NothingRead ELSE ReadRecord(g[i - 1], s[i])
      <4>1. CASE i = k
        <5>1. i # 0 /\ g[i] = ReadRecord(f[k - 1], s[k]) /\ k - 1 \in 0 .. k /\ k - 1 # k
          BY <1>3, <4>1
        <5>2. g[i - 1] = f[k - 1]
          BY <4>1, <5>1
        <5> HIDE DEF g
        <5> QED
          BY <4>1, <5>1, <5>2
      <4>2. CASE i # k
        <5>1. i \in 0 .. k - 1 /\ (i # 0 => i - 1 \in 0 .. k /\ i - 1 # k)
          BY <4>2
        <5>2. g[i] = f[i] /\ (i # 0 => g[i - 1] = f[i - 1])
          BY <4>2, <5>1
        <5> HIDE DEF g
        <5> QED
          BY <3>1, <5>1, <5>2
      <4> QED
        BY <4>1, <4>2
    <3>3. g = [i \in 0 .. k |-> g[i]]
      OBVIOUS
    <3> HIDE DEF g
    <3>4. [i \in 0 .. k |-> g[i]] =
            [i \in 0 .. k |-> IF i = 0 THEN NothingRead ELSE ReadRecord(g[i - 1], s[i])]
      BY <3>2
    <3> QED
      BY <3>3, <3>4 DEF Reads
  <2> QED
    BY <2>3
<1> QED
  BY <1>2, <1>3

\* Reading is going through the records.
LEMMA ReadIs ==
  ASSUME NEW s, Len(s) \in Nat
  PROVE  \E f : /\ Read(s) = f[Len(s)]
                /\ f[0] = NothingRead
                /\ \A i \in 1 .. Len(s) : f[i] = ReadRecord(f[i - 1], s[i])
<1> DEFINE n == Len(s)
           f == CHOOSE f : Reads(s, n, f)
<1>1. Reads(s, n, f)
  <2>1. \E x : Reads(s, n, x)
    BY ReadsExist
  <2> QED
    BY <2>1, Zenon
<1>2. Read(s) = f[n]
  BY DEF Read, Reads
<1> HIDE DEF f
<1>3. \A i \in 0 .. n : f[i] = IF i = 0 THEN NothingRead ELSE ReadRecord(f[i - 1], s[i])
  BY <1>1 DEF Reads
<1>4. f[0] = NothingRead /\ \A i \in 1 .. n : f[i] = ReadRecord(f[i - 1], s[i])
  BY <1>3
<1> QED
  BY <1>2, <1>4

\* A replay has the entries whose records are there, from the files of these.
LEMMA ReadKeeps ==
  ASSUME NEW s, Len(s) \in Nat, NEW j \in 1 .. Len(s), NEW i \in Nat, Writer(s, Len(s), j, i),
         \A m \in 1 .. Len(s) : s[m].write \in Writes
  PROVE  /\ i \in DOMAIN Read(s).entries
         /\ Read(s).entries[i] = s[j].write.counters
         /\ Read(s).files[i] = s[j].file
<1> DEFINE n == Len(s)
<1>1. PICK f : /\ Read(s) = f[n] /\ f[0] = NothingRead
               /\ \A m \in 1 .. n : f[m] = ReadRecord(f[m - 1], s[m])
  BY ReadIs
<1> DEFINE Has(m) == /\ i \in DOMAIN f[m].entries
                     /\ f[m].entries[i] = s[j].write.counters
                     /\ f[m].files[i] = s[j].file
           S == {m \in j .. n : ~Has(m)}
<1>2. S = {}
  <2> SUFFICES ASSUME S # {} PROVE FALSE
    OBVIOUS
  <2>1. PICK k \in S : \A m \in S : k <= m
    <3>1. S \in SUBSET Nat
      OBVIOUS
    <3> HIDE DEF S
    <3> QED
      BY <3>1, LeastExists
  <2>2. k \in 1 .. n /\ f[k] = ReadRecord(f[k - 1], s[k])
    BY <1>1
  <2> DEFINE w == s[k].write
             kept == {x \in DOMAIN f[k - 1].entries : x > w.log_start /\ x < w.entries_from}
             new == w.entries_from .. w.op_number
  <2>3. /\ f[k].entries = [x \in kept \union new |->
                             IF x \in new THEN w.counters ELSE f[k - 1].entries[x]]
        /\ f[k].files = [x \in kept \union new |->
                           IF x \in new THEN s[k].file ELSE f[k - 1].files[x]]
    BY <2>2 DEF ReadRecord
  <2>4. CASE k = j
    <3>1. i \in new
      BY <2>4 DEF Writer
    <3>2. Has(k)
      BY <2>3, <2>4, <3>1
    <3> QED
      BY <3>2
  <2>5. CASE k # j
    <3>1. k - 1 \in j .. n /\ ~(k <= k - 1) /\ k \in j + 1 .. n
      BY <2>5
    <3>2. Has(k - 1)
      BY <2>1, <3>1
    <3>3. w.log_start < i /\ i < w.entries_from
      BY <3>1 DEF Writer
    <3>4. i \in kept /\ i \notin new
      BY <2>2, <3>2, <3>3 DEF Writes
    <3>5. Has(k)
      BY <2>3, <3>2, <3>4
    <3> QED
      BY <3>5
  <2> QED
    BY <2>4, <2>5
<1>3. Has(n)
  BY <1>2
<1> QED
  BY <1>1, <1>3

\* The header is that of the last record.
LEMMA ReadHeader ==
  ASSUME NEW s, Len(s) \in Nat
  PROVE  IF Len(s) = 0 THEN Read(s) = NothingRead
         ELSE Read(s).header = s[Len(s)].write /\ Read(s).file = s[Len(s)].file
<1>1. PICK f : /\ Read(s) = f[Len(s)] /\ f[0] = NothingRead
               /\ \A m \in 1 .. Len(s) : f[m] = ReadRecord(f[m - 1], s[m])
  BY ReadIs
<1>2. CASE Len(s) = 0
  BY <1>1, <1>2
<1>3. CASE Len(s) # 0
  <2>1. Read(s) = ReadRecord(f[Len(s) - 1], s[Len(s)])
    BY <1>1, <1>3
  <2> QED
    BY <1>3, <2>1 DEF ReadRecord
<1> QED
  BY <1>2, <1>3

\* A sequence and its length.
LEMMA SeqFacts ==
  ASSUME NEW s, IsSeq(s)
  PROVE  Len(s) \in Nat /\ DOMAIN s = 1 .. Len(s)
  BY DEF IsSeq

\* A sequence and one more.
LEMMA AppendFacts ==
  ASSUME NEW s, IsSeq(s), NEW x
  PROVE  /\ IsSeq(Append(s, x)) /\ Len(Append(s, x)) = Len(s) + 1
         /\ Append(s, x)[Len(s) + 1] = x
         /\ \A i \in 1 .. Len(s) : Append(s, x)[i] = s[i]
<1>1. PICK S : s \in Seq(S)
  BY DEF IsSeq
<1>2. s \in Seq(S \union {x}) /\ x \in S \union {x}
  BY <1>1
<1>3. Append(s, x) \in Seq(S \union {x})
  BY <1>2
<1> QED
  BY <1>2, <1>3 DEF IsSeq

\* A record's write is what its state says.
LEMMA LeftByFacts ==
  ASSUME NEW s, NEW w, Left_by(s, w)
  PROVE  /\ s.log_start = w.log_start /\ s.op_number = w.op_number /\ s.counters = w.counters
         /\ Span(s) = Span(w)
<1>1. s.log_start = w.log_start /\ s.op_number = w.op_number /\ s.counters = w.counters
  BY DEF Left_by
<1> QED
  BY <1>1 DEF Span

\* The last record is the writer of the last entries: the writers of two
\* entries come in the order of the entries.
LEMMA WritersInOrder ==
  ASSUME NEW w, NEW n \in Nat, \A m \in 1 .. n : w[m].write \in Writes,
         NEW i \in Nat, NEW k \in Nat, i <= k,
         NEW j \in 1 .. n, NEW l \in 1 .. n, Writer(w, n, j, i), Writer(w, n, l, k)
  PROVE  j <= l
<1> SUFFICES ASSUME l < j PROVE FALSE
  OBVIOUS
<1>1. j \in l + 1 .. n
  OBVIOUS
<1>2. k < w[j].write.entries_from /\ w[j].write.entries_from <= i /\ w[j].write.entries_from \in Nat
  BY <1>1 DEF Writer, Writes
<1> QED
  BY <1>2

\* A covered journal replays to the state its last record left.
LEMMA CoveredReads ==
  ASSUME NEW s, WalOK(s), NEW B, Covered(s, Len(s), B)
  PROVE  ~Lacks(Read(s)) /\ StateOf(Read(s)) = StateAt(s, Len(s))
<1> DEFINE n == Len(s)
           read == Read(s)
<1>1. n \in Nat /\ \A m \in 1 .. n : s[m].write \in Writes
  BY SeqFacts DEF WalOK
<1>2. CASE n = 0
  <2>1. read = NothingRead
    BY <1>1, <1>2, ReadHeader
  <2>2. Retained(read) = {}
    BY <2>1 DEF Retained, NothingRead, Blank
  <2> HIDE DEF read
  <2>3. Restrict(read.entries, Retained(read)) = Nothing
    <3>1. Restrict(read.entries, {}) = Nothing
      BY DEF Restrict, Nothing
    <3> QED
      BY <2>2, <3>1
  <2>4. read.header = Blank
    BY <2>1 DEF NothingRead
  <2>5. StateOf(read) = Blank
    BY <2>3, <2>4 DEF StateOf, Blank
  <2> QED
    BY <1>2, <2>2, <2>5 DEF Lacks, StateAt, read
<1>3. CASE n # 0
  <2> DEFINE w == s[n].write
             left == s[n].left
  <2>1. read.header = w
    BY <1>1, <1>3, ReadHeader
  <2>2. Left_by(left, w) /\ StateAt(s, n) = left /\ Retained(read) = Span(w) /\ w \in Writes
    BY <1>1, <1>3, <2>1 DEF Covered, StateAt, Retained, Span
  <2>3. ASSUME NEW i \in Span(w)
        PROVE  i \in DOMAIN read.entries /\ read.entries[i] = left.log[i]
    <3>1. i \in Nat /\ i \in Span(StateAt(s, n))
      BY <2>2, LeftByFacts DEF Span, Writes
    <3>2. PICK j \in 1 .. n : Writer(s, n, j, i) /\ s[j].write.counters = left.log[i]
      BY <2>2, <3>1 DEF Covered
    <3> QED
      BY <1>1, <3>1, <3>2, ReadKeeps
  <2> HIDE DEF read, left, w
  <2>4. ~Lacks(read)
    BY <2>2, <2>3 DEF Lacks
  <2>5. Restrict(read.entries, Retained(read)) = [i \in Span(w) |-> left.log[i]]
    BY <2>2, <2>3 DEF Restrict
  <2>6. StateOf(read) = left
    BY <2>1, <2>2, <2>5 DEF StateOf, Left_by
  <2> QED
    BY <2>2, <2>4, <2>6 DEF read
<1> QED
  BY <1>2, <1>3

\* The runs that a start makes of the files it read.
LEMMA OpenedRuns ==
  ASSUME NEW s, WalOK(s), NEW B, Covered(s, Len(s), B)
  PROVE  RunsOK(s, Len(s), Opened(Read(s)).runs)
<1> DEFINE n == Len(s)
           read == Read(s)
           firsts == {i \in Retained(read) : i - 1 \in Retained(read) =>
                                               read.files[i - 1] # read.files[i]}
           runs == Opened(read).runs
<1>1. n \in Nat /\ \A m \in 1 .. n : s[m].write \in Writes /\ s[m].file \in Nat
  BY SeqFacts DEF WalOK
<1>2. runs = [i \in firsts |-> read.files[i]]
  BY DEF Opened, Restrict
<1>3. CASE n = 0
  <2>1. read = NothingRead
    BY <1>1, <1>3, ReadHeader
  <2>2. Retained(read) = {}
    BY <2>1 DEF Retained, NothingRead, Blank
  <2>3. DOMAIN runs = {}
    BY <1>2, <2>2
  <2>4. Span(StateAt(s, n)) = {}
    BY <1>3 DEF Span, StateAt, Blank
  <2> HIDE DEF runs
  <2> QED
    BY <2>3, <2>4 DEF RunsOK, runs
<1>4. CASE n # 0
  <2> DEFINE w == s[n].write
             left == s[n].left
  <2>1. read.header = w
    BY <1>1, <1>4, ReadHeader
  <2>2. Left_by(left, w) /\ StateAt(s, n) = left /\ Retained(read) = Span(w) /\ w \in Writes
    BY <1>1, <1>4, <2>1 DEF Covered, StateAt, Retained, Span
  <2>3. Span(StateAt(s, n)) = Span(w) /\ Span(w) = w.log_start + 1 .. w.op_number
        /\ w.log_start \in Nat /\ w.op_number \in Nat
    BY <2>2, LeftByFacts DEF Span, Writes
  <2>4. ASSUME NEW i \in Span(w)
        PROVE  \E j \in 1 .. n : Writer(s, n, j, i) /\ read.files[i] = s[j].file
    <3>1. i \in Nat
      BY <2>3
    <3>2. PICK j \in 1 .. n : Writer(s, n, j, i)
      BY <2>3 DEF Covered
    <3> QED
      BY <1>1, <3>1, <3>2, ReadKeeps
  <2>5. DOMAIN runs = firsts /\ firsts \subseteq Span(w) /\ \A r \in firsts : runs[r] = read.files[r]
    BY <1>2, <2>2
  <2>6. \A i \in Span(w) : \E r \in firsts : r <= i
    <3> SUFFICES ASSUME NEW i \in Span(w) PROVE \E r \in firsts : r <= i
      OBVIOUS
    <3> DEFINE r == w.log_start + 1
    <3>1. r \in Span(w) /\ r - 1 \notin Span(w) /\ r <= i
      BY <2>3
    <3> HIDE DEF r
    <3>2. r \in firsts
      BY <2>2, <3>1
    <3> QED
      BY <3>1, <3>2
  <2> HIDE DEF firsts, runs, w, left, read
  <2>7. ASSUME NEW r \in firsts
        PROVE  r \in Nat /\ runs[r] \in Nat /\ runs[r] <= LastFile(s)
    <3>1. r \in Span(w) /\ r \in Nat
      BY <2>3, <2>5
    <3>2. PICK j \in 1 .. n : read.files[r] = s[j].file
      BY <2>4, <3>1
    <3>3. n \in 1 .. n /\ j <= n
      BY <1>1, <1>4
    <3>4. s[j].file <= s[n].file
      BY <3>3 DEF WalOK
    <3> QED
      BY <1>1, <1>4, <2>5, <3>1, <3>2, <3>4 DEF LastFile
  <2>8. ASSUME NEW i \in Span(w), NEW j \in 1 .. n, NEW r \in firsts, Writer(s, n, j, i), r <= i
        PROVE  runs[r] <= s[j].file
    <3>1. r \in Span(w) /\ r \in Nat /\ i \in Nat
      BY <2>3, <2>5
    <3>2. PICK l \in 1 .. n : Writer(s, n, l, r) /\ read.files[r] = s[l].file
      BY <2>4, <3>1
    <3>3. l <= j
      BY <1>1, <2>8, <3>1, <3>2, WritersInOrder
    <3>4. s[l].file <= s[j].file
      BY <3>3 DEF WalOK
    <3> QED
      BY <2>5, <3>2, <3>4
  <2>9. RunsOK(s, n, runs)
    BY <2>3, <2>5, <2>6, <2>7, <2>8 DEF RunsOK
  <2> QED
    BY <2>9 DEF runs, read
<1> QED
  BY <1>3, <1>4
-----------------------------------------------------------------------------
(* What Left computes *)

\* One more record, if its file is there.
One(x, r, g) == IF r.file \in g THEN x ELSE Append(x, r)

\* f holds what is left of each number of records.
Lefts(w, n, g, f) ==
  f = [i \in 0 .. n |->
         IF i = 0 THEN <<>> ELSE One(f[i - 1], w[i], g)]

\* What Lefts says of each number of records.
LEMMA LeftsAt ==
  ASSUME NEW w, NEW n \in Nat, NEW g, NEW f, Lefts(w, n, g, f)
  PROVE  /\ f[0] = <<>>
         /\ \A i \in 1 .. n : f[i] = One(f[i - 1], w[i], g)
<1> DEFINE none == <<>>
<1>1. f = [i \in 0 .. n |-> IF i = 0 THEN none ELSE One(f[i - 1], w[i], g)]
  BY DEF Lefts
<1> HIDE DEF none
<1>2. f[0] = none
  <2>1. 0 \in 0 .. n
    OBVIOUS
  <2> QED
    BY <1>1, <2>1
<1>3. ASSUME NEW i \in 1 .. n PROVE f[i] = One(f[i - 1], w[i], g)
  <2>1. i \in 0 .. n /\ i # 0
    OBVIOUS
  <2> QED
    BY <1>1, <2>1
<1> QED
  BY <1>2, <1>3 DEF none

\* One more record.
LEMMA LeftsGrow ==
  ASSUME NEW w, NEW n \in Nat, NEW g, NEW f, Lefts(w, n, g, f)
  PROVE  \E h : Lefts(w, n + 1, g, h)
<1> DEFINE k == n + 1
           h == [i \in 0 .. k |-> IF i = k THEN One(f[n], w[k], g) ELSE f[i]]
<1>1. /\ f[0] = <<>>
      /\ \A i \in 1 .. n : f[i] = One(f[i - 1], w[i], g)
  BY LeftsAt, Zenon
<1>2. ASSUME NEW i \in 0 .. k
      PROVE  h[i] = IF i = 0 THEN <<>> ELSE One(h[i - 1], w[i], g)
  <2>1. CASE i = k
    <3>1. i # 0 /\ h[i] = One(f[n], w[k], g) /\ k - 1 = n /\ n \in 0 .. k /\ n # k
      BY <2>1
    <3>2. h[i - 1] = f[n]
      BY <2>1, <3>1
    <3> HIDE DEF h
    <3> QED
      BY <2>1, <3>1, <3>2
  <2>2. CASE i # k
    <3>1. i \in 0 .. n /\ (i # 0 => i \in 1 .. n /\ i - 1 \in 0 .. k /\ i - 1 # k)
      BY <2>2
    <3>2. h[i] = f[i] /\ (i # 0 => h[i - 1] = f[i - 1])
      BY <2>2, <3>1
    <3> HIDE DEF h
    <3> QED
      BY <1>1, <3>1, <3>2
  <2> QED
    BY <2>1, <2>2
<1>3. h = [i \in 0 .. k |-> h[i]]
  OBVIOUS
<1> HIDE DEF h
<1>4. [i \in 0 .. k |-> h[i]] = [i \in 0 .. k |-> IF i = 0 THEN <<>> ELSE One(h[i - 1], w[i], g)]
  BY <1>2
<1>5. h = [i \in 0 .. k |-> IF i = 0 THEN <<>> ELSE One(h[i - 1], w[i], g)]
  BY <1>3, <1>4
<1>6. Lefts(w, k, g, h)
  BY <1>5 DEF Lefts
<1> QED
  BY <1>6

\* There is such a function, for every number of records.
LEMMA LeftsExist ==
  ASSUME NEW w, NEW n \in Nat, NEW g
  PROVE  \E f : Lefts(w, n, g, f)
<1> DEFINE S == {k \in Nat : ~ \E f : Lefts(w, k, g, f)}
<1> SUFFICES ASSUME S # {} PROVE FALSE
  OBVIOUS
<1>1. PICK k \in S : \A i \in S : k <= i
  <2>1. S \in SUBSET Nat
    OBVIOUS
  <2> HIDE DEF S
  <2> QED
    BY <2>1, LeastExists
<1>2. CASE k = 0
  <2> DEFINE f == [i \in 0 .. 0 |-> <<>>]
  <2>1. Lefts(w, 0, g, f)
    BY DEF Lefts
  <2> QED
    BY <1>2, <2>1
<1>3. CASE k # 0
  <2>1. k - 1 \in Nat /\ k - 1 \notin S /\ k - 1 + 1 = k
    BY <1>1, <1>3
  <2>2. PICK f : Lefts(w, k - 1, g, f)
    BY <2>1
  <2>3. \E h : Lefts(w, k - 1 + 1, g, h)
    BY <2>1, <2>2, LeftsGrow
  <2> QED
    BY <2>1, <2>3
<1> QED
  BY <1>2, <1>3

\* Any two agree.
LEMMA LeftsAgree ==
  ASSUME NEW w, NEW g, NEW m \in Nat, NEW n \in Nat, NEW f, NEW h,
         Lefts(w, m, g, f), Lefts(w, n, g, h), NEW j \in Nat, j <= m, j <= n
  PROVE  f[j] = h[j]
<1> DEFINE S == {k \in Nat : k <= m /\ k <= n /\ f[k] # h[k]}
<1> SUFFICES ASSUME S # {} PROVE FALSE
  OBVIOUS
<1>1. PICK k \in S : \A i \in S : k <= i
  <2>1. S \in SUBSET Nat
    OBVIOUS
  <2> HIDE DEF S
  <2> QED
    BY <2>1, LeastExists
<1>2. /\ f[0] = <<>>
      /\ \A i \in 1 .. m : f[i] = One(f[i - 1], w[i], g)
  BY LeftsAt
<1>a. /\ h[0] = <<>>
      /\ \A i \in 1 .. n : h[i] = One(h[i - 1], w[i], g)
  BY LeftsAt
<1>3. k # 0 /\ k - 1 \in Nat /\ k - 1 \notin S
  BY <1>1, <1>2, <1>a
<1>4. f[k - 1] = h[k - 1] /\ k \in 1 .. m /\ k \in 1 .. n
  BY <1>3
<1>5. f[k] = h[k]
  BY <1>2, <1>a, <1>4
<1> QED
  BY <1>5

\* Left, one record after the other.
LEMMA LeftStep ==
  ASSUME NEW w, NEW g
  PROVE  /\ Left(w, 0, g) = <<>>
         /\ \A n \in Nat \ {0} :
              Left(w, n, g) = One(Left(w, n - 1, g), w[n], g)
<1> DEFINE F(n) == CHOOSE f : Lefts(w, n, g, f)
<1>1. ASSUME NEW n \in Nat PROVE Lefts(w, n, g, F(n)) /\ Left(w, n, g) = F(n)[n]
  <2>1. \E f : Lefts(w, n, g, f)
    BY LeftsExist
  <2>2. Lefts(w, n, g, F(n))
    BY <2>1, Zenon
  <2>3. Left(w, n, g) = F(n)[n]
    BY DEF Left, Lefts, One
  <2> QED
    BY <2>2, <2>3
<1> HIDE DEF F
<1>2. Left(w, 0, g) = <<>>
  <2>1. 0 \in Nat
    OBVIOUS
  <2>2. Lefts(w, 0, g, F(0)) /\ Left(w, 0, g) = F(0)[0]
    BY <1>1, <2>1
  <2> QED
    BY <2>1, <2>2, LeftsAt, Zenon
<1>3. ASSUME NEW n \in Nat \ {0}
      PROVE  Left(w, n, g) = One(Left(w, n - 1, g), w[n], g)
  <2>1. n - 1 \in Nat /\ n - 1 <= n - 1 /\ n - 1 <= n /\ n \in 1 .. n /\ n \in Nat
    OBVIOUS
  <2>2. Lefts(w, n, g, F(n)) /\ Lefts(w, n - 1, g, F(n - 1))
    BY <1>1, <2>1
  <2>3. F(n - 1)[n - 1] = F(n)[n - 1]
    BY <2>1, <2>2, LeftsAgree
  <2>4. F(n)[n] = One(F(n)[n - 1], w[n], g)
    BY <2>1, <2>2, LeftsAt
  <2> QED
    BY <1>1, <2>1, <2>3, <2>4
<1> QED
  BY <1>2, <1>3

\* What is left of n records: every one whose file is there, in order.
LeftFacts(w, n, g) ==
  LET L(m) == Left(w, m, g) IN
  /\ IsSeq(L(n)) /\ Len(L(n)) \in Nat
  /\ \A m \in 0 .. n : Len(L(m)) <= Len(L(n))
  /\ \A x \in 1 .. n : w[x].file \notin g =>
       Len(L(x)) \in 1 .. Len(L(n)) /\ L(n)[Len(L(x))] = w[x] /\ Len(L(x)) = Len(L(x - 1)) + 1
  /\ \A k \in 1 .. Len(L(n)) : \E x \in 1 .. n : w[x].file \notin g /\ Len(L(x)) = k

\* Left is so, for every number of records.
LEMMA LeftIs ==
  ASSUME NEW w, NEW n \in Nat, NEW g
  PROVE  LeftFacts(w, n, g)
<1> DEFINE S == {k \in Nat : ~LeftFacts(w, k, g)}
<1> SUFFICES ASSUME S # {} PROVE FALSE
  OBVIOUS
<1>1. PICK k \in S : \A i \in S : k <= i
  <2>1. S \in SUBSET Nat
    OBVIOUS
  <2> HIDE DEF S
  <2> QED
    BY <2>1, LeastExists
<1> DEFINE L(m) == Left(w, m, g)
<1>0. /\ L(0) = <<>>
      /\ \A m \in Nat \ {0} : L(m) = One(L(m - 1), w[m], g)
  BY LeftStep
<1>2. CASE k = 0
  <2>1. IsSeq(<<>>)
    <3>1. <<>> \in Seq({})
      OBVIOUS
    <3> QED
      BY <3>1 DEF IsSeq
  <2>2. Len(L(0)) = 0 /\ 1 .. 0 = {} /\ \A m \in 0 .. 0 : m = 0
    BY <1>0
  <2>3. LeftFacts(w, 0, g)
    BY <1>0, <2>1, <2>2 DEF LeftFacts
  <2> QED
    BY <1>2, <2>3
<1>3. CASE k # 0
  <2>1. k - 1 \in Nat /\ k - 1 \notin S /\ k \in Nat \ {0}
    BY <1>1, <1>3
  <2> DEFINE P == k - 1
  <2>2. LeftFacts(w, P, g)
    BY <2>1
  <2> HIDE DEF L, S
  <2>3. /\ IsSeq(L(P)) /\ Len(L(P)) \in Nat
        /\ \A m \in 0 .. P : Len(L(m)) <= Len(L(P))
        /\ \A x \in 1 .. P : w[x].file \notin g =>
             Len(L(x)) \in 1 .. Len(L(P)) /\ L(P)[Len(L(x))] = w[x] /\ Len(L(x)) = Len(L(x - 1)) + 1
        /\ \A i \in 1 .. Len(L(P)) : \E x \in 1 .. P : w[x].file \notin g /\ Len(L(x)) = i
    BY <2>2 DEF LeftFacts, L
  <2>4. L(k) = IF w[k].file \in g THEN L(P) ELSE Append(L(P), w[k])
    BY <1>0, <2>1 DEF One
  <2>5. \A x \in 1 .. k : x \in 1 .. P \/ x = k
    BY <2>1
  <2>6. \A x \in 0 .. k : x \in 0 .. P \/ x = k
    BY <2>1
  <2>7. P \in 0 .. P /\ 1 .. P \subseteq 1 .. k
    BY <2>1
  <2>8. CASE w[k].file \in g
    <3>1. L(k) = L(P)
      BY <2>4, <2>8
    <3>2. /\ IsSeq(L(k)) /\ Len(L(k)) \in Nat
          /\ \A m \in 0 .. k : Len(L(m)) <= Len(L(k))
      BY <2>3, <2>6, <3>1
    <3>3. \A x \in 1 .. k : w[x].file \notin g =>
             Len(L(x)) \in 1 .. Len(L(k)) /\ L(k)[Len(L(x))] = w[x] /\ Len(L(x)) = Len(L(x - 1)) + 1
      BY <2>3, <2>5, <2>8, <3>1
    <3>4. \A i \in 1 .. Len(L(k)) : \E x \in 1 .. k : w[x].file \notin g /\ Len(L(x)) = i
      BY <2>3, <2>7, <3>1
    <3>5. LeftFacts(w, k, g)
      BY <3>2, <3>3, <3>4 DEF LeftFacts, L
    <3> QED
      BY <3>5 DEF S
  <2>9. CASE w[k].file \notin g
    <3>1. L(k) = Append(L(P), w[k])
      BY <2>4, <2>9
    <3>a. /\ IsSeq(L(k)) /\ Len(L(k)) = Len(L(P)) + 1 /\ L(k)[Len(L(P)) + 1] = w[k]
          /\ \A i \in 1 .. Len(L(P)) : L(k)[i] = L(P)[i]
      BY <2>3, <3>1, AppendFacts
    <3>2. /\ IsSeq(L(k)) /\ Len(L(k)) \in Nat
          /\ \A m \in 0 .. k : Len(L(m)) <= Len(L(k))
      <4>1. ASSUME NEW m \in 0 .. P PROVE Len(L(m)) <= Len(L(k))
        <5>1. Len(L(m)) <= Len(L(P))
          BY <2>3
        <5>2. Len(L(m)) \in Nat
          <6>1. m \in Nat /\ m < k
            BY <2>1
          <6>2. m \notin S
            <7>1. ~(k <= m)
              BY <2>1, <6>1
            <7> QED
              BY <1>1, <7>1
          <6> QED
            BY <6>1, <6>2 DEF S, LeftFacts, L
        <5> QED
          BY <2>3, <3>a, <5>1, <5>2
      <4>2. Len(L(k)) \in Nat /\ Len(L(k)) <= Len(L(k))
        BY <2>3, <3>a
      <4> QED
        BY <2>6, <3>a, <4>1, <4>2
    <3>3. ASSUME NEW x \in 1 .. k, w[x].file \notin g
          PROVE  Len(L(x)) \in 1 .. Len(L(k)) /\ L(k)[Len(L(x))] = w[x] /\ Len(L(x)) = Len(L(x - 1)) + 1
      <4>1. CASE x = k
        <5>1. Len(L(x)) = Len(L(P)) + 1 /\ x - 1 = P
          BY <3>a, <4>1
        <5>2. Len(L(x)) \in 1 .. Len(L(k))
          BY <2>3, <3>a, <5>1
        <5> QED
          BY <3>a, <4>1, <5>1, <5>2
      <4>2. CASE x \in 1 .. P
        <5>1. Len(L(x)) \in 1 .. Len(L(P)) /\ L(P)[Len(L(x))] = w[x] /\ Len(L(x)) = Len(L(x - 1)) + 1
          BY <2>3, <3>3, <4>2
        <5>2. Len(L(x)) \in 1 .. Len(L(k))
          BY <2>3, <3>a, <5>1
        <5> QED
          BY <3>a, <5>1, <5>2
      <4> QED
        BY <2>5, <4>1, <4>2
    <3>4. ASSUME NEW i \in 1 .. Len(L(k)) PROVE \E x \in 1 .. k : w[x].file \notin g /\ Len(L(x)) = i
      <4>1. i \in 1 .. Len(L(P)) \/ i = Len(L(k))
        BY <2>3, <3>a
      <4>2. k \in 1 .. k
        BY <2>1
      <4> QED
        BY <2>3, <2>7, <2>9, <4>1, <4>2
    <3>5. LeftFacts(w, k, g)
      BY <3>2, <3>3, <3>4 DEF LeftFacts, L
    <3> QED
      BY <3>5 DEF S
  <2> QED
    BY <2>8, <2>9
<1> QED
  BY <1>2, <1>3

\* Of two records that are left, the earlier one comes first.
LEMMA LeftInOrder ==
  ASSUME NEW w, NEW n \in Nat, NEW g, NEW x \in 0 .. n, NEW y \in 1 .. n, w[y].file \notin g, x < y
  PROVE  Len(Left(w, x, g)) < Len(Left(w, y, g))
<1>1. y - 1 \in Nat /\ x \in 0 .. y - 1 /\ y \in 1 .. y /\ y \in Nat
  OBVIOUS
<1>2. LeftFacts(w, y - 1, g) /\ LeftFacts(w, y, g) /\ LeftFacts(w, x, g)
  BY <1>1, LeftIs
<1>3. Len(Left(w, x, g)) <= Len(Left(w, y - 1, g))
  BY <1>1, <1>2 DEF LeftFacts
<1>4. Len(Left(w, y, g)) = Len(Left(w, y - 1, g)) + 1
  BY <1>1, <1>2 DEF LeftFacts
<1>5. /\ Len(Left(w, x, g)) \in Nat /\ Len(Left(w, y, g)) \in Nat
      /\ Len(Left(w, y - 1, g)) \in Nat
  BY <1>2 DEF LeftFacts
<1> QED
  BY <1>3, <1>4, <1>5

\* What is left is in order.
LEMMA LeftSorted ==
  ASSUME NEW w, WalOK(w), NEW n \in 0 .. Len(w), NEW g
  PROVE  WalOK(Left(w, n, g))
<1> DEFINE L == Left(w, n, g)
<1>1. Len(w) \in Nat /\ n \in Nat
  BY SeqFacts DEF WalOK
<1>2. LeftFacts(w, n, g)
  BY <1>1, LeftIs
<1>3. IsSeq(L) /\ Len(L) \in Nat
  BY <1>2 DEF LeftFacts
<1>4. ASSUME NEW k \in 1 .. Len(L)
      PROVE  \E x \in 1 .. n : w[x].file \notin g /\ Len(Left(w, x, g)) = k /\ L[k] = w[x]
  BY <1>2 DEF LeftFacts
<1> HIDE DEF L
<1>5. ASSUME NEW k \in 1 .. Len(L) PROVE L[k].file \in Nat /\ L[k].write \in Writes
  <2>1. PICK x \in 1 .. n : L[k] = w[x]
    BY <1>4
  <2>2. x \in 1 .. Len(w)
    BY <1>1
  <2> QED
    BY <2>1, <2>2 DEF WalOK
<1>6. ASSUME NEW k \in 1 .. Len(L), NEW l \in 1 .. Len(L), k <= l PROVE L[k].file <= L[l].file
  <2>1. PICK x \in 1 .. n : w[x].file \notin g /\ Len(Left(w, x, g)) = k /\ L[k] = w[x]
    BY <1>4
  <2>2. PICK y \in 1 .. n : w[y].file \notin g /\ Len(Left(w, y, g)) = l /\ L[l] = w[y]
    BY <1>4
  <2>3. ~(y < x)
    <3> SUFFICES ASSUME y < x PROVE FALSE
      OBVIOUS
    <3>1. y \in 0 .. n
      OBVIOUS
    <3>2. Len(Left(w, y, g)) < Len(Left(w, x, g))
      BY <1>1, <2>1, <3>1, LeftInOrder
    <3> QED
      BY <1>6, <2>1, <2>2, <3>2
  <2>4. x <= y /\ x \in 1 .. Len(w) /\ y \in 1 .. Len(w)
    BY <1>1, <2>3
  <2> QED
    BY <2>1, <2>2, <2>4 DEF WalOK
<1>7. WalOK(L)
  BY <1>3, <1>5, <1>6 DEF WalOK
<1> QED
  BY <1>7 DEF L

\* What a failure leaves of m records, when the files before t may be gone: the
\* records that hold the entries are there.
LEMMA LeftCovered ==
  ASSUME NEW w, WalOK(w), NEW n \in 0 .. Len(w), NEW m \in 0 .. n, NEW B, NEW t \in B, NEW g,
         Covered(w, m, B), t \in Nat, \A f \in g : ~(t <= f)
  PROVE  /\ Covered(Left(w, n, g), Len(Left(w, m, g)), {0})
         /\ StateAt(Left(w, n, g), Len(Left(w, m, g))) = StateAt(w, m)
<1> DEFINE L == Left(w, n, g)
           q == Len(Left(w, m, g))
<1>1. Len(w) \in Nat /\ n \in Nat /\ m \in Nat
  BY SeqFacts DEF WalOK
<1>2. LeftFacts(w, n, g) /\ LeftFacts(w, m, g)
  BY <1>1, LeftIs
<1>3. q \in Nat /\ q <= Len(L)
  BY <1>2 DEF LeftFacts
<1>4. CASE m = 0
  <2>1. q = 0
    BY <1>4, LeftStep
  <2>2. StateAt(L, q) = Blank /\ StateAt(w, m) = Blank
    BY <1>4, <2>1 DEF StateAt
  <2>3. Span(Blank) = {}
    BY DEF Span, Blank
  <2> HIDE DEF L, q
  <2>4. Covered(L, q, {0})
    BY <2>1, <2>2, <2>3 DEF Covered
  <2> QED
    BY <2>2, <2>4 DEF L, q
<1>5. CASE m # 0
  <2>1. Left_by(w[m].left, w[m].write) /\ t <= w[m].file /\ m \in 1 .. n /\ m \in 1 .. m
    BY <1>1, <1>5 DEF Covered
  <2>2. w[m].file \notin g
    BY <2>1
  <2>3. L[q] = w[m] /\ q # 0
    <3>1. LeftFacts(w, n, g)
      BY <1>2
    <3>2. L[q] = w[m] /\ q \in 1 .. Len(L)
      BY <2>1, <2>2, <3>1 DEF LeftFacts
    <3> QED
      BY <3>2
  <2>4. StateAt(L, q) = w[m].left /\ StateAt(w, m) = w[m].left
    BY <1>5, <2>3 DEF StateAt
  <2>5. ASSUME NEW x \in 1 .. n, w[x].file \notin g
        PROVE  L[Len(Left(w, x, g))] = w[x] /\ Len(Left(w, x, g)) \in Nat /\ Len(Left(w, x, g)) >= 1
    BY <1>2, <2>5 DEF LeftFacts
  <2>6. ASSUME NEW k \in 1 .. q
        PROVE  \E x \in 1 .. m : w[x].file \notin g /\ Len(Left(w, x, g)) = k /\ L[k] = w[x]
    <3>1. PICK x \in 1 .. m : w[x].file \notin g /\ Len(Left(w, x, g)) = k
      BY <1>2 DEF LeftFacts
    <3>2. x \in 1 .. n
      BY <1>1
    <3> QED
      BY <2>5, <3>1, <3>2
  <2>7. ASSUME NEW k \in 1 .. q PROVE L[k].file \in Nat
    <3>1. PICK x \in 1 .. m : L[k] = w[x]
      BY <2>6
    <3>2. x \in 1 .. Len(w)
      BY <1>1
    <3> QED
      BY <3>1, <3>2 DEF WalOK
  <2>8. ASSUME NEW i \in Span(StateAt(w, m))
        PROVE  \E j \in 1 .. q : Writer(L, q, j, i) /\ L[j].write.counters = StateAt(w, m).log[i]
    <3>1. PICK x \in 1 .. m : /\ Writer(w, m, x, i) /\ t <= w[x].file
                              /\ w[x].write.counters = StateAt(w, m).log[i]
      BY DEF Covered
    <3>2. w[x].file \notin g /\ x \in 1 .. n /\ x \in 0 .. m
      BY <1>1, <3>1
    <3> DEFINE j == Len(Left(w, x, g))
    <3>3. L[j] = w[x] /\ j \in Nat /\ j >= 1
      BY <2>5, <3>2
    <3>4. j <= q
      BY <1>2, <3>2 DEF LeftFacts
    <3>5. j \in 1 .. q
      BY <1>3, <3>3, <3>4
    <3>6. ASSUME NEW k \in j + 1 .. q
          PROVE  L[k].write.log_start < i /\ i < L[k].write.entries_from
      <4>1. k \in 1 .. q /\ ~(k <= j)
        BY <1>3, <3>3
      <4>2. PICK y \in 1 .. m : w[y].file \notin g /\ Len(Left(w, y, g)) = k /\ L[k] = w[y]
        BY <2>6, <4>1
      <4>3. ~(y <= x)
        <5> SUFFICES ASSUME y <= x PROVE FALSE
          OBVIOUS
        <5>1. LeftFacts(w, x, g) /\ y \in 0 .. x
          BY <1>1, <3>2, LeftIs
        <5>2. Len(Left(w, y, g)) <= Len(Left(w, x, g))
          BY <5>1 DEF LeftFacts
        <5> QED
          BY <4>1, <4>2, <5>2
      <4>4. y \in x + 1 .. m
        BY <1>1, <4>3
      <4> QED
        BY <3>1, <4>2, <4>4 DEF Writer
    <3> HIDE DEF j, L, q
    <3>7. Writer(L, q, j, i)
      BY <3>1, <3>3, <3>5, <3>6 DEF Writer
    <3> QED
      BY <3>1, <3>3, <3>5, <3>7
  <2> HIDE DEF L, q
  <2>9. Covered(L, q, {0})
    <3>1. q \in 1 .. q /\ L[q].file \in Nat
      BY <1>3, <2>3, <2>7
    <3>2. Left_by(L[q].left, L[q].write) /\ \A b \in {0} : b <= L[q].file
      BY <2>1, <2>3, <3>1
    <3>3. ASSUME NEW i \in Span(StateAt(L, q))
          PROVE  \E j \in 1 .. q : /\ Writer(L, q, j, i)
                                   /\ L[j].write.counters = StateAt(L, q).log[i]
                                   /\ \A b \in {0} : b <= L[j].file
      <4>1. PICK j \in 1 .. q : Writer(L, q, j, i) /\ L[j].write.counters = StateAt(w, m).log[i]
        BY <2>4, <2>8
      <4>2. 0 <= L[j].file
        BY <2>7
      <4> QED
        BY <2>4, <4>1, <4>2
    <3> QED
      BY <3>2, <3>3 DEF Covered
  <2> QED
    BY <2>4, <2>9 DEF L, q
<1> QED
  BY <1>4, <1>5

\* What a failure leaves replays, to what the records it left say.
LEMMA InvKeepsHanded ==
  ASSUME IInv
  PROVE  CrashKeepsHanded
<1> SUFFICES ASSUME NEW n \in synced .. Len(wal), NEW gone \in MayBeGone
             PROVE  LET left == Left(wal, n, gone)
                        read == Read(left)
                    IN  /\ ~Lacks(read)
                        /\ read.header.counters >= handed
                        /\ left # <<>> => StateOf(read) = left[Len(left)].left
  BY DEF CrashKeepsHanded
<1> DEFINE left == Left(wal, n, gone)
           read == Read(left)
           B == Bounds(queue, trimmed)
<1>1. WalOK(wal) /\ Len(wal) \in Nat /\ synced \in 0 .. Len(wal) /\ trimmed \in Nat
  BY SeqFacts DEF IInv, TypeOK, WalOK
<1>2. Covered(wal, n, B) /\ StateAt(wal, n).counters >= handed
  BY DEF IInv, WalInv
<1>3. n \in 0 .. Len(wal) /\ n \in 0 .. n /\ trimmed \in B
  BY <1>1 DEF Bounds
<1>4. \A f \in gone : ~(trimmed <= f)
  BY <1>1 DEF MayBeGone
<1> HIDE DEF B
<1>5. Covered(left, Len(left), {0}) /\ StateAt(left, Len(left)) = StateAt(wal, n)
  BY <1>1, <1>2, <1>3, <1>4, LeftCovered
<1>6. WalOK(left)
  BY <1>1, <1>3, LeftSorted
<1> HIDE DEF left
<1>7. ~Lacks(read) /\ StateOf(read) = StateAt(left, Len(left))
  BY <1>5, <1>6, CoveredReads
<1>8. read.header.counters = StateOf(read).counters
  BY DEF StateOf
<1>9. left # <<>> => StateAt(left, Len(left)) = left[Len(left)].left
  <2>1. left # <<>> => Len(left) # 0
    BY <1>6 DEF WalOK, IsSeq
  <2> QED
    BY <2>1 DEF StateAt
<1>10. read.header.counters >= handed
  BY <1>2, <1>5, <1>7, <1>8
<1> QED
  BY <1>7, <1>9, <1>10 DEF left

-----------------------------------------------------------------------------
(* One more record *)

\* The states that records leave are of numbers.
LEMMA StateNumbers ==
  ASSUME NEW w, WalOK(w), NEW n \in 0 .. Len(w), NEW B, Covered(w, n, B)
  PROVE  /\ StateAt(w, n).log_start \in Nat /\ StateAt(w, n).op_number \in Nat
         /\ StateAt(w, n).counters \in Nat
<1>1. CASE n = 0
  BY <1>1 DEF StateAt, Blank
<1>2. CASE n # 0
  <2>1. n \in 1 .. Len(w)
    BY <1>2, SeqFacts DEF WalOK
  <2>2. w[n].write \in Writes /\ Left_by(w[n].left, w[n].write) /\ StateAt(w, n) = w[n].left
    BY <1>2, <2>1 DEF WalOK, Covered, StateAt
  <2> QED
    BY <2>2, LeftByFacts DEF Writes
<1> QED
  BY <1>1, <1>2

\* Fewer bounds ask for less.
LEMMA CoveredFewer ==
  ASSUME NEW w, NEW n \in Nat, NEW B, NEW C, \A b \in C : b \in B, Covered(w, n, B)
  PROVE  Covered(w, n, C)
<1>1. ASSUME NEW i \in Span(StateAt(w, n))
      PROVE  \E j \in 1 .. n : /\ Writer(w, n, j, i)
                               /\ w[j].write.counters = StateAt(w, n).log[i]
                               /\ \A b \in C : b <= w[j].file
  <2>1. PICK j \in 1 .. n : /\ Writer(w, n, j, i) /\ w[j].write.counters = StateAt(w, n).log[i]
                            /\ \A b \in B : b <= w[j].file
    BY DEF Covered
  <2> QED
    BY <2>1
<1>2. n # 0 => Left_by(w[n].left, w[n].write) /\ \A b \in C : b <= w[n].file
  BY DEF Covered
<1> QED
  BY <1>1, <1>2 DEF Covered

\* What the first records cover depends on nothing after them.
LEMMA CoveredSame ==
  ASSUME NEW w, NEW v, NEW n \in Nat, \A k \in 1 .. n : v[k] = w[k], NEW B, Covered(w, n, B)
  PROVE  Covered(v, n, B) /\ StateAt(v, n) = StateAt(w, n)
<1>1. StateAt(v, n) = StateAt(w, n)
  BY DEF StateAt
<1>2. ASSUME NEW i \in Span(StateAt(v, n))
      PROVE  \E j \in 1 .. n : /\ Writer(v, n, j, i)
                               /\ v[j].write.counters = StateAt(v, n).log[i]
                               /\ \A b \in B : b <= v[j].file
  <2>1. PICK j \in 1 .. n : /\ Writer(w, n, j, i) /\ w[j].write.counters = StateAt(w, n).log[i]
                            /\ \A b \in B : b <= w[j].file
    BY <1>1 DEF Covered
  <2>2. v[j] = w[j] /\ \A k \in j + 1 .. n : v[k] = w[k]
    OBVIOUS
  <2>3. Writer(v, n, j, i)
    BY <2>1, <2>2 DEF Writer
  <2> QED
    BY <1>1, <2>1, <2>2, <2>3
<1>3. n # 0 => Left_by(v[n].left, v[n].write) /\ \A b \in B : b <= v[n].file
  BY DEF Covered
<1> QED
  BY <1>1, <1>2, <1>3 DEF Covered

\* The entries that a write keeps are entries of the state it is taken from.
LEMMA KeptEntries ==
  ASSUME NEW s, NEW v, Takeable(s, v), NEW i \in Span(v), i < v.entries_from
  PROVE  i \in Span(s)
<1>1. /\ v.log_start \in Nat /\ v.entries_from \in Nat /\ v.op_number \in Nat
      /\ s.log_start \in Nat /\ s.op_number \in Nat /\ v.log_start >= s.log_start
      /\ v.entries_from \in v.log_start + 1 .. Later(s.op_number, v.log_start) + 1
  BY DEF Takeable, Writes, Fits
<1>2. i \in Nat /\ i >= v.log_start + 1
  BY <1>1 DEF Span
<1> QED
  BY <1>1, <1>2 DEF Later, Span

\* A record of a write that may be taken leaves every entry in a file.
LEMMA CoveredNext ==
  ASSUME NEW w, NEW n \in Nat, NEW B, NEW v, NEW file \in Nat, NEW s,
         s = StateAt(w, n), Covered(w, n, B), Takeable(s, v),
         w[n + 1] = RecordOf(s, v, file), \A b \in B : b <= file
  PROVE  Covered(w, n + 1, B) /\ StateAt(w, n + 1) = After(s, v)
<1> DEFINE m == n + 1
           a == After(s, v)
<1>1. w[m].file = file /\ w[m].write = v /\ w[m].left = a
  BY DEF RecordOf
<1>2. StateAt(w, m) = a
  BY <1>1 DEF StateAt
<1>3. Left_by(a, v) /\ Span(a) = Span(v)
  <2>1. a.log = [i \in Span(v) |-> a.log[i]]
    BY DEF After, Span
  <2>2. Left_by(a, v)
    BY <2>1 DEF Left_by, After
  <2> QED
    BY <2>2, LeftByFacts
<1>4. v \in Writes /\ m \in 1 .. m /\ m \in Nat
  BY DEF Takeable
<1>5. ASSUME NEW i \in Span(v)
      PROVE  \E j \in 1 .. m : /\ Writer(w, m, j, i)
                               /\ w[j].write.counters = a.log[i]
                               /\ \A b \in B : b <= w[j].file
  <2>1. a.log[i] = (IF i < v.entries_from THEN s.log[i] ELSE v.counters) /\ i \in Nat
    BY <1>4 DEF After, Span, Writes
  <2>2. CASE i < v.entries_from
    <3>1. i \in Span(s)
      BY <2>2, KeptEntries
    <3>2. PICK j \in 1 .. n : /\ Writer(w, n, j, i) /\ w[j].write.counters = s.log[i]
                              /\ \A b \in B : b <= w[j].file
      BY <3>1 DEF Covered
    <3>3. \A k \in j + 1 .. m : k \in j + 1 .. n \/ k = m
      OBVIOUS
    <3>4. v.log_start < i
      BY <1>4 DEF Span, Writes
    <3>5. Writer(w, m, j, i)
      BY <1>1, <2>2, <3>2, <3>3, <3>4 DEF Writer
    <3> QED
      BY <2>1, <2>2, <3>2, <3>5
  <2>3. CASE ~(i < v.entries_from)
    <3>1. v.entries_from <= i /\ i <= v.op_number /\ m + 1 .. m = {}
      BY <1>4, <2>1, <2>3 DEF Span, Writes
    <3>2. Writer(w, m, m, i)
      BY <1>1, <1>4, <3>1 DEF Writer
    <3> QED
      BY <1>1, <1>4, <2>1, <2>3, <3>2
  <2> QED
    BY <2>2, <2>3
<1> HIDE DEF m, a
<1>6. Covered(w, m, B)
  BY <1>1, <1>2, <1>3, <1>5 DEF Covered
<1> QED
  BY <1>2, <1>6 DEF m, a

-----------------------------------------------------------------------------
(* The runs *)

\* The runs of the journal with the runs that a write adds, before it drops those
\* that the log no longer has.
AllRuns(runs, v, file) ==
  LET added == IF v.op_number >= v.entries_from THEN {v.entries_from} ELSE {}
  IN  [i \in {k \in DOMAIN runs : k < v.entries_from} \union added |->
         IF i \in added THEN file ELSE runs[i]]

\* A run of AllRuns is an old one before the write's entries, or the write's.
LEMMA AllRunsFacts ==
  ASSUME NEW runs, DOMAIN runs \subseteq Nat, NEW v \in Writes, NEW file,
         NEW u \in DOMAIN AllRuns(runs, v, file)
  PROVE  \/ u \in DOMAIN runs /\ u < v.entries_from /\ AllRuns(runs, v, file)[u] = runs[u]
         \/ u = v.entries_from /\ AllRuns(runs, v, file)[u] = file
<1>1. v.entries_from \in Nat
  BY DEF Writes
<1> QED
  BY <1>1 DEF AllRuns

\* A run after a write is one of AllRuns, which may now start later.
LEMMA RunsAfterFacts ==
  ASSUME NEW runs, DOMAIN runs \subseteq Nat, NEW v \in Writes, NEW file,
         NEW r \in DOMAIN RunsAfter(runs, v, file)
  PROVE  /\ r \in Nat
         /\ \E u \in DOMAIN AllRuns(runs, v, file) :
              u <= r /\ RunsAfter(runs, v, file)[r] = AllRuns(runs, v, file)[u]
<1> DEFINE all == AllRuns(runs, v, file)
           first == v.log_start + 1
           upto == {i \in DOMAIN all : i <= first}
           kept == {i \in DOMAIN all : i >= first}
           after == RunsAfter(runs, v, file)
<1>1. after = IF upto = {} \/ v.op_number < first THEN [i \in kept |-> all[i]]
              ELSE [i \in kept \union {first} |-> IF i \in kept THEN all[i] ELSE all[Max(upto)]]
  BY DEF RunsAfter, AllRuns, Restrict
<1>2. DOMAIN all \subseteq Nat /\ first \in Nat
  BY DEF AllRuns, Writes
<1> HIDE DEF after, all, first
<1>3. CASE r \in kept
  <2>1. r \in DOMAIN all /\ r \in Nat /\ r <= r
    BY <1>2, <1>3
  <2>2. after[r] = all[r]
    BY <1>1, <1>3
  <2> QED
    BY <2>1, <2>2 DEF after, all
<1>4. CASE r \notin kept
  <2>1. upto # {} /\ r = first /\ after[r] = all[Max(upto)]
    BY <1>1, <1>4 DEF after
  <2>2. upto \in SUBSET (0 .. first)
    BY <1>2
  <2>3. Max(upto) \in upto
    <3> HIDE DEF upto
    <3> QED
      BY <1>2, <2>1, <2>2, MaxIsGreatest
  <2>4. Max(upto) \in DOMAIN all /\ Max(upto) <= r
    BY <2>1, <2>3
  <2> QED
    BY <1>2, <2>1, <2>4 DEF after, all
<1> QED
  BY <1>3, <1>4

\* Every entry that a write leaves is in a run.
LEMMA RunsAfterReach ==
  ASSUME NEW runs, DOMAIN runs \subseteq Nat, NEW v \in Writes, NEW file, NEW i \in Span(v),
         i < v.entries_from => \E u \in DOMAIN runs : u <= i,
         v.entries_from > v.log_start
  PROVE  \E r \in DOMAIN RunsAfter(runs, v, file) : r <= i
<1> DEFINE all == AllRuns(runs, v, file)
           first == v.log_start + 1
           upto == {k \in DOMAIN all : k <= first}
           kept == {k \in DOMAIN all : k >= first}
           after == RunsAfter(runs, v, file)
<1>1. after = IF upto = {} \/ v.op_number < first THEN [k \in kept |-> all[k]]
              ELSE [k \in kept \union {first} |-> IF k \in kept THEN all[k] ELSE all[Max(upto)]]
  BY DEF RunsAfter, AllRuns, Restrict
<1>2. DOMAIN all \subseteq Nat /\ first \in Nat /\ i \in Nat /\ first <= i /\ i <= v.op_number
      /\ v.entries_from \in Nat /\ v.op_number \in Nat
  BY DEF AllRuns, Writes, Span
<1>3. \E u \in DOMAIN all : u <= i
  <2>1. CASE i < v.entries_from
    <3>1. PICK u \in DOMAIN runs : u <= i
      BY <2>1
    <3>2. u \in Nat /\ u < v.entries_from
      BY <1>2, <2>1, <3>1
    <3>3. u \in DOMAIN all
      BY <3>2 DEF AllRuns
    <3> QED
      BY <3>1, <3>3
  <2>2. CASE ~(i < v.entries_from)
    <3>1. v.op_number >= v.entries_from /\ v.entries_from <= i
      BY <1>2, <2>2
    <3>2. v.entries_from \in DOMAIN all
      BY <3>1 DEF AllRuns
    <3> QED
      BY <3>1, <3>2
  <2> QED
    BY <2>1, <2>2
<1>4. PICK u \in DOMAIN all : u <= i
  BY <1>3
<1> HIDE DEF after, all, first
<1>5. CASE upto = {} \/ v.op_number < first
  <2>1. upto = {}
    BY <1>2, <1>5
  <2>2. u \in kept
    BY <1>2, <1>4, <2>1
  <2>3. u \in DOMAIN after
    BY <1>1, <1>5, <2>2
  <2> QED
    BY <1>4, <2>3 DEF after
<1>6. CASE ~(upto = {} \/ v.op_number < first)
  <2>1. first \in DOMAIN after
    BY <1>1, <1>6
  <2> QED
    BY <1>2, <2>1 DEF after
<1> QED
  BY <1>5, <1>6

\* Journal::finish keeps the runs right.
LEMMA RunsAfterOK ==
  ASSUME NEW w, WalOK(w), NEW n \in Nat, Len(w) = n + 1, NEW runs, RunsOK(w, n, runs),
         NEW s, s = StateAt(w, n), NEW v, Takeable(s, v), NEW file,
         w[n + 1].file = file, w[n + 1].write = v, w[n + 1].left = After(s, v)
  PROVE  RunsOK(w, n + 1, RunsAfter(runs, v, file))
<1> DEFINE m == n + 1
           after == RunsAfter(runs, v, file)
           all == AllRuns(runs, v, file)
<1>1. w[m].file = file /\ w[m].write = v /\ StateAt(w, m) = After(s, v) /\ LastFile(w) = file
  BY DEF StateAt, LastFile
<1>2. Span(StateAt(w, m)) = Span(v)
  BY <1>1 DEF Span, After
<1>3. /\ v \in Writes /\ v.entries_from \in Nat /\ v.log_start \in Nat /\ v.op_number \in Nat
      /\ v.entries_from > v.log_start
  <2>1. v \in Writes /\ s.op_number \in Nat
        /\ v.entries_from \in v.log_start + 1 .. Later(s.op_number, v.log_start) + 1
    BY DEF Takeable, Fits
  <2>2. v.entries_from \in Nat /\ v.log_start \in Nat /\ v.op_number \in Nat
    BY <2>1 DEF Writes
  <2> QED
    BY <2>1, <2>2 DEF Later
<1>4. m \in 1 .. m /\ m \in 1 .. Len(w) /\ file \in Nat
  BY <1>1 DEF WalOK
<1>5. /\ \A i \in Span(s) : \E r \in DOMAIN runs : r <= i
      /\ DOMAIN runs \subseteq Nat
      /\ \A r \in DOMAIN runs : runs[r] \in Nat /\ runs[r] <= file
      /\ \A i \in Span(s) : \A j \in 1 .. n : \A r \in DOMAIN runs :
           Writer(w, n, j, i) /\ r <= i => runs[r] <= w[j].file
  BY <1>1 DEF RunsOK
<1> HIDE DEF m, after, all
<1>6. ASSUME NEW i \in Span(v) PROVE \E r \in DOMAIN after : r <= i
  <2>1. i < v.entries_from => \E u \in DOMAIN runs : u <= i
    BY <1>5, KeptEntries
  <2> QED
    BY <1>3, <1>5, <2>1, RunsAfterReach DEF after
<1>7. ASSUME NEW r \in DOMAIN after
      PROVE  r \in Nat /\ \E u \in DOMAIN all : u <= r /\ after[r] = all[u]
  BY <1>3, <1>5, RunsAfterFacts DEF after, all
<1>8. ASSUME NEW u \in DOMAIN all
      PROVE  \/ u \in DOMAIN runs /\ u < v.entries_from /\ all[u] = runs[u]
             \/ u = v.entries_from /\ all[u] = file
  BY <1>3, <1>5, AllRunsFacts DEF all
<1>9. ASSUME NEW u \in DOMAIN all PROVE all[u] \in Nat /\ all[u] <= file
  BY <1>4, <1>5, <1>8
<1>10. ASSUME NEW i \in Span(v), NEW j \in 1 .. m, NEW r \in DOMAIN after,
              Writer(w, m, j, i), r <= i
       PROVE  after[r] <= w[j].file
  <2>1. PICK u \in DOMAIN all : u <= r /\ after[r] = all[u]
    BY <1>7
  <2>2. CASE j = m
    BY <1>1, <1>9, <2>1, <2>2
  <2>3. CASE j # m
    <3>1. j \in 1 .. n /\ m \in j + 1 .. m /\ \A k \in j + 1 .. n : k \in j + 1 .. m
      BY <2>3 DEF m
    <3>2. i < v.entries_from
      BY <1>1, <1>10, <3>1 DEF Writer
    <3>3. i \in Span(s) /\ i \in Nat
      BY <1>3, <3>2, KeptEntries DEF Span
    <3>4. Writer(w, n, j, i)
      BY <1>10, <3>1 DEF Writer
    <3>5. u \in Nat /\ r \in Nat /\ u <= i /\ u # v.entries_from
      <4>1. u \in Nat /\ r \in Nat
        BY <1>3, <1>5, <1>7, <1>8
      <4> QED
        BY <1>3, <1>10, <2>1, <3>2, <3>3, <4>1
    <3>6. u \in DOMAIN runs /\ all[u] = runs[u]
      BY <1>8, <3>5
    <3> QED
      BY <1>5, <2>1, <3>1, <3>3, <3>4, <3>5, <3>6
  <2> QED
    BY <2>2, <2>3
<1>11. \A r \in DOMAIN after : after[r] \in Nat /\ after[r] <= LastFile(w)
  BY <1>1, <1>7, <1>9
<1>12. RunsOK(w, m, after)
  BY <1>2, <1>6, <1>7, <1>10, <1>11 DEF RunsOK
<1> QED
  BY <1>12 DEF m, after

\* The oldest file that a trim keeps holds no entry's record later than it, nor
\* the last record: the trim deletes nothing that a replay needs.
LEMMA OldestOK ==
  ASSUME NEW w, WalOK(w), Len(w) # 0, NEW runs, RunsOK(w, Len(w), runs),
         NEW B, Covered(w, Len(w), B)
  PROVE  /\ Covered(w, Len(w), B \union {Oldest(runs, LastFile(w))})
         /\ Oldest(runs, LastFile(w)) \in Nat /\ Oldest(runs, LastFile(w)) <= LastFile(w)
<1> DEFINE n == Len(w)
           f == LastFile(w)
           o == Oldest(runs, f)
<1>1. n \in Nat /\ n \in 1 .. n /\ f = w[n].file /\ f \in Nat
  BY SeqFacts DEF WalOK, LastFile
<1>2. /\ \A i \in Span(StateAt(w, n)) : \E r \in DOMAIN runs : r <= i
      /\ DOMAIN runs \subseteq Nat
      /\ \A r \in DOMAIN runs : runs[r] \in Nat /\ runs[r] <= f
      /\ \A i \in Span(StateAt(w, n)) : \A j \in 1 .. n : \A r \in DOMAIN runs :
           Writer(w, n, j, i) /\ r <= i => runs[r] <= w[j].file
  BY DEF RunsOK
<1> HIDE DEF f, n
<1>3. DOMAIN runs # {} => /\ Min(DOMAIN runs) \in DOMAIN runs
                          /\ \A r \in DOMAIN runs : Min(DOMAIN runs) <= r
  <2>1. DOMAIN runs \in SUBSET Nat
    BY <1>2
  <2> QED
    BY <2>1, MinIsLeast
<1>4. o \in Nat /\ o <= f /\ (DOMAIN runs # {} => o <= runs[Min(DOMAIN runs)])
  <2>1. CASE DOMAIN runs = {}
    BY <1>1, <2>1 DEF Oldest
  <2>2. CASE DOMAIN runs # {}
    <3> DEFINE x == runs[Min(DOMAIN runs)]
    <3>1. x \in Nat /\ x <= f
      BY <1>2, <1>3, <2>2
    <3>2. o = IF x < f THEN x ELSE f
      BY <2>2 DEF Oldest
    <3> HIDE DEF x, o
    <3>3. o \in Nat /\ o <= f /\ o <= x
      BY <1>1, <3>1, <3>2
    <3> QED
      BY <3>3 DEF x
  <2> QED
    BY <2>1, <2>2
<1> HIDE DEF o
<1>5. ASSUME NEW i \in Span(StateAt(w, n))
      PROVE  \E j \in 1 .. n : /\ Writer(w, n, j, i)
                               /\ w[j].write.counters = StateAt(w, n).log[i]
                               /\ \A b \in B \union {o} : b <= w[j].file
  <2>1. PICK j \in 1 .. n : /\ Writer(w, n, j, i) /\ w[j].write.counters = StateAt(w, n).log[i]
                            /\ \A b \in B : b <= w[j].file
    BY DEF Covered, n
  <2>2. PICK r \in DOMAIN runs : r <= i
    BY <1>2
  <2> DEFINE x == Min(DOMAIN runs)
  <2>3. x \in DOMAIN runs /\ x <= r
    BY <1>3, <2>2
  <2>4. i \in Int
    BY DEF Span
  <2>5. x <= i
    BY <1>2, <2>2, <2>3, <2>4
  <2>6. runs[x] <= w[j].file
    BY <1>2, <2>1, <2>3, <2>5
  <2>7. runs[x] \in Nat /\ w[j].file \in Nat /\ o <= runs[x]
    BY <1>2, <1>4, <2>3 DEF WalOK, n
  <2> HIDE DEF x
  <2>8. o <= w[j].file
    BY <1>4, <2>6, <2>7
  <2> QED
    BY <2>1, <2>8
<1>6. n # 0 => Left_by(w[n].left, w[n].write) /\ \A b \in B \union {o} : b <= w[n].file
  BY <1>1, <1>4 DEF Covered, n
<1>7. Covered(w, n, B \union {o})
  BY <1>5, <1>6 DEF Covered
<1> QED
  BY <1>4, <1>7, Zenon DEF n, o, f

-----------------------------------------------------------------------------
(* The queue of the writer thread *)

\* A sequence with one more at its end.
LEMMA ConcatFacts ==
  ASSUME NEW q, IsSeq(q), NEW x
  PROVE  /\ IsSeq(q \o <<x>>) /\ Len(q \o <<x>>) = Len(q) + 1 /\ q \o <<x>> # <<>>
         /\ (q \o <<x>>)[Len(q) + 1] = x
         /\ \A i \in 1 .. Len(q) : (q \o <<x>>)[i] = q[i]
<1>1. PICK S : q \in Seq(S)
  BY DEF IsSeq
<1>2. q \in Seq(S \union {x}) /\ <<x>> \in Seq(S \union {x})
  BY <1>1
<1>3. q \o <<x>> \in Seq(S \union {x}) /\ Len(q \o <<x>>) = Len(q) + 1 /\ Len(q) \in Nat
  BY <1>2
<1>4. (q \o <<x>>)[Len(q) + 1] = x /\ \A i \in 1 .. Len(q) : (q \o <<x>>)[i] = q[i]
  BY <1>2, <1>3
<1> QED
  BY <1>3, <1>4 DEF IsSeq

\* A sequence without its first.
LEMMA TailFacts ==
  ASSUME NEW q, IsSeq(q), q # <<>>
  PROVE  /\ IsSeq(Tail(q)) /\ Len(q) \in Nat \ {0} /\ Len(Tail(q)) = Len(q) - 1
         /\ \A i \in 1 .. Len(q) - 1 : Tail(q)[i] = q[i + 1]
<1>1. PICK S : q \in Seq(S)
  BY DEF IsSeq
<1>2. Tail(q) \in Seq(S)
  BY <1>1
<1> QED
  BY <1>1, <1>2 DEF IsSeq

\* A trim that is sent is one more bound.
LEMMA BoundsTrim ==
  ASSUME NEW q, IsSeq(q), NEW o, NEW t
  PROVE  Bounds(q \o <<ToTrim(o)>>, t) = Bounds(q, t) \union {o}
<1> DEFINE p == q \o <<ToTrim(o)>>
<1>1. /\ Len(p) = Len(q) + 1 /\ p[Len(q) + 1] = ToTrim(o)
      /\ \A i \in 1 .. Len(q) : p[i] = q[i]
  BY ConcatFacts
<1>2. Len(q) \in Nat
  BY SeqFacts
<1>3. \A i \in 1 .. Len(q) + 1 : i \in 1 .. Len(q) \/ i = Len(q) + 1
  BY <1>2
<1>4. \A i \in 1 .. Len(q) : i \in 1 .. Len(q) + 1
  BY <1>2
<1>5. Len(q) + 1 \in 1 .. Len(q) + 1
  BY <1>2
<1>6. ToTrim(o).type = "trim" /\ ToTrim(o).before = o
  BY DEF ToTrim
<1> HIDE DEF p
<1>7. ASSUME NEW b PROVE b \in Bounds(p, t) => b \in Bounds(q, t) \union {o}
  BY <1>1, <1>3, <1>6 DEF Bounds
<1>8. ASSUME NEW b PROVE b \in Bounds(q, t) => b \in Bounds(p, t)
  BY <1>1, <1>4 DEF Bounds
<1>9. o \in Bounds(p, t)
  BY <1>1, <1>5, <1>6 DEF Bounds
<1>10. Bounds(p, t) = Bounds(q, t) \union {o}
  BY <1>7, <1>8, <1>9
<1> QED
  BY <1>10 DEF p

\* A write that is sent is none.
LEMMA BoundsWrite ==
  ASSUME NEW q, IsSeq(q), NEW w, NEW t
  PROVE  Bounds(q \o <<ToWrite(w)>>, t) = Bounds(q, t)
<1> DEFINE p == q \o <<ToWrite(w)>>
<1>1. /\ Len(p) = Len(q) + 1 /\ p[Len(q) + 1] = ToWrite(w)
      /\ \A i \in 1 .. Len(q) : p[i] = q[i]
  BY ConcatFacts
<1>2. Len(q) \in Nat
  BY SeqFacts
<1>3. \A i \in 1 .. Len(q) + 1 : i \in 1 .. Len(q) \/ i = Len(q) + 1
  BY <1>2
<1>4. \A i \in 1 .. Len(q) : i \in 1 .. Len(q) + 1
  BY <1>2
<1>5. ToWrite(w).type # "trim"
  BY DEF ToWrite
<1> HIDE DEF p
<1>6. ASSUME NEW b PROVE b \in Bounds(p, t) => b \in Bounds(q, t)
  BY <1>1, <1>3, <1>5 DEF Bounds
<1>7. ASSUME NEW b PROVE b \in Bounds(q, t) => b \in Bounds(p, t)
  BY <1>1, <1>4 DEF Bounds
<1>8. Bounds(p, t) = Bounds(q, t)
  BY <1>6, <1>7
<1> QED
  BY <1>8 DEF p

\* The bounds that remain when the writer is done with the first in its queue.
LEMMA BoundsTail ==
  ASSUME NEW q, IsSeq(q), q # <<>>, NEW t, NEW u, u = t \/ (q[1].type = "trim" /\ u = q[1].before)
  PROVE  Bounds(Tail(q), u) \subseteq Bounds(q, t)
<1>1. /\ Len(q) \in Nat \ {0} /\ Len(Tail(q)) = Len(q) - 1
      /\ \A i \in 1 .. Len(q) - 1 : Tail(q)[i] = q[i + 1]
  BY TailFacts
<1>2. \A i \in 1 .. Len(q) - 1 : i + 1 \in 1 .. Len(q)
  BY <1>1
<1>3. 1 \in 1 .. Len(q)
  BY <1>1
<1>4. u \in Bounds(q, t)
  BY <1>3 DEF Bounds
<1>5. ASSUME NEW i \in 1 .. Len(Tail(q)), Tail(q)[i].type = "trim"
      PROVE  Tail(q)[i].before \in Bounds(q, t)
  BY <1>1, <1>2, <1>5 DEF Bounds
<1> QED
  BY <1>4, <1>5 DEF Bounds

\* The trims done before a write that is ready at once.
LEMMA BoundsMax ==
  ASSUME NEW q, NEW x, QueueOK(q, FALSE, x), NEW t, NEW m \in Nat,
         \A b \in Bounds(q, t) : b \in Nat /\ b <= m
  PROVE  Max({t} \union {q[i].before : i \in DOMAIN q}) \in Bounds(q, t)
<1> DEFINE S == {t} \union {q[i].before : i \in DOMAIN q}
<1>1. DOMAIN q = 1 .. Len(q) /\ \A i \in 1 .. Len(q) : q[i].type = "trim"
  BY SeqFacts DEF QueueOK
<1>2. S = Bounds(q, t)
  BY <1>1 DEF Bounds
<1>3. S # {}
  OBVIOUS
<1> HIDE DEF S
<1>4. S \in SUBSET (0 .. m)
  BY <1>2
<1>5. Max(S) \in S
  BY <1>3, <1>4, MaxIsGreatest
<1> QED
  BY <1>2, <1>5 DEF S

-----------------------------------------------------------------------------
(* The steps *)

\* The runs depend on the first records, and on the last file.
LEMMA RunsSame ==
  ASSUME NEW w, NEW v, NEW n \in Nat, \A k \in 1 .. n : v[k] = w[k], NEW runs, RunsOK(w, n, runs),
         LastFile(w) \in Nat, LastFile(v) \in Nat, LastFile(w) <= LastFile(v)
  PROVE  RunsOK(v, n, runs)
<1>1. StateAt(v, n) = StateAt(w, n)
  BY DEF StateAt
<1>2. \A r \in DOMAIN runs : runs[r] \in Nat /\ runs[r] <= LastFile(v)
  BY DEF RunsOK
<1>3. ASSUME NEW i \in Span(StateAt(v, n)), NEW j \in 1 .. n, NEW r \in DOMAIN runs,
             Writer(v, n, j, i), r <= i
      PROVE  runs[r] <= v[j].file
  <2>1. v[j] = w[j] /\ \A k \in j + 1 .. n : v[k] = w[k]
    OBVIOUS
  <2>2. Writer(w, n, j, i)
    BY <1>3, <2>1 DEF Writer
  <2> QED
    BY <1>1, <1>3, <2>1, <2>2 DEF RunsOK
<1> QED
  BY <1>1, <1>2, <1>3 DEF RunsOK

\* What one more record does to a journal.
LEMMA OneMoreRecord ==
  ASSUME NEW w, WalOK(w), NEW s, s = StateAt(w, Len(w)), NEW B, Covered(w, Len(w), B),
         NEW v, Takeable(s, v), NEW file \in Nat, LastFile(w) <= file,
         \A b \in B : b \in Nat /\ b <= LastFile(w), NEW runs, RunsOK(w, Len(w), runs),
         NEW x, IsSeq(x), Len(x) = Len(w) + 1,
         x[Len(w) + 1] = RecordOf(s, v, file), \A i \in 1 .. Len(w) : x[i] = w[i]
  PROVE  /\ WalOK(x) /\ LastFile(x) = file
         /\ StateAt(x, Len(w)) = s /\ StateAt(x, Len(w) + 1) = After(s, v)
         /\ Covered(x, Len(w) + 1, B) /\ RunsOK(x, Len(w), runs)
<1> DEFINE n == Len(w)
           r == RecordOf(s, v, file)
<1>1. IsSeq(w) /\ n \in Nat
  BY SeqFacts DEF WalOK
<1>2. IsSeq(x) /\ Len(x) = n + 1 /\ x[n + 1] = r /\ \A i \in 1 .. n : x[i] = w[i]
  OBVIOUS
<1>3. LastFile(w) \in Nat /\ \A i \in 1 .. n : w[i].file <= LastFile(w) /\ w[i].file \in Nat
  <2>1. CASE n = 0
    BY <2>1 DEF LastFile
  <2>2. CASE n # 0
    <3>1. n \in 1 .. n /\ \A i \in 1 .. n : i <= n
      BY <1>1, <2>2
    <3> QED
      BY <2>2, <3>1 DEF LastFile, WalOK
  <2> QED
    BY <2>1, <2>2
<1>4. r.file = file /\ r.write = v /\ v \in Writes
  BY DEF RecordOf, Takeable
<1>5. LastFile(x) = file
  BY <1>1, <1>2, <1>4 DEF LastFile
<1>6. \A i \in 1 .. n + 1 : i \in 1 .. n \/ i = n + 1
  BY <1>1
<1> HIDE DEF n, r
<1>7. WalOK(x)
  <2>1. \A i \in 1 .. n + 1 : x[i].file \in Nat /\ x[i].write \in Writes
    BY <1>2, <1>3, <1>4, <1>6 DEF WalOK, n
  <2>2. ASSUME NEW i \in 1 .. n + 1, NEW j \in 1 .. n + 1, i <= j PROVE x[i].file <= x[j].file
    <3>1. CASE j \in 1 .. n
      <4>1. i \in 1 .. n
        BY <1>1, <2>2, <3>1
      <4> QED
        BY <1>2, <2>2, <3>1, <4>1 DEF WalOK, n
    <3>2. CASE j = n + 1
      <4>1. x[j].file = file
        BY <1>2, <1>4, <3>2
      <4>2. x[i].file <= file
        <5>1. CASE i \in 1 .. n
          BY <1>2, <1>3, <5>1
        <5>2. CASE i = n + 1
          BY <1>2, <1>4, <5>2
        <5> QED
          BY <1>6, <5>1, <5>2
      <4> QED
        BY <4>1, <4>2
    <3> QED
      BY <1>6, <3>1, <3>2
  <2> QED
    BY <1>2, <2>1, <2>2 DEF WalOK
<1>8. Covered(x, n, B) /\ StateAt(x, n) = s
  <2>1. Covered(w, n, B) /\ s = StateAt(w, n)
    BY DEF n
  <2>2. Covered(x, n, B) /\ StateAt(x, n) = StateAt(w, n)
    BY <1>1, <1>2, <2>1, CoveredSame
  <2> QED
    BY <2>1, <2>2
<1>9. \A b \in B : b <= file
  BY <1>3
<1>10. Covered(x, n + 1, B) /\ StateAt(x, n + 1) = After(s, v)
  <2>1. x[n + 1] = RecordOf(s, v, file) /\ s = StateAt(x, n)
    BY <1>2, <1>8 DEF r
  <2> QED
    BY <1>1, <1>8, <1>9, <2>1, CoveredNext
<1>11. RunsOK(x, n, runs)
  BY <1>1, <1>2, <1>3, <1>5, RunsSame DEF n
<1> QED
  BY <1>5, <1>7, <1>8, <1>10, <1>11 DEF n

\* Records go to the last file or a later one.
LEMMA NextFilesFacts ==
  ASSUME WalOK(wal), NEW file \in NextFiles
  PROVE  file \in Nat /\ LastFile(wal) \in Nat /\ LastFile(wal) <= file
<1>1. IsSeq(wal) /\ Len(wal) \in Nat
  BY SeqFacts DEF WalOK
<1>2. CASE wal = <<>>
  <2>1. Len(wal) = 0
    BY <1>2
  <2> QED
    BY <1>2, <2>1 DEF NextFiles, LastFile, Lower
<1>3. CASE wal # <<>>
  <2>1. Len(wal) # 0
    BY <1>1, <1>3 DEF IsSeq
  <2>2. Len(wal) \in 1 .. Len(wal)
    BY <1>1, <2>1
  <2>3. wal[Len(wal)].file \in Nat
    BY <2>2 DEF WalOK
  <2> QED
    BY <1>3, <2>1, <2>3, NodeWritesAssumption DEF NextFiles, LastFile, Lower
<1> QED
  BY <1>2, <1>3

\* The journal, and what a node with no write out knows of it: s its state, q
\* what the writer is still to do, h the last write handed back.
Idle(q, s, runs, h) ==
  /\ WalOK(wal) /\ synced \in 0 .. Len(wal) /\ trimmed \in Nat
  /\ s = StateAt(wal, Len(wal)) /\ RunsOK(wal, Len(wal), runs)
  /\ QueueOK(q, FALSE, NoWrite) /\ h \in Nat
  /\ \A n \in synced .. Len(wal) :
       Covered(wal, n, Bounds(q, trimmed)) /\ StateAt(wal, n).counters >= h
  /\ \A b \in Bounds(q, trimmed) : b \in Nat /\ b <= LastFile(wal)

\* A node with no write out stays so.
LEMMA IdleStays ==
  ASSUME NEW q, Idle(q, state', journal'.runs, handed'), UNCHANGED files,
         writing' = NoWrite, landing' = NotLanded, queue' = q, written' = FALSE,
         answered' \in BOOLEAN, phase' \in {"up", "stopped"}
  PROVE  IInv'
<1>1. /\ writing'.out = FALSE /\ InWal' = FALSE /\ Base' = Len(wal)
      /\ wal' = wal /\ synced' = synced /\ trimmed' = trimmed
  BY DEF NoWrite, NotLanded, InWal, Base, files
<1>2. TypeOK'
  BY <1>1 DEF TypeOK, Idle
<1>3. WalInv'
  BY <1>1 DEF WalInv, Idle
<1>4. handed' <= state'.counters
  <2>1. Len(wal) \in synced .. Len(wal)
    BY SeqFacts DEF Idle, WalOK
  <2>2. StateAt(wal, Len(wal)).counters >= handed' /\ state' = StateAt(wal, Len(wal))
    BY <2>1 DEF Idle
  <2>3. StateAt(wal, Len(wal)).counters \in Nat /\ handed' \in Nat
    <3>1. Len(wal) \in 0 .. Len(wal)
      BY SeqFacts DEF Idle, WalOK
    <3> QED
      BY <2>1, <3>1, StateNumbers DEF Idle
  <2> QED
    BY <2>2, <2>3
<1>5. ProcessInv'
  BY <1>1, <1>4 DEF ProcessInv, Idle
<1> QED
  BY <1>2, <1>3, <1>5 DEF IInv

\* A write goes to the writer.
LEMMA SubmitKeeps ==
  ASSUME NEW q, Idle(q, state', journal'.runs, handed'), UNCHANGED files,
         NEW w, Takeable(state', w), writing' = Out(w), landing' = NotLanded,
         queue' = q \o <<ToWrite(w)>>, written' = FALSE,
         answered' \in BOOLEAN, phase' \in {"opening", "up"}
  PROVE  IInv'
<1>1. /\ writing'.out = TRUE /\ writing'.write = w /\ InWal' = FALSE /\ Base' = Len(wal)
      /\ wal' = wal /\ synced' = synced /\ trimmed' = trimmed /\ landing'.ready = FALSE
  BY DEF Out, NotLanded, InWal, Base, files
<1>2. TypeOK'
  <2>1. w \in Writes
    BY DEF Takeable
  <2> QED
    BY <1>1, <2>1 DEF TypeOK, Idle
<1>3. IsSeq(q) /\ Bounds(queue', trimmed') = Bounds(q, trimmed)
  <2>1. IsSeq(q)
    BY DEF Idle, QueueOK
  <2>2. Bounds(q \o <<ToWrite(w)>>, trimmed) = Bounds(q, trimmed)
    BY <2>1, BoundsWrite
  <2> QED
    BY <1>1, <2>1, <2>2
<1>4. WalInv'
  BY <1>1, <1>3 DEF WalInv, Idle
<1>5. handed' <= state'.counters
  <2>1. Len(wal) \in synced .. Len(wal)
    BY SeqFacts DEF Idle, WalOK
  <2>2. StateAt(wal, Len(wal)).counters >= handed' /\ state' = StateAt(wal, Len(wal))
    BY <2>1 DEF Idle
  <2> QED
    BY <2>2 DEF Takeable, Idle
<1>6. QueueOK(queue', TRUE, w)
  <2> DEFINE p == q \o <<ToWrite(w)>>
  <2>1. /\ IsSeq(p) /\ Len(p) = Len(q) + 1 /\ p # <<>>
        /\ p[Len(q) + 1] = ToWrite(w) /\ \A i \in 1 .. Len(q) : p[i] = q[i]
    BY <1>3, ConcatFacts
  <2>2. \A i \in 1 .. Len(q) + 1 : i \in 1 .. Len(q) \/ i = Len(q) + 1
    BY <1>3, SeqFacts
  <2>3. \A i \in 1 .. Len(q) : q[i].type = "trim" /\ q[i].before \in Nat
    BY DEF Idle, QueueOK
  <2> HIDE DEF p
  <2>4. QueueOK(p, TRUE, w)
    BY <2>1, <2>2, <2>3 DEF QueueOK
  <2> QED
    BY <2>4 DEF p
<1>7. ProcessInv'
  BY <1>1, <1>5, <1>6 DEF ProcessInv, Idle
<1> QED
  BY <1>2, <1>4, <1>7 DEF IInv

\* A write that is ready at once.
LEMMA ReadyKeeps ==
  ASSUME NEW q, Idle(q, state', journal'.runs, handed'),
         NEW w, Takeable(state', w), writing' = Out(w), ReadyAtOnce(w, q), written = FALSE,
         answered' \in BOOLEAN, phase' = "up"
  PROVE  IInv'
<1>1. PICK file \in NextFiles :
        /\ landing' = LandedIn(file)
        /\ wal' = Append(wal, RecordOf(state', w, file)) /\ synced' = Len(wal) + 1
        /\ trimmed' = Max({trimmed} \union {q[i].before : i \in DOMAIN q})
        /\ queue' = <<>> /\ UNCHANGED written
  BY DEF ReadyAtOnce
<1> DEFINE B == Bounds(q, trimmed)
           n == Len(wal)
<1>2. WalOK(wal) /\ IsSeq(wal) /\ n \in Nat /\ n \in synced .. n
  BY SeqFacts DEF Idle, WalOK
<1>3. file \in Nat /\ LastFile(wal) \in Nat /\ LastFile(wal) <= file
  BY <1>2, NextFilesFacts
<1>4. trimmed' \in B /\ trimmed' \in Nat
  <2>1. Max({trimmed} \union {q[i].before : i \in DOMAIN q}) \in Bounds(q, trimmed)
    BY <1>3, BoundsMax DEF Idle
  <2>2. trimmed' \in B
    BY <1>1, <2>1
  <2> QED
    BY <2>2 DEF Idle
<1>5. Bounds(queue', trimmed') = {trimmed'}
  <2>1. Len(queue') = 0
    BY <1>1
  <2> QED
    BY <2>1 DEF Bounds
<1>6. /\ IsSeq(wal') /\ Len(wal') = n + 1 /\ wal'[n + 1] = RecordOf(state', w, file)
      /\ \A i \in 1 .. n : wal'[i] = wal[i]
  <2> DEFINE r == RecordOf(state', w, file)
  <2>1. wal' = Append(wal, r)
    BY <1>1
  <2> HIDE DEF r
  <2>2. IsSeq(wal') /\ Len(wal') = n + 1 /\ wal'[n + 1] = r /\ \A i \in 1 .. n : wal'[i] = wal[i]
    BY <1>2, <2>1, AppendFacts
  <2> QED
    BY <2>2 DEF r
<1>7. /\ state' = StateAt(wal, n) /\ Covered(wal, n, B) /\ RunsOK(wal, n, journal'.runs)
      /\ StateAt(wal, n).counters >= handed'
      /\ \A b \in B : b \in Nat /\ b <= LastFile(wal)
  BY <1>2 DEF Idle
<1>8. /\ WalOK(wal') /\ LastFile(wal') = file /\ StateAt(wal', n) = state'
      /\ StateAt(wal', n + 1) = After(state', w)
      /\ Covered(wal', n + 1, B) /\ RunsOK(wal', n, journal'.runs)
  <2> HIDE DEF B
  <2> QED
    BY <1>2, <1>3, <1>6, <1>7, OneMoreRecord
<1>9. /\ w \in Writes /\ w.counters = state'.counters + 1 /\ state'.counters \in Nat
      /\ handed' \in Nat /\ state'.counters >= handed'
  BY <1>7 DEF Takeable, Idle
<1>10. Covered(wal', n + 1, {trimmed'})
  <2> HIDE DEF B
  <2> QED
    BY <1>2, <1>4, <1>8, CoveredFewer
<1>11. trimmed' <= LastFile(wal')
  BY <1>3, <1>4, <1>7, <1>8
<1>12. /\ writing'.out = TRUE /\ writing'.write = w /\ landing'.ready = TRUE
       /\ landing'.file = file /\ written' = FALSE
  BY <1>1 DEF Out, LandedIn
<1>13. InWal' = TRUE /\ Base' = n
  <2>1. InWal'
    BY <1>12 DEF InWal
  <2> QED
    BY <1>2, <1>6, <2>1 DEF Base, InWal
<1> HIDE DEF n, B
<1>14. TypeOK'
  <2>1. synced' \in 0 .. Len(wal')
    BY <1>1, <1>2, <1>6 DEF n
  <2> QED
    BY <1>1, <1>3, <1>4, <1>8, <1>9, <1>12, <2>1 DEF TypeOK
<1>15. WalInv'
  <2>1. \A m \in synced' .. Len(wal') : m = n + 1
    BY <1>1, <1>2, <1>6 DEF n
  <2>2. StateAt(wal', n + 1).counters >= handed'
    BY <1>8, <1>9 DEF After
  <2> QED
    BY <1>4, <1>5, <1>10, <1>11, <2>1, <2>2 DEF WalInv
<1>16. QueueOK(queue', FALSE, w)
  <2>1. Len(queue') = 0 /\ IsSeq(queue')
    <3>1. <<>> \in Seq({})
      OBVIOUS
    <3> QED
      BY <1>1, <3>1 DEF IsSeq
  <2> QED
    BY <2>1 DEF QueueOK
<1>17. /\ wal' # <<>> /\ wal'[Len(wal')].write = w
       /\ wal'[Len(wal')].left = After(state', w) /\ synced' = Len(wal')
  <2>1. wal'[Len(wal')] = RecordOf(state', w, file) /\ Len(wal') # 0
    BY <1>2, <1>6
  <2> QED
    BY <1>1, <1>6, <2>1 DEF RecordOf, n
<1>18. ProcessInv'
  BY <1>8, <1>9, <1>12, <1>13, <1>16, <1>17 DEF ProcessInv
<1> QED
  BY <1>14, <1>15, <1>18 DEF IInv

\* A trim of the writer's queue.
IsTrim(x) == x.type = "trim" /\ x.before \in Nat

\* A node that runs, with no write out, is idle.
LEMMA IdleNow ==
  ASSUME IInv, phase # "down", ~writing.out
  PROVE  Idle(queue, state, journal.runs, handed) /\ written = FALSE /\ landing = NotLanded
<1>1. ~InWal /\ QueueOK(queue, FALSE, NoWrite)
  BY DEF IInv, ProcessInv
<1>2. Base = Len(wal) /\ written = FALSE /\ ~landing.ready
  BY <1>1 DEF Base, InWal, IInv, TypeOK
<1>3. landing = NotLanded
  BY <1>2 DEF IInv, TypeOK, LandedIn
<1> QED
  BY <1>1, <1>2, <1>3 DEF Idle, IInv, TypeOK, WalInv, ProcessInv

\* Once its write came back, it is idle, though a trim may go out.
LEMMA IdleAfter ==
  ASSUME IInv, phase # "down", writing.out, landing.ready
  PROVE  /\ Idle(queue \o TrimsSent, After(state, writing.write),
                 RunsAfter(journal.runs, writing.write, landing.file), writing.write.counters)
         /\ written = FALSE
<1> DEFINE w == writing.write
           n == Base
           B == Bounds(queue, trimmed)
           runs == RunsAfter(journal.runs, w, landing.file)
           o == Oldest(runs, landing.file)
<1>1. /\ WalOK(wal) /\ synced \in 0 .. Len(wal) /\ trimmed \in Nat
      /\ written \in BOOLEAN
  BY DEF IInv, TypeOK
<1>2. /\ state = StateAt(wal, n) /\ RunsOK(wal, n, journal.runs) /\ Takeable(state, w)
      /\ QueueOK(queue, FALSE, w) /\ wal # <<>> /\ wal[Len(wal)].write = w
      /\ wal[Len(wal)].left = After(state, w) /\ ~written /\ synced = Len(wal)
      /\ landing.file = LastFile(wal)
  BY DEF IInv, ProcessInv, InWal
<1>3. n = Len(wal) - 1 /\ Len(wal) \in Nat /\ Len(wal) # 0
  <2>1. IsSeq(wal) /\ Len(wal) \in Nat
    BY <1>1, SeqFacts DEF WalOK
  <2> QED
    BY <1>2, <2>1 DEF Base, InWal, IsSeq
<1>4. n \in Nat /\ Len(wal) = n + 1 /\ wal[Len(wal)].file = landing.file
  BY <1>2, <1>3 DEF LastFile
<1> HIDE DEF n, w, B
<1>5. RunsOK(wal, Len(wal), runs)
  <2>1. RunsOK(wal, n + 1, runs)
    BY <1>1, <1>2, <1>4, RunsAfterOK
  <2> QED
    BY <1>4, <2>1
<1>6. StateAt(wal, Len(wal)) = After(state, w) /\ After(state, w).counters = w.counters
  BY <1>2, <1>3 DEF StateAt, After
<1>7. Covered(wal, Len(wal), B) /\ \A b \in B : b \in Nat /\ b <= LastFile(wal)
  BY <1>2, <1>3 DEF IInv, WalInv, B
<1>8. /\ Covered(wal, Len(wal), B \union {o}) /\ o \in Nat /\ o <= LastFile(wal)
  <2> HIDE DEF runs
  <2> QED
    BY <1>1, <1>2, <1>3, <1>5, <1>7, OldestOK
<1>9. IsSeq(queue) /\ \A i \in 1 .. Len(queue) : IsTrim(queue[i])
  BY <1>2 DEF QueueOK, IsTrim
<1>10. w.counters \in Nat
  BY <1>2 DEF Takeable, Writes
<1> HIDE DEF o, runs
<1>11. ASSUME NEW q, NEW C, Bounds(q, trimmed) = C, QueueOK(q, FALSE, NoWrite),
              Covered(wal, Len(wal), C), \A b \in C : b \in Nat /\ b <= LastFile(wal)
       PROVE  Idle(q, After(state, w), runs, w.counters)
  <2>1. \A m \in synced .. Len(wal) : m = Len(wal)
    BY <1>2, <1>3
  <2>2. StateAt(wal, Len(wal)).counters >= w.counters
    BY <1>6, <1>10
  <2> QED
    BY <1>1, <1>5, <1>6, <1>10, <1>11, <2>1, <2>2 DEF Idle
<1>12. CASE TrimsSent = <<>>
  <2>1. queue \o TrimsSent = queue
    BY <1>9, <1>12 DEF IsSeq
  <2>2. QueueOK(queue, FALSE, NoWrite)
    BY <1>2 DEF QueueOK
  <2>3. Idle(queue, After(state, w), runs, w.counters)
    BY <1>7, <1>11, <2>2 DEF B
  <2> QED
    BY <1>1, <1>2, <2>1, <2>3 DEF w, runs
<1>13. CASE TrimsSent = <<ToTrim(o)>>
  <2> DEFINE p == queue \o <<ToTrim(o)>>
  <2>1. Bounds(p, trimmed) = B \union {o}
    BY <1>9, BoundsTrim DEF B
  <2>2. QueueOK(p, FALSE, NoWrite)
    <3>1. /\ IsSeq(p) /\ Len(p) = Len(queue) + 1 /\ p[Len(queue) + 1] = ToTrim(o)
          /\ \A i \in 1 .. Len(queue) : p[i] = queue[i]
      BY <1>9, ConcatFacts
    <3>2. \A i \in 1 .. Len(queue) + 1 : i \in 1 .. Len(queue) \/ i = Len(queue) + 1
      BY <1>9, SeqFacts
    <3>3. ToTrim(o).type = "trim" /\ ToTrim(o).before \in Nat
      BY <1>8 DEF ToTrim
    <3> HIDE DEF p
    <3> QED
      BY <1>9, <3>1, <3>2, <3>3 DEF QueueOK, IsTrim
  <2> HIDE DEF p
  <2>3. \A b \in B \union {o} : b \in Nat /\ b <= LastFile(wal)
    BY <1>7, <1>8
  <2>4. Idle(p, After(state, w), runs, w.counters)
    BY <1>8, <1>11, <2>1, <2>2, <2>3
  <2> QED
    BY <1>1, <1>2, <1>13, <2>4 DEF w, runs, p
<1>14. TrimsSent = <<>> \/ TrimsSent = <<ToTrim(o)>>
  BY DEF TrimsSent, o, runs, w
<1> QED
  BY <1>12, <1>13, <1>14

\* The writes that a replica may take.
LEMMA WritesTakeable ==
  ASSUME NEW s, s.log_start \in Nat, s.op_number \in Nat, s.counters \in Nat,
         NEW w \in WritesOf(s, MaxOp), Fits(s, w)
  PROVE  Takeable(s, w)
<1>1. PICK start \in s.log_start .. MaxOp, from \in 1 .. MaxOp + 1, op \in 0 .. MaxOp :
        w = [log_start |-> start, entries_from |-> from, op_number |-> op,
             counters |-> s.counters + 1]
  BY DEF WritesOf
<1>2. start \in Nat /\ start >= s.log_start /\ from \in Nat /\ op \in Nat /\ s.counters + 1 \in Nat
  BY NodeWritesAssumption
<1>3. w \in Writes
  BY <1>1, <1>2 DEF Writes
<1> QED
  BY <1>1, <1>2, <1>3 DEF Takeable

\* The first write that a replica takes.
LEMMA FirstTakeable ==
  ASSUME NEW s, s.log_start \in Nat, s.op_number \in Nat, s.counters \in Nat,
         NEW w \in FirstWritesOf(s, MaxOp)
  PROVE  Takeable(s, w)
<1>1. PICK start \in s.log_start .. MaxOp :
        w = [log_start |-> start, entries_from |-> Later(s.op_number, start) + 1,
             op_number |-> Later(s.op_number, start), counters |-> s.counters + 1]
  BY DEF FirstWritesOf
<1>2. start \in Nat /\ start >= s.log_start
  BY NodeWritesAssumption
<1> DEFINE l == Later(s.op_number, start)
<1>3. l \in Nat /\ start <= l /\ s.counters + 1 \in Nat
  BY <1>2 DEF Later
<1> HIDE DEF l
<1>4. /\ w.log_start = start /\ w.entries_from = l + 1 /\ w.op_number = l
      /\ w.counters = s.counters + 1
  BY <1>1 DEF l
<1>5. w \in Writes
  <2>1. w = [log_start |-> start, entries_from |-> l + 1, op_number |-> l,
             counters |-> s.counters + 1]
    BY <1>1 DEF l
  <2> QED
    BY <1>2, <1>3, <2>1 DEF Writes
<1>6. Fits(s, w)
  <2>1. Later(s.op_number, w.log_start) = l
    BY <1>4 DEF l
  <2> QED
    BY <1>2, <1>3, <1>4, <2>1 DEF Fits
<1> QED
  BY <1>2, <1>4, <1>5, <1>6 DEF Takeable

\* What an idle node's state is.
LEMMA IdleNumbers ==
  ASSUME NEW q, NEW s, NEW runs, NEW h, Idle(q, s, runs, h)
  PROVE  s.log_start \in Nat /\ s.op_number \in Nat /\ s.counters \in Nat
<1>1. WalOK(wal) /\ Len(wal) \in 0 .. Len(wal) /\ Len(wal) \in synced .. Len(wal)
  BY SeqFacts DEF Idle, WalOK
<1>2. Covered(wal, Len(wal), Bounds(q, trimmed)) /\ s = StateAt(wal, Len(wal))
  BY <1>1 DEF Idle
<1> QED
  BY <1>1, <1>2, StateNumbers

\* An idle node takes a write, or none.
LEMMA TakesKeeps ==
  ASSUME NEW q, Idle(q, state', journal'.runs, handed'), written = FALSE, NEW k, NEW left,
         Takes(k, q, left), answered' \in BOOLEAN, phase' = "up"
  PROVE  IInv'
<1>1. CASE writing' = NoWrite /\ landing' = NotLanded /\ NoWriteOut(q, left)
  BY <1>1, IdleStays DEF NoWriteOut
<1>2. CASE \E w \in WritesOf(state', MaxOp) :
             /\ Fits(state', w) /\ w.counters <= MaxWrites
             /\ writing' = Out(w) /\ WriteOut(w, q, left)
  <2>1. PICK w \in WritesOf(state', MaxOp) :
          Fits(state', w) /\ writing' = Out(w) /\ WriteOut(w, q, left)
    BY <1>2
  <2>2. Takeable(state', w)
    BY <2>1, IdleNumbers, WritesTakeable
  <2>3. CASE Submitted(left, w, q)
    BY <2>1, <2>2, <2>3, SubmitKeeps DEF Submitted
  <2>4. CASE ReadyAtOnce(w, q)
    BY <2>1, <2>2, <2>4, ReadyKeeps
  <2> QED
    BY <2>1, <2>3, <2>4 DEF WriteOut
<1> QED
  BY <1>1, <1>2 DEF Takes

\* The empty queue, and no bound but what is trimmed.
LEMMA EmptyQueue ==
  ASSUME NEW t
  PROVE  Bounds(<<>>, t) = {t} /\ \A w : QueueOK(<<>>, FALSE, w)
<1>1. Len(<<>>) = 0 /\ IsSeq(<<>>)
  <2>1. <<>> \in Seq({})
    OBVIOUS
  <2> QED
    BY <2>1 DEF IsSeq
<1>2. Bounds(<<>>, t) = {t}
  BY <1>1 DEF Bounds
<1>3. \A w : QueueOK(<<>>, FALSE, w)
  BY <1>1 DEF QueueOK
<1> QED
  BY <1>2, <1>3

\* A node that never started has an empty journal.
LEMMA InitInv ==
  ASSUME Init
  PROVE  IInv
<1>1. WalOK(<<>>) /\ Len(<<>>) = 0 /\ LastFile(<<>>) = 0
  <2>1. <<>> \in Seq({})
    OBVIOUS
  <2> QED
    BY <2>1 DEF WalOK, IsSeq, LastFile
<1>a. WalOK(wal) /\ Len(wal) = 0 /\ LastFile(wal) = 0
  BY <1>1, Zenon DEF Init
<1>b. Bounds(queue, trimmed) = {0}
  <2>1. queue = <<>> /\ trimmed = 0
    BY DEF Init
  <2> QED
    BY <2>1, EmptyQueue, Zenon
<1>2. TypeOK
  <2>1. /\ phase = "down" /\ synced = 0 /\ trimmed = 0 /\ handed = 0 /\ written = FALSE
        /\ answered = FALSE /\ writing = NoWrite /\ landing = NotLanded
    BY DEF Init
  <2>2. synced \in 0 .. Len(wal) /\ trimmed \in Nat /\ handed \in Nat
    BY <1>a, <2>1
  <2> QED
    BY <1>a, <2>1, <2>2, Zenon DEF TypeOK
<1>3. WalInv
  <2>1. synced .. Len(wal) = {0}
    BY <1>a DEF Init
  <2>2. StateAt(wal, 0) = Blank /\ Span(Blank) = {} /\ Blank.counters = 0
    BY DEF StateAt, Span, Blank
  <2>3. Covered(wal, 0, {0})
    BY <2>2 DEF Covered
  <2>4. handed = 0
    BY DEF Init
  <2> QED
    BY <1>a, <1>b, <2>1, <2>2, <2>3, <2>4 DEF WalInv
<1>4. ProcessInv
  BY DEF Init, ProcessInv, InWal, NotLanded, NoWrite
<1> QED
  BY <1>2, <1>3, <1>4 DEF IInv

\* Node::open_with replays the journal and sends the replica's first write.
LEMMA OpenKeeps ==
  ASSUME IInv, Open
  PROVE  IInv'
<1> DEFINE read == Read(wal)
<1>1. PICK w \in FirstWritesOf(StateOf(read), MaxOp) :
        writing' = Out(w) /\ queue' = <<ToWrite(w)>>
  BY DEF Open
<1>2. /\ phase = "down" /\ journal' = Opened(read) /\ landing' = NotLanded
      /\ written' = FALSE /\ answered' = FALSE /\ state' = StateOf(read)
      /\ phase' = "opening" /\ UNCHANGED files /\ handed' = handed
  BY DEF Open, Fresh
<1>3. WalOK(wal) /\ synced \in 0 .. Len(wal) /\ trimmed \in Nat /\ handed \in Nat /\ queue = <<>>
  BY <1>2 DEF IInv, TypeOK, ProcessInv
<1>4. Len(wal) \in synced .. Len(wal)
  BY <1>3, SeqFacts DEF WalOK
<1>5. Covered(wal, Len(wal), Bounds(queue, trimmed))
  BY <1>4 DEF IInv, WalInv
<1> HIDE DEF read
<1>6. StateOf(read) = StateAt(wal, Len(wal)) /\ RunsOK(wal, Len(wal), Opened(read).runs)
  BY <1>3, <1>5, CoveredReads, OpenedRuns DEF read
<1>7. Idle(<<>>, state', journal'.runs, handed')
  <2>1. QueueOK(<<>>, FALSE, NoWrite)
    BY EmptyQueue
  <2> QED
    BY <1>2, <1>3, <1>6, <2>1 DEF Idle, IInv, WalInv
<1>8. Takeable(state', w)
  BY <1>1, <1>2, <1>7, IdleNumbers, FirstTakeable
<1>9. queue' = <<>> \o <<ToWrite(w)>>
  BY <1>1
<1>10. answered' \in BOOLEAN /\ phase' \in {"opening", "up"}
  BY <1>2
<1> QED
  BY <1>1, <1>2, <1>7, <1>8, <1>9, <1>10, SubmitKeeps

\* The first write comes back, and the loop starts.
LEMMA OpensKeeps ==
  ASSUME IInv, Opens
  PROVE  IInv'
<1> DEFINE q == queue \o TrimsSent
<1>1. /\ phase = "opening" /\ landing.ready /\ ComesBack /\ queue' = q /\ phase' = "up"
      /\ writing' = NoWrite /\ landing' = NotLanded /\ UNCHANGED <<written, files>>
  BY DEF Opens
<1>2. writing.out
  BY <1>1 DEF IInv, ProcessInv
<1>3. /\ journal'.runs = RunsAfter(journal.runs, writing.write, landing.file)
      /\ answered' = FALSE /\ state' = After(state, writing.write)
      /\ handed' = writing.write.counters
  BY <1>1 DEF ComesBack, Finished
<1>4. Idle(q, state', journal'.runs, handed') /\ written = FALSE
  BY <1>1, <1>2, <1>3, IdleAfter
<1> HIDE DEF q
<1> QED
  BY <1>1, <1>3, <1>4, IdleStays

\* Node::batch: the write that is out comes back, stays out, or the next goes out.
LEMMA BatchKeeps ==
  ASSUME IInv, NEW k, NEW t, NEW stop, NEW message, Batch(k, t, stop, message)
  PROVE  IInv'
<1> DEFINE q == IF Lands(k) THEN queue \o TrimsSent ELSE queue
           left == events - k
           still == writing.out /\ ~Lands(k)
<1>1. /\ phase = "up" /\ Landed(k)
      /\ phase' = IF stopping' /\ ~still THEN "stopped" ELSE "up"
      /\ IF still \/ stopping'
         THEN /\ writing' = IF still THEN writing ELSE NoWrite
              /\ landing' = IF still THEN landing ELSE NotLanded
              /\ NoWriteOut(q, left)
         ELSE Takes(k, q, left)
  BY DEF Batch
<1>2. CASE still
  <2>1. UNCHANGED <<journal, answered, state, handed>> /\ ~Lands(k)
    BY <1>1, <1>2 DEF Landed
  <2>2. phase' = phase /\ writing' = writing /\ landing' = landing /\ queue' = queue
    BY <1>1, <1>2, <2>1 DEF NoWriteOut
  <2>3. UNCHANGED <<written, wal, synced, trimmed>>
    BY <1>1, <1>2 DEF NoWriteOut, files
  <2>4. TypeOK'
    BY <2>1, <2>2, <2>3 DEF IInv, TypeOK
  <2>5. WalInv'
    BY <2>1, <2>2, <2>3 DEF IInv, WalInv
  <2>6. InWal' = InWal /\ Base' = Base
    BY <2>2, <2>3 DEF InWal, Base
  <2>7. ProcessInv'
    BY <2>1, <2>2, <2>3, <2>6 DEF IInv, ProcessInv
  <2> QED
    BY <2>4, <2>5, <2>7 DEF IInv
<1>3. CASE ~still
  <2>1. Idle(q, state', journal'.runs, handed') /\ written = FALSE /\ answered' \in BOOLEAN
    <3>1. CASE Lands(k)
      <4>1. ComesBack /\ q = queue \o TrimsSent /\ writing.out /\ landing.ready
        BY <1>1, <3>1 DEF Landed, Lands
      <4>2. /\ journal'.runs = RunsAfter(journal.runs, writing.write, landing.file)
            /\ answered' = FALSE /\ state' = After(state, writing.write)
            /\ handed' = writing.write.counters
        BY <4>1 DEF ComesBack, Finished
      <4>3. /\ Idle(queue \o TrimsSent, After(state, writing.write),
                    RunsAfter(journal.runs, writing.write, landing.file), writing.write.counters)
            /\ written = FALSE
        BY <1>1, <4>1, IdleAfter
      <4> QED
        BY <4>1, <4>2, <4>3
    <3>2. CASE ~Lands(k)
      <4>1. UNCHANGED <<journal, answered, state, handed>> /\ q = queue /\ ~writing.out
        BY <1>1, <1>3, <3>2 DEF Landed
      <4>2. Idle(queue, state, journal.runs, handed) /\ written = FALSE
        BY <1>1, <4>1, IdleNow
      <4>3. answered \in BOOLEAN
        BY DEF IInv, TypeOK
      <4> QED
        BY <4>1, <4>2, <4>3
    <3> QED
      BY <3>1, <3>2
  <2> HIDE DEF q
  <2>2. CASE stopping'
    <3>1. /\ writing' = NoWrite /\ landing' = NotLanded /\ NoWriteOut(q, left)
          /\ phase' = "stopped"
      BY <1>1, <1>3, <2>2
    <3>2. queue' = q /\ written' = FALSE /\ UNCHANGED files
      BY <2>1, <3>1 DEF NoWriteOut
    <3> QED
      BY <2>1, <3>1, <3>2, IdleStays
  <2>3. CASE ~stopping'
    <3>1. Takes(k, q, left) /\ phase' = "up"
      BY <1>1, <1>3, <2>3
    <3> HIDE DEF left
    <3> QED
      BY <2>1, <3>1, TakesKeeps
  <2> QED
    BY <2>2, <2>3
<1> QED
  BY <1>2, <1>3

\* The process ends with nothing out.
LEMMA ExitKeeps ==
  ASSUME IInv, Exit
  PROVE  IInv'
<1>1. /\ phase = "stopped" /\ phase' = "down" /\ queue = <<>>
      /\ UNCHANGED <<state, journal, writing, landing, queue, written, answered, wal, synced, trimmed, handed>>
  BY DEF Exit, writer, files
<1>2. ~writing.out /\ ~InWal
  BY <1>1 DEF IInv, ProcessInv
<1>3. TypeOK'
  BY <1>1 DEF IInv, TypeOK
<1>4. WalInv'
  BY <1>1 DEF IInv, WalInv
<1>5. ~InWal'
  BY <1>1, <1>2 DEF InWal
<1>6. ProcessInv'
  BY <1>1, <1>2, <1>5 DEF ProcessInv
<1> QED
  BY <1>3, <1>4, <1>6 DEF IInv

\* The write at the head of the queue is the one that is out, and the last.
LEMMA HeadIsOut ==
  ASSUME IInv, queue # <<>>, queue[1].type = "write"
  PROVE  /\ phase # "down" /\ writing.out /\ landing.ready = FALSE
         /\ queue[1].write = writing.write /\ Len(queue) = 1
<1>1. phase # "down"
  BY DEF IInv, ProcessInv
<1>2. IsSeq(queue)
  BY <1>1 DEF IInv, ProcessInv, QueueOK
<1>3. 1 \in 1 .. Len(queue) /\ Len(queue) \in Nat
  BY <1>2, TailFacts
<1>4. writing.out /\ QueueOK(queue, ~landing.ready, writing.write)
  <2>1. ~QueueOK(queue, FALSE, NoWrite)
    BY <1>3 DEF QueueOK
  <2> QED
    BY <1>1, <2>1 DEF IInv, ProcessInv
<1>5. landing.ready = TRUE \/ landing.ready = FALSE
  <2>1. NotLanded.ready = FALSE /\ \A f : LandedIn(f).ready = TRUE
    BY DEF NotLanded, LandedIn
  <2> QED
    BY <2>1, Zenon DEF IInv, TypeOK
<1>6. CASE landing.ready = TRUE
  <2>1. QueueOK(queue, FALSE, writing.write)
    BY <1>4, <1>6
  <2> QED
    BY <1>3, <2>1 DEF QueueOK
<1>7. CASE landing.ready = FALSE
  <2>1. QueueOK(queue, TRUE, writing.write)
    BY <1>4, <1>7
  <2>2. Len(queue) = 1 /\ queue[1] = ToWrite(writing.write)
    BY <1>3, <2>1 DEF QueueOK
  <2> QED
    BY <1>1, <1>4, <1>7, <2>2 DEF ToWrite
<1> QED
  BY <1>5, <1>6, <1>7

\* The writer thread appends the record of the write that is out.
LEMMA WriterWritesKeeps ==
  ASSUME IInv, WriterWrites
  PROVE  IInv'
<1>1. PICK file \in NextFiles : wal' = Append(wal, RecordOf(state, queue[1].write, file))
  BY DEF WriterWrites
<1>2. /\ queue # <<>> /\ queue[1].type = "write" /\ ~written /\ written' = TRUE
      /\ UNCHANGED <<phase, state, journal, writing, landing, queue, answered, synced, trimmed, handed>>
  BY DEF WriterWrites, process
<1> DEFINE w == writing.write
           n == Len(wal)
           B == Bounds(queue, trimmed)
<1>3. phase # "down" /\ writing.out /\ landing.ready = FALSE /\ queue[1].write = w
  BY <1>2, HeadIsOut
<1>4. InWal = FALSE /\ Base = n
  BY <1>2, <1>3 DEF InWal, Base
<1>5. /\ WalOK(wal) /\ IsSeq(wal) /\ n \in Nat /\ n \in synced .. n /\ synced \in 0 .. n
      /\ handed \in Nat
  BY SeqFacts DEF IInv, TypeOK, WalOK
<1>6. file \in Nat /\ LastFile(wal) \in Nat /\ LastFile(wal) <= file
  BY <1>5, NextFilesFacts
<1>7. /\ state = StateAt(wal, n) /\ RunsOK(wal, n, journal.runs) /\ Takeable(state, w)
      /\ QueueOK(queue, TRUE, w) /\ handed <= state.counters
  BY <1>3, <1>4 DEF IInv, ProcessInv
<1>8. /\ \A m \in synced .. n : Covered(wal, m, B) /\ StateAt(wal, m).counters >= handed
      /\ \A b \in B : b \in Nat /\ b <= LastFile(wal)
  BY DEF IInv, WalInv
<1>9. /\ IsSeq(wal') /\ Len(wal') = n + 1 /\ wal'[n + 1] = RecordOf(state, w, file)
      /\ \A i \in 1 .. n : wal'[i] = wal[i]
  <2> DEFINE r == RecordOf(state, w, file)
  <2>1. wal' = Append(wal, r)
    BY <1>1, <1>3
  <2> HIDE DEF r
  <2>2. IsSeq(wal') /\ Len(wal') = n + 1 /\ wal'[n + 1] = r /\ \A i \in 1 .. n : wal'[i] = wal[i]
    BY <1>5, <2>1, AppendFacts
  <2> QED
    BY <2>2 DEF r
<1>10. /\ WalOK(wal') /\ LastFile(wal') = file /\ StateAt(wal', n) = state
       /\ StateAt(wal', n + 1) = After(state, w)
       /\ Covered(wal', n + 1, B) /\ RunsOK(wal', n, journal.runs)
  <2>1. Covered(wal, n, B)
    BY <1>5, <1>8
  <2> HIDE DEF B
  <2> QED
    BY <1>5, <1>6, <1>7, <1>8, <1>9, <2>1, OneMoreRecord
<1>11. InWal' = TRUE /\ Base' = n
  <2>1. InWal'
    BY <1>2 DEF InWal
  <2> QED
    BY <1>5, <1>9, <2>1 DEF Base, InWal
<1> HIDE DEF n, B, w
<1>12. TypeOK'
  <2>1. synced' \in 0 .. Len(wal')
    BY <1>2, <1>5, <1>9
  <2> QED
    BY <1>2, <1>10, <2>1 DEF IInv, TypeOK
<1>13. WalInv'
  <2>1. ASSUME NEW m \in synced .. n + 1
        PROVE  Covered(wal', m, B) /\ StateAt(wal', m).counters >= handed
    <3>1. CASE m = n + 1
      <4>1. After(state, w).counters = state.counters + 1 /\ state.counters \in Nat
        BY <1>7 DEF After, Takeable
      <4> QED
        BY <1>5, <1>7, <1>10, <3>1, <4>1
    <3>2. CASE m # n + 1
      <4>1. m \in synced .. n /\ m \in Nat /\ \A i \in 1 .. m : i \in 1 .. n
        BY <1>5, <3>2
      <4>2. Covered(wal, m, B) /\ StateAt(wal, m).counters >= handed
        BY <1>8, <4>1
      <4>3. \A i \in 1 .. m : wal'[i] = wal[i]
        BY <1>9, <4>1
      <4> QED
        BY <4>1, <4>2, <4>3, CoveredSame
    <3> QED
      BY <3>1, <3>2
  <2>2. \A b \in B : b \in Nat /\ b <= LastFile(wal')
    BY <1>6, <1>8, <1>10
  <2>3. Bounds(queue', trimmed') = B
    BY <1>2 DEF B
  <2> QED
    BY <1>2, <1>9, <2>1, <2>2, <2>3 DEF WalInv
<1>14. wal' # <<>> /\ wal'[Len(wal')].write = w /\ wal'[Len(wal')].left = After(state, w)
  <2>1. wal'[Len(wal')] = RecordOf(state, w, file) /\ Len(wal') # 0
    BY <1>5, <1>9
  <2> QED
    BY <2>1 DEF RecordOf
<1>15. ProcessInv'
  <2>1. /\ phase' # "down" /\ writing'.out /\ writing'.write = w /\ landing'.ready = FALSE
        /\ synced' <= n /\ phase' = phase
    BY <1>2, <1>3, <1>5 DEF w
  <2>2. phase' \notin {"down", "stopped"}
    BY <1>2, <1>3 DEF IInv, ProcessInv
  <2> QED
    BY <1>2, <1>7, <1>10, <1>11, <1>14, <2>1, <2>2 DEF ProcessInv
<1> QED
  BY <1>12, <1>13, <1>15 DEF IInv

\* The writer thread syncs it, and the write has landed.
LEMMA WriterSyncsKeeps ==
  ASSUME IInv, WriterSyncs
  PROVE  IInv'
<1> DEFINE w == writing.write
           n == Len(wal)
<1>1. /\ written /\ synced' = n /\ written' = FALSE /\ queue' = Tail(queue)
      /\ landing' = LandedIn(wal[n].file)
      /\ UNCHANGED <<phase, state, journal, writing, answered, wal, trimmed, handed>>
  BY DEF WriterSyncs
<1>2. InWal
  BY <1>1 DEF InWal
<1>3. phase # "down" /\ writing.out /\ wal # <<>> /\ queue[1].type = "write"
      /\ QueueOK(queue, ~landing.ready, w) /\ ~landing.ready
  BY <1>1, <1>2 DEF IInv, ProcessInv
<1>4. queue # <<>> /\ IsSeq(queue)
  BY <1>3 DEF QueueOK
<1>5. Len(queue) = 1
  BY <1>3, <1>4, HeadIsOut
<1>6. queue' = <<>>
  <2>1. IsSeq(Tail(queue)) /\ Len(Tail(queue)) = 0
    BY <1>4, <1>5, TailFacts
  <2> QED
    BY <1>1, <2>1 DEF IsSeq
<1>7. WalOK(wal) /\ IsSeq(wal) /\ n \in Nat /\ synced \in 0 .. n /\ trimmed \in Nat
  BY SeqFacts DEF IInv, TypeOK, WalOK
<1>8. n # 0 /\ n \in 1 .. n /\ LastFile(wal) = wal[n].file /\ wal[n].file \in Nat
  <2>1. n # 0
    BY <1>3, <1>7 DEF IsSeq
  <2>2. n \in 1 .. n
    BY <1>7, <2>1
  <2> QED
    BY <1>7, <2>1, <2>2 DEF LastFile, WalOK
<1>9. landing'.ready = TRUE /\ landing'.file = LastFile(wal)
  BY <1>1, <1>8 DEF LandedIn
<1>10. InWal' = TRUE /\ Base' = Base
  <2>1. InWal'
    BY <1>9 DEF InWal
  <2> QED
    BY <1>1, <1>2, <2>1 DEF Base, InWal
<1> HIDE DEF n, w
<1>11. TypeOK'
  <2>1. synced' \in 0 .. Len(wal')
    BY <1>1, <1>7 DEF n
  <2>2. \E f \in Nat : landing' = LandedIn(f)
    BY <1>1, <1>8
  <2>3. written' \in BOOLEAN
    BY <1>1
  <2> QED
    BY <1>1, <2>1, <2>2, <2>3 DEF IInv, TypeOK
<1>12. WalInv'
  <2>1. trimmed \in Bounds(queue, trimmed)
    BY DEF Bounds
  <2>2. Bounds(queue', trimmed') = {trimmed}
    BY <1>1, <1>6, EmptyQueue
  <2>3. n \in synced .. Len(wal)
    BY <1>7 DEF n
  <2>4. Covered(wal, n, Bounds(queue, trimmed)) /\ StateAt(wal, n).counters >= handed
    BY <2>3 DEF IInv, WalInv
  <2>5. Covered(wal, n, {trimmed})
    BY <1>7, <2>1, <2>4, CoveredFewer
  <2>6. \A m \in synced' .. Len(wal') : m = n
    BY <1>1, <1>7 DEF n
  <2>7. trimmed <= LastFile(wal)
    BY <2>1 DEF IInv, WalInv
  <2> QED
    BY <1>1, <1>7, <2>2, <2>4, <2>5, <2>6, <2>7 DEF WalInv
<1>13. QueueOK(queue', FALSE, w)
  BY <1>6, EmptyQueue
<1>14. ProcessInv'
  <2>1. /\ state = StateAt(wal, Base) /\ RunsOK(wal, Base, journal.runs)
        /\ handed <= state.counters /\ Takeable(state, w) /\ wal[Len(wal)].write = w
        /\ wal[Len(wal)].left = After(state, w) /\ phase \notin {"down", "stopped"}
    BY <1>2, <1>3 DEF IInv, ProcessInv, w
  <2>2. synced' = Len(wal')
    BY <1>1 DEF n
  <2>3. writing'.write = w /\ writing'.out
    BY <1>1, <1>3 DEF w
  <2> QED
    BY <1>1, <1>3, <1>9, <1>10, <1>13, <2>1, <2>2, <2>3 DEF ProcessInv
<1> QED
  BY <1>11, <1>12, <1>14 DEF IInv

\* The writer thread deletes files that no entry is in.
LEMMA WriterTrimsKeeps ==
  ASSUME IInv, WriterTrims
  PROVE  IInv'
<1>1. /\ queue # <<>> /\ queue[1].type = "trim" /\ trimmed' = Later(trimmed, queue[1].before)
      /\ queue' = Tail(queue) /\ answered' = TRUE
      /\ UNCHANGED <<phase, state, journal, writing, landing, written, wal, synced, handed>>
  BY DEF WriterTrims, process
<1>2. phase # "down"
  BY <1>1 DEF IInv, ProcessInv
<1>3. IsSeq(queue)
  BY <1>2 DEF IInv, ProcessInv, QueueOK
<1>4. /\ IsSeq(Tail(queue)) /\ Len(queue) \in Nat \ {0} /\ Len(Tail(queue)) = Len(queue) - 1
      /\ \A i \in 1 .. Len(queue) - 1 : Tail(queue)[i] = queue[i + 1]
  BY <1>1, <1>3, TailFacts
<1>5. Bounds(queue', trimmed') \subseteq Bounds(queue, trimmed)
  <2>1. trimmed' = trimmed \/ trimmed' = queue[1].before
    BY <1>1 DEF Later
  <2> QED
    BY <1>1, <1>3, <2>1, BoundsTail
<1>6. ~written
  <2>1. written => InWal
    BY DEF InWal
  <2> QED
    BY <1>1, <1>2, <2>1 DEF IInv, ProcessInv
<1>7. ASSUME NEW waits, NEW w, QueueOK(queue, waits, w)
      PROVE  QueueOK(Tail(queue), waits, w)
  <2>1. \A i \in 1 .. Len(queue) - 1 : i + 1 \in 1 .. Len(queue)
    BY <1>4
  <2>2. ASSUME NEW i \in 1 .. Len(Tail(queue))
        PROVE  \/ Tail(queue)[i].type = "trim" /\ Tail(queue)[i].before \in Nat
               \/ waits /\ i = Len(Tail(queue)) /\ Tail(queue)[i] = ToWrite(w)
    <3>1. i \in 1 .. Len(queue) - 1 /\ i + 1 \in 1 .. Len(queue)
      BY <1>4, <2>1
    <3>2. \/ queue[i + 1].type = "trim" /\ queue[i + 1].before \in Nat
          \/ waits /\ i + 1 = Len(queue) /\ queue[i + 1] = ToWrite(w)
      BY <1>7, <3>1 DEF QueueOK
    <3>3. i + 1 = Len(queue) => i = Len(Tail(queue))
      <4>1. i \in Int
        BY <3>1
      <4> DEFINE l == Len(queue)
      <4>2. l \in Nat
        BY <1>4
      <4> HIDE DEF l
      <4>3. i + 1 = l => i = l - 1
        BY <4>1, <4>2
      <4>4. i + 1 = Len(queue) => i = Len(queue) - 1
        BY <4>3 DEF l
      <4> QED
        BY <1>4, <4>4
    <3> QED
      BY <1>4, <3>1, <3>2, <3>3
  <2>3. ASSUME waits PROVE Tail(queue) # <<>> /\ Tail(queue)[Len(Tail(queue))] = ToWrite(w)
    <3>1. queue[Len(queue)] = ToWrite(w)
      BY <1>7, <2>3 DEF QueueOK
    <3>2. Len(queue) # 1
      BY <1>1, <3>1 DEF ToWrite
    <3>3. Len(queue) - 1 \in 1 .. Len(queue) - 1 /\ Len(queue) - 1 + 1 = Len(queue)
      BY <1>4, <3>2
    <3>4. Tail(queue)[Len(queue) - 1] = queue[Len(queue)]
      BY <1>4, <3>3
    <3>5. Len(Tail(queue)) # 0
      BY <1>4, <3>2
    <3>6. Tail(queue) # <<>>
      <4>1. Len(<<>>) = 0
        OBVIOUS
      <4> QED
        BY <3>5, <4>1, Zenon
    <3> QED
      BY <1>4, <3>1, <3>4, <3>6
  <2> QED
    BY <1>4, <2>2, <2>3 DEF QueueOK
<1>8. InWal' = InWal /\ Base' = Base
  BY <1>1 DEF InWal, Base
<1>9. trimmed' \in Nat
  <2>1. 1 \in 1 .. Len(queue)
    BY <1>4
  <2>2. queue[1].before \in Bounds(queue, trimmed)
    BY <1>1, <2>1 DEF Bounds
  <2> QED
    BY <1>1, <2>2 DEF IInv, WalInv, TypeOK, Later
<1>10. TypeOK'
  BY <1>1, <1>9 DEF IInv, TypeOK
<1>11. WalInv'
  <2> DEFINE B == Bounds(queue, trimmed)
             C == Bounds(queue', trimmed')
  <2>1. /\ \A n \in synced .. Len(wal) : Covered(wal, n, B) /\ StateAt(wal, n).counters >= handed
        /\ \A b \in B : b \in Nat /\ b <= LastFile(wal)
    BY DEF IInv, WalInv
  <2>2. \A n \in synced .. Len(wal) : n \in Nat
    BY SeqFacts DEF IInv, TypeOK, WalOK
  <2> HIDE DEF B, C
  <2>3. \A b \in C : b \in B
    BY <1>5 DEF B, C
  <2>4. \A n \in synced .. Len(wal) : Covered(wal, n, C)
    BY <2>1, <2>2, <2>3, CoveredFewer
  <2> QED
    BY <1>1, <2>1, <2>3, <2>4 DEF WalInv, C
<1>12. ProcessInv'
  BY <1>1, <1>2, <1>6, <1>7, <1>8 DEF IInv, ProcessInv
<1> QED
  BY <1>10, <1>11, <1>12 DEF IInv

\* A failure takes records that are not synced and files that may be gone.
LEMMA FailKeeps ==
  ASSUME IInv, Fail
  PROVE  IInv'
<1>1. PICK n \in synced .. Len(wal), gone \in MayBeGone :
        /\ wal' = Left(wal, n, gone) /\ synced' = Len(Left(wal, synced, gone))
        /\ trimmed' = 0 /\ phase' = "down" /\ landing' = NotLanded
        /\ written' = FALSE /\ answered' = FALSE
        /\ writing' = NoWrite /\ queue' = <<>> /\ handed' = handed
  BY DEF Fail, Fresh
<1> DEFINE B == Bounds(queue, trimmed)
<1>2. /\ WalOK(wal) /\ Len(wal) \in Nat /\ synced \in 0 .. Len(wal) /\ trimmed \in Nat
      /\ handed \in Nat
  BY SeqFacts DEF IInv, TypeOK, WalOK
<1>3. /\ n \in 0 .. Len(wal) /\ n \in Nat /\ synced \in 0 .. n /\ trimmed \in B
      /\ \A f \in gone : ~(trimmed <= f)
  BY <1>2 DEF Bounds, MayBeGone
<1>4. \A m \in synced .. Len(wal) : Covered(wal, m, B) /\ StateAt(wal, m).counters >= handed
  BY DEF IInv, WalInv
<1>5. WalOK(wal')
  <2>1. WalOK(Left(wal, n, gone))
    BY <1>2, <1>3, LeftSorted
  <2> QED
    BY <1>1, <2>1
<1>6. LeftFacts(wal, n, gone) /\ LeftFacts(wal, synced, gone)
  BY <1>2, <1>3, LeftIs
<1>7. synced' \in 0 .. Len(wal') /\ Len(wal') \in Nat
  <2>1. /\ Len(Left(wal, n, gone)) \in Nat
        /\ Len(Left(wal, synced, gone)) <= Len(Left(wal, n, gone))
    BY <1>3, <1>6 DEF LeftFacts
  <2>2. Len(Left(wal, synced, gone)) \in Nat
    BY <1>6 DEF LeftFacts
  <2> QED
    BY <1>1, <2>1, <2>2
<1> HIDE DEF B
<1>8. ASSUME NEW k \in synced' .. Len(wal')
      PROVE  Covered(wal', k, {0}) /\ StateAt(wal', k).counters >= handed
  <2>1. PICK m \in synced .. n : k = Len(Left(wal, m, gone))
    <3>1. CASE k = synced'
      <4>1. synced \in synced .. n
        BY <1>2, <1>3
      <4> QED
        BY <1>1, <3>1, <4>1
    <3>2. CASE k # synced'
      <4>1. k \in 1 .. Len(wal') /\ ~(k <= synced')
        BY <1>7, <3>2
      <4>2. PICK x \in 1 .. n : wal[x].file \notin gone /\ Len(Left(wal, x, gone)) = k
        BY <1>1, <1>6, <4>1 DEF LeftFacts
      <4>3. ~(x <= synced)
        <5> SUFFICES ASSUME x <= synced PROVE FALSE
          OBVIOUS
        <5>1. x \in 0 .. synced
          BY <1>2
        <5>2. LeftFacts(wal, synced, gone)
          BY <1>6
        <5>3. Len(Left(wal, x, gone)) <= Len(Left(wal, synced, gone))
          BY <5>1, <5>2 DEF LeftFacts
        <5> QED
          BY <1>1, <4>1, <4>2, <5>3
      <4>4. x \in synced .. n
        BY <1>2, <1>3, <4>3
      <4> QED
        BY <4>2, <4>4
    <3> QED
      BY <3>1, <3>2
  <2>2. m \in 0 .. n /\ m \in synced .. Len(wal)
    BY <1>2, <1>3
  <2>3. Covered(wal, m, B) /\ StateAt(wal, m).counters >= handed
    BY <1>4, <2>2
  <2>4. /\ Covered(Left(wal, n, gone), Len(Left(wal, m, gone)), {0})
        /\ StateAt(Left(wal, n, gone), Len(Left(wal, m, gone))) = StateAt(wal, m)
    BY <1>2, <1>3, <2>2, <2>3, LeftCovered
  <2> QED
    BY <1>1, <2>1, <2>3, <2>4
<1>9. TypeOK'
  <2>1. trimmed' \in Nat /\ handed' \in Nat
    BY <1>1, <1>2
  <2> QED
    BY <1>1, <1>5, <1>7, <2>1, Zenon DEF TypeOK
<1>10. WalInv'
  <2>1. Bounds(queue', trimmed') = {0}
    BY <1>1, EmptyQueue
  <2>2. 0 <= LastFile(wal')
    <3>1. CASE Len(wal') = 0
      BY <3>1 DEF LastFile
    <3>2. CASE Len(wal') # 0
      <4>1. Len(wal') \in 1 .. Len(wal')
        BY <1>7, <3>2
      <4> QED
        BY <1>5, <3>2, <4>1 DEF WalOK, LastFile
    <3> QED
      BY <3>1, <3>2
  <2>3. handed' = handed
    BY <1>1
  <2>4. \A k \in synced' .. Len(wal') :
          Covered(wal', k, Bounds(queue', trimmed')) /\ StateAt(wal', k).counters >= handed'
    BY <1>8, <2>1, <2>3
  <2>5. \A b \in Bounds(queue', trimmed') : b \in Nat /\ b <= LastFile(wal')
    BY <2>1, <2>2
  <2> QED
    BY <2>4, <2>5 DEF WalInv
<1>11. ProcessInv'
  <2>1. ~InWal' /\ ~writing'.out
    BY <1>1 DEF InWal, NotLanded, NoWrite
  <2> QED
    BY <1>1, <2>1 DEF ProcessInv
<1> QED
  BY <1>9, <1>10, <1>11 DEF IInv

-----------------------------------------------------------------------------

\* IInv holds in every state: Node::open_with, the event loop, the writer thread
\* and the failures keep it.
THEOREM Invariance == FairSpec => []IInv
<1>1. Init => IInv
  BY InitInv
<1>2. IInv /\ [Next]_vars => IInv'
  <2> SUFFICES ASSUME IInv, [Next]_vars PROVE IInv'
    OBVIOUS
  <2>1. CASE Open
    BY <2>1, OpenKeeps
  <2>2. CASE Opens
    BY <2>2, OpensKeeps
  <2>3. CASE Wakes
    BY <2>3, BatchKeeps DEF Wakes
  <2>4. CASE Steps
    BY <2>4, BatchKeeps DEF Steps
  <2>5. CASE Exit
    BY <2>5, ExitKeeps
  <2>6. CASE WriterWrites
    BY <2>6, WriterWritesKeeps
  <2>7. CASE WriterSyncs
    BY <2>7, WriterSyncsKeeps
  <2>8. CASE WriterTrims
    BY <2>8, WriterTrimsKeeps
  <2>9. CASE Fail
    BY <2>9, FailKeeps
  <2>10. CASE UNCHANGED vars
    <3>1. UNCHANGED <<phase, state, journal, writing, landing, queue, written, answered,
                      wal, synced, trimmed, handed>>
      BY <2>10 DEF vars, process, writer, files
    <3>2. InWal' = InWal /\ Base' = Base
      BY <3>1 DEF InWal, Base
    <3>3. TypeOK'
      BY <3>1 DEF IInv, TypeOK
    <3>4. WalInv'
      BY <3>1 DEF IInv, WalInv
    <3>5. ProcessInv'
      BY <3>1, <3>2 DEF IInv, ProcessInv
    <3> QED
      BY <3>3, <3>4, <3>5 DEF IInv
  <2> QED
    BY <2>1, <2>2, <2>3, <2>4, <2>5, <2>6, <2>7, <2>8, <2>9, <2>10 DEF Next
<1> QED
  BY <1>1, <1>2, PTL DEF FairSpec

\* Whatever a crash or a power loss leaves, at any point of a write, a start or a
\* trim of Journal::finish, replays to exactly the state of one write, the last
\* one that the node handed back to its replica or one after it.
THEOREM CrashesKeepWhatWasHanded == FairSpec => []CrashKeepsHanded
<1>1. IInv => CrashKeepsHanded
  BY InvKeepsHanded
<1> QED
  BY <1>1, Invariance, PTL

=============================================================================
