---------------------------- MODULE StoreProofs ----------------------------
(* The store keeps its promises for every set of keys, every size of a     *)
(* chunk, every log retention and every history of ops: the invariants of  *)
(* Store, proved from IInv.                                                *)
EXTENDS Store, Integers, FiniteSetTheorems, WellFoundedInduction, TLAPS

-----------------------------------------------------------------------------
(* Numbers.  That a set of naturals has a least member takes the place of  *)
(* induction: the least counterexample has a predecessor that is none.     *)

\* A set of naturals that is not empty has a least member.
LEMMA LeastExists ==
  ASSUME NEW S \in SUBSET Nat, S # {}
  PROVE  \E m \in S : \A n \in S : m <= n
<1>1. PICK m \in S : \A n \in S : ~(<<n, m>> \in OpToRel(<, Nat))
  BY NatLessThanWellFounded, WFMin
<1>2. \A n \in S : ~(n < m)
  BY <1>1 DEF OpToRel
<1> QED
  BY <1>2

\* A bounded set of naturals that is not empty has a greatest member, and Max is it.
LEMMA MaxIsGreatest ==
  ASSUME NEW b \in Nat, NEW S \in SUBSET (0 .. b), S # {}
  PROVE  /\ Max(S) \in S
         /\ \A n \in S : n <= Max(S)
<1> DEFINE T == {n \in Nat : n <= b /\ b - n \in S}
<1>1. T # {}
  <2>1. PICK n \in S : TRUE
    OBVIOUS
  <2>2. b - n \in T
    BY <2>1
  <2> QED
    BY <2>2
<1>2. PICK m \in T : \A n \in T : m <= n
  BY <1>1, LeastExists
<1>3. b - m \in S /\ \A n \in S : b - m >= n
  <2>1. \A n \in S : b - n \in T
    OBVIOUS
  <2> QED
    BY <1>2, <2>1
<1>4. Max(S) \in S /\ \A n \in S : Max(S) >= n
  BY <1>3, Zenon DEF Max
<1> QED
  BY <1>4

\* Dividing brings a multiple back, and keeps the order.
LEMMA Division ==
  ASSUME NEW c \in Nat \ {0}, NEW n \in Nat, NEW q \in Nat
  PROVE  /\ n \div c \in Nat
         /\ n \div c >= q <=> n >= q * c
         /\ n = q * c => n \div c = q
  OBVIOUS

\* Min is the least member.
LEMMA MinIsLeast ==
  ASSUME NEW S \in SUBSET Nat, S # {}
  PROVE  /\ Min(S) \in S
         /\ \A n \in S : Min(S) <= n
<1>1. PICK m \in S : \A n \in S : m <= n
  BY LeastExists
<1> QED
  BY <1>1, Zenon DEF Min

-----------------------------------------------------------------------------
(* The inductive invariant *)

Writes == UNION {[D -> Nat] : D \in SUBSET Key}
Database == [data : [0 .. 1 -> [Key -> Nat]], applied : 0 .. MaxOp, current : 0 .. 1,
             incarnation : Nat]
Flush == [out : {TRUE}, writes : Writes, op : 0 .. MaxOp, data : 0 .. 1,
          stage : {"write", "sync", "done"}]
Kept == [is : {TRUE}, op : 0 .. MaxOp, data : [Key -> Nat]]

\* Every variable holds what the store's fields can hold.
TypeOK ==
  /\ hist \in [1 .. MaxOp -> [key : Key, removes : BOOLEAN]]
  /\ running \in BOOLEAN
  /\ current \in 0 .. 1 /\ applied \in 0 .. MaxOp
  /\ dirty \in Writes
  /\ flushing \in {NoFlush} \union Flush
  /\ kept \in {NoneKept} \union Kept
  /\ staged \in [op : 0 .. MaxOp, next : Nat]
  /\ restoring \in {"no", "waits", "switched", "synced"}
  /\ log_start \in 0 .. MaxOp /\ journal_start \in 0 .. MaxOp
  /\ fjall \in Seq(Database) /\ Len(fjall) > 0
  /\ ran \in Nat /\ crashes \in Nat

\* Before the batch of a restore that switches the keyspaces.
Before == restoring \in {"no", "waits"}

\* Whatever a crash leaves is a prefix, reaches the journal and remembers the run.
DiskInv ==
  \A db \in Outcomes : /\ db.data[db.current] = StateAsOf(db.applied)
                       /\ journal_start <= db.applied
                       /\ ran <= db.incarnation

\* The log starts between the journal's start and what a crash would leave.
LogInv ==
  running => /\ journal_start <= log_start /\ log_start <= applied
             /\ \A db \in Outcomes : log_start <= db.applied

\* The ops that are in the database, once the flush that is out is.
Base == IF flushing.out THEN flushing.op ELSE Visible.applied

\* The writes kept in memory are those of the ops after Base.
MemoryInv ==
  running /\ Before => /\ Visible.current = current
                       /\ Visible.applied <= Base /\ Base <= applied
                       /\ Overlaid(StateAsOf(Base), dirty) = StateAsOf(applied)

\* A flush brings the keyspace it was started for to its op, and once it has
\* synced no crash goes back before that op.
FlushInv ==
  flushing.out =>
    /\ running /\ Before
    /\ flushing.data = current
    /\ Overlaid(Visible.data[current], flushing.writes) = StateAsOf(flushing.op)
    /\ flushing.stage \in {"sync", "done"} => Visible.applied = flushing.op
    /\ flushing.stage = "done" => \A db \in Outcomes : flushing.op <= db.applied

\* A checkpoint that is kept is the state after its op, which the log reaches.
KeptInv ==
  kept.is => /\ running /\ Before
             /\ kept.data = StateAsOf(kept.op)
             /\ log_start <= kept.op /\ kept.op <= applied

\* What the chunks before next hold of a checkpoint.
Staged(state, next) ==
  [k \in Key |-> IF \E i \in 0 .. next - 1 : k \in ChunkKeys(state, i)
                 THEN state[k] ELSE Absent]

\* The other keyspace holds the chunks staged so far, and all of the checkpoint
\* when a restore begins.
StagedInv ==
  /\ staged.op # 0 /\ Before => /\ running
                                /\ Visible.data[1 - current] = Staged(StateAsOf(staged.op), staged.next)
  /\ restoring = "waits" => /\ running /\ applied < staged.op
                            /\ Visible.data[1 - current] = StateAsOf(staged.op)

\* While a restore switches the keyspaces nothing else is under way, and once
\* it has synced a crash leaves the checkpoint.
RestoreInv ==
  ~Before => /\ running /\ applied < staged.op
             /\ flushing = NoFlush /\ kept = NoneKept /\ dirty = NoWrites
             /\ Visible.current = 1 - current /\ Visible.applied = staged.op
             /\ restoring = "synced" => \A db \in Outcomes : db.applied = staged.op

IInv == /\ TypeOK /\ DiskInv /\ LogInv /\ MemoryInv /\ FlushInv /\ KeptInv
        /\ StagedInv /\ RestoreInv

-----------------------------------------------------------------------------
(* The state after a number of ops *)

History == [1 .. MaxOp -> [key : Key, removes : BOOLEAN]]

\* The last of the first n ops that wrote k, or 0.
LastWrite(h, n, k) == Max({0} \union {j \in 1 .. n : h[j].key = k})

\* The state is an op, or nothing, for each key.
LEMMA StateTyped ==
  ASSUME NEW h, NEW n \in 0 .. MaxOp
  PROVE  StateAfter(h, n) \in [Key -> Nat]
<1>1. ASSUME NEW k \in Key PROVE LastWrite(h, n, k) \in Nat
  <2> DEFINE S == {0} \union {j \in 1 .. n : h[j].key = k}
  <2>1. S \in SUBSET (0 .. n) /\ S # {} /\ n \in Nat
    BY StoreAssumption
  <2>2. Max(S) \in S
    BY <2>1, MaxIsGreatest
  <2> QED
    BY <2>1, <2>2 DEF LastWrite
<1> QED
  BY <1>1 DEF StateAfter, LastWrite, Absent

\* No op has written anything to begin with.
LEMMA StateAtFirst == \A h : StateAfter(h, 0) = Empty
<1>1. ASSUME NEW h, NEW k \in Key PROVE LastWrite(h, 0, k) = 0
  <2>1. {0} \union {j \in 1 .. 0 : h[j].key = k} = {0}
    OBVIOUS
  <2>2. Max({0}) \in {0}
    BY MaxIsGreatest
  <2> QED
    BY <2>1, <2>2 DEF LastWrite
<1> QED
  BY <1>1 DEF StateAfter, LastWrite, Empty, Absent

\* An op changes its own key, and no other.
LEMMA StateAfterOp ==
  ASSUME NEW h \in History, NEW n \in 0 .. MaxOp - 1
  PROVE  StateAfter(h, n + 1) =
           [k \in Key |-> IF k # h[n + 1].key THEN StateAfter(h, n)[k]
                          ELSE IF h[n + 1].removes THEN Absent ELSE n + 1]
<1> DEFINE S(m, k) == {0} \union {j \in 1 .. m : h[j].key = k}
<1>0. n \in Nat /\ n + 1 \in Nat /\ n + 1 # 0
  BY StoreAssumption
<1>1. ASSUME NEW k \in Key, k # h[n + 1].key PROVE LastWrite(h, n + 1, k) = LastWrite(h, n, k)
  <2>1. S(n + 1, k) = S(n, k)
    BY <1>0, <1>1
  <2> QED
    BY <2>1 DEF LastWrite
<1>2. ASSUME NEW k \in Key, k = h[n + 1].key PROVE LastWrite(h, n + 1, k) = n + 1
  <2>1. S(n + 1, k) \in SUBSET (0 .. n + 1) /\ n + 1 \in S(n + 1, k)
    BY <1>0, <1>2
  <2>2. Max(S(n + 1, k)) \in S(n + 1, k) /\ \A m \in S(n + 1, k) : m <= Max(S(n + 1, k))
    <3> HIDE DEF S
    <3> QED
      BY <1>0, <2>1, MaxIsGreatest
  <2>3. Max(S(n + 1, k)) = n + 1
    <3> HIDE DEF S
    <3> QED
      BY <1>0, <2>1, <2>2
  <2> QED
    BY <2>3 DEF LastWrite
<1>3. \A m, k : StateAfter(h, m) =
        [l \in Key |-> IF LastWrite(h, m, l) = 0 \/ h[LastWrite(h, m, l)].removes
                       THEN Absent ELSE LastWrite(h, m, l)]
  BY DEF StateAfter, LastWrite
<1> QED
  BY <1>0, <1>1, <1>2, <1>3

-----------------------------------------------------------------------------
(* Writes over data *)

\* Nothing written changes nothing.
LEMMA OverlaidNothing ==
  ASSUME NEW data \in [Key -> Nat]
  PROVE  Overlaid(data, NoWrites) = data
  BY DEF Overlaid, NoWrites

\* Writing over data is idempotent.
LEMMA OverlaidTwice ==
  ASSUME NEW data, NEW writes
  PROVE  Overlaid(Overlaid(data, writes), writes) = Overlaid(data, writes)
  BY DEF Overlaid

\* Data that is written over has the type of data.
LEMMA OverlaidTyped ==
  ASSUME NEW data \in [Key -> Nat], NEW writes \in Writes
  PROVE  Overlaid(data, writes) \in [Key -> Nat]
  BY DEF Overlaid, Writes

\* No writes are writes.
LEMMA NoWritesTyped == NoWrites \in Writes
<1>1. NoWrites \in [{} -> Nat]
  BY Zenon DEF NoWrites
<1> QED
  BY <1>1 DEF Writes

-----------------------------------------------------------------------------
(* Chunks *)

Present(data) == {k \in Key : data[k] # Absent}

\* The number of keys before k.
Rank(data, k) == Cardinality({l \in Present(data) : l < k})

\* A chunk is the keys whose ranks divide to its index.
LEMMA ChunkByRank ==
  ASSUME NEW data, NEW i
  PROVE  ChunkKeys(data, i) = {k \in Present(data) : Rank(data, k) \div ChunkSize = i}
  BY DEF ChunkKeys, Present, Rank

\* A rank is a natural number, and a key that is not the first has one just
\* before it, with the rank before its own.
LEMMA RankPrevious ==
  ASSUME NEW data, NEW k \in Present(data)
  PROVE  /\ Rank(data, k) \in Nat
         /\ Rank(data, k) > 0 =>
              \E l \in Present(data) : l < k /\ Rank(data, l) = Rank(data, k) - 1
<1> DEFINE S == {l \in Present(data) : l < k}
<1>1. /\ Present(data) \subseteq Nat /\ IsFiniteSet(Present(data))
      /\ k \in Nat
  <2>1. Present(data) \in SUBSET Key
    BY DEF Present
  <2> QED
    BY <2>1, StoreAssumption, FS_Subset
<1>2. IsFiniteSet(S)
  <2>1. S \in SUBSET Present(data)
    OBVIOUS
  <2> QED
    BY <1>1, <2>1, FS_Subset
<1>3. Rank(data, k) \in Nat
  BY <1>2, FS_CardinalityType DEF Rank
<1>4. ASSUME Rank(data, k) > 0
      PROVE  \E l \in Present(data) : l < k /\ Rank(data, l) = Rank(data, k) - 1
  <2>1. S # {}
    BY <1>4, FS_EmptySet DEF Rank
  <2>2. S \in SUBSET (0 .. k)
    BY <1>1
  <2>3. Max(S) \in S /\ \A n \in S : n <= Max(S)
    <3> HIDE DEF S
    <3> QED
      BY <1>1, <2>1, <2>2, MaxIsGreatest
  <2>4. PICK m \in S : \A n \in S : n <= m
    BY <2>3
  <2>5. {l \in Present(data) : l < m} = S \ {m}
    BY <1>1, <2>4
  <2>6. Cardinality(S \ {m}) = Cardinality(S) - 1
    BY <1>2, <2>4, FS_RemoveElement
  <2> QED
    BY <2>4, <2>5, <2>6 DEF Rank
<1> QED
  BY <1>3, <1>4

\* When a chunk is empty, every key is in a chunk before it: ranks have no gaps.
LEMMA LastChunkCovers ==
  ASSUME NEW data, NEW index \in Nat, ChunkKeys(data, index + 1) = {}
  PROVE  \A k \in Present(data) : \E i \in 0 .. index : k \in ChunkKeys(data, i)
<1> DEFINE S == {k \in Present(data) : Rank(data, k) >= (index + 1) * ChunkSize}
<1>1. Present(data) \subseteq Nat /\ ChunkSize \in Nat \ {0}
  BY StoreAssumption DEF Present
<1>2. (index + 1) * ChunkSize \in Nat /\ index + 1 \in Nat
  BY <1>1
<1>3. S = {}
  <2> SUFFICES ASSUME S # {} PROVE FALSE
    OBVIOUS
  <2>1. PICK k \in S : \A l \in S : k <= l
    <3>1. S \in SUBSET Nat
      BY <1>1
    <3> HIDE DEF S
    <3> QED
      BY <3>1, LeastExists
  <2>2. Rank(data, k) \in Nat
    BY RankPrevious
  <2>3. CASE Rank(data, k) = (index + 1) * ChunkSize
    <3>1. Rank(data, k) \div ChunkSize = index + 1
      BY <1>1, <1>2, <2>2, <2>3, Division
    <3> QED
      BY <3>1, ChunkByRank
  <2>4. CASE Rank(data, k) > (index + 1) * ChunkSize
    <3>1. Rank(data, k) > 0
      BY <1>2, <2>2, <2>4
    <3>2. PICK l \in Present(data) : l < k /\ Rank(data, l) = Rank(data, k) - 1
      BY <3>1, RankPrevious
    <3>3. l \in S
      BY <1>2, <2>2, <2>4, <3>2
    <3> QED
      BY <1>1, <2>1, <3>2, <3>3
  <2> QED
    BY <1>2, <2>1, <2>2, <2>3, <2>4
<1>4. ASSUME NEW k \in Present(data) PROVE \E i \in 0 .. index : k \in ChunkKeys(data, i)
  <2>1. Rank(data, k) \in Nat
    BY RankPrevious
  <2>2. ~(Rank(data, k) >= (index + 1) * ChunkSize)
    BY <1>3
  <2>3. Rank(data, k) \div ChunkSize \in Nat /\ ~(Rank(data, k) \div ChunkSize >= index + 1)
    BY <1>1, <1>2, <2>1, <2>2, Division
  <2>4. Rank(data, k) \div ChunkSize \in 0 .. index
    BY <2>3
  <2> QED
    BY <2>4, ChunkByRank
<1> QED
  BY <1>4

\* The chunks up to the last one are the whole checkpoint.
LEMMA StagedAll ==
  ASSUME NEW state \in [Key -> Nat], NEW index \in Nat, ChunkKeys(state, index + 1) = {}
  PROVE  Staged(state, index + 1) = state
<1>1. \A k \in Present(state) : \E i \in 0 .. index : k \in ChunkKeys(state, i)
  BY LastChunkCovers
<1>2. index + 1 - 1 = index
  OBVIOUS
<1> QED
  BY <1>1, <1>2 DEF Staged, Present

\* One more chunk, over the chunks before it.
LEMMA StagedNext ==
  ASSUME NEW state \in [Key -> Nat], NEW index \in Nat
  PROVE  /\ Overlaid(Staged(state, index), Restrict(state, ChunkKeys(state, index)))
              = Staged(state, index + 1)
         /\ Staged(state, 0) = Empty
         /\ Staged(state, index) \in [Key -> Nat]
<1> DEFINE chunk == Restrict(state, ChunkKeys(state, index))
<1>1. \A k \in Key : Overlaid(Staged(state, index), chunk)[k] = Staged(state, index + 1)[k]
  <2> SUFFICES ASSUME NEW k \in Key
               PROVE  Overlaid(Staged(state, index), chunk)[k] = Staged(state, index + 1)[k]
    OBVIOUS
  <2>1. /\ DOMAIN chunk = ChunkKeys(state, index)
        /\ k \in ChunkKeys(state, index) => chunk[k] = state[k]
    BY DEF Restrict
  <2>2. \A i : i \in 0 .. index + 1 - 1 <=> i = index \/ i \in 0 .. index - 1
    OBVIOUS
  <2> HIDE DEF chunk
  <2> QED
    BY <2>1, <2>2 DEF Overlaid, Staged
<1>2. Overlaid(Staged(state, index), chunk) = Staged(state, index + 1)
  BY <1>1 DEF Overlaid, Staged
<1>3. Staged(state, 0) = Empty
  BY DEF Staged, Empty
<1>4. Staged(state, index) \in [Key -> Nat]
  BY DEF Staged, Absent
<1> QED
  BY <1>2, <1>3, <1>4

-----------------------------------------------------------------------------
(* The database *)

\* A flush that is out has the fields of one.
LEMMA FlushTyped ==
  ASSUME TypeOK
  PROVE  /\ flushing.out \in BOOLEAN
         /\ flushing.out => /\ flushing \in Flush
                            /\ flushing.op \in 0 .. MaxOp /\ flushing.writes \in Writes
                            /\ flushing.stage \in {"write", "sync", "done"}
         /\ ~flushing.out => flushing = NoFlush
<1>1. flushing = NoFlush \/ flushing \in Flush
  BY DEF TypeOK
<1>2. CASE flushing = NoFlush
  BY <1>2 DEF NoFlush
<1>3. CASE flushing \in Flush
  BY <1>3 DEF Flush
<1> QED
  BY <1>1, <1>2, <1>3

\* A checkpoint that is kept has the fields of one.
LEMMA KeptTyped ==
  ASSUME TypeOK
  PROVE  /\ kept.is \in BOOLEAN
         /\ kept.is => kept \in Kept /\ kept.op \in 0 .. MaxOp
         /\ ~kept.is => kept = NoneKept
<1>1. kept = NoneKept \/ kept \in Kept
  BY DEF TypeOK
<1>2. CASE kept = NoneKept
  BY <1>2 DEF NoneKept
<1>3. CASE kept \in Kept
  BY <1>3 DEF Kept
<1> QED
  BY <1>1, <1>2, <1>3

\* What is visible is what a crash may leave, and all of that is typed.
LEMMA DatabaseTyped ==
  ASSUME TypeOK
  PROVE  /\ Visible \in Outcomes /\ Visible \in Database
         /\ Outcomes \subseteq Database
  BY DEF TypeOK, Visible, Outcomes

\* A batch adds to what a crash may leave, and is what is visible.
LEMMA AfterCommit ==
  ASSUME TypeOK, NEW db \in Database, fjall' = Committed(db)
  PROVE  /\ fjall' \in Seq(Database) /\ Len(fjall') > 0
         /\ Visible' = db
         /\ Outcomes' \subseteq Outcomes \union {db}
<1>1. CASE db = Visible
  BY <1>1 DEF TypeOK, Committed, Visible, Outcomes
<1>2. CASE db # Visible
  <2>1. fjall' = Append(fjall, db) /\ fjall \in Seq(Database)
    BY <1>2 DEF TypeOK, Committed
  <2>2. /\ fjall' \in Seq(Database) /\ Len(fjall') = Len(fjall) + 1
        /\ fjall'[Len(fjall) + 1] = db
        /\ \A n \in DOMAIN fjall' : n = Len(fjall) + 1 \/ (n \in DOMAIN fjall /\ fjall'[n] = fjall[n])
    BY <2>1
  <2>3. Len(fjall) \in Nat
    BY <2>1
  <2> QED
    BY <2>2, <2>3 DEF Visible, Outcomes
<1> QED
  BY <1>1, <1>2

\* After a sync a crash leaves what is visible.
LEMMA AfterSync ==
  ASSUME NEW db \in Database, fjall' = Synced(db)
  PROVE  /\ fjall' \in Seq(Database) /\ Len(fjall') > 0
         /\ Visible' = db
         /\ Outcomes' = {db}
  BY DEF Synced, Visible, Outcomes

\* A step that leaves the database alone.
LEMMA DatabaseUnchanged ==
  ASSUME UNCHANGED fjall
  PROVE  Visible' = Visible /\ Outcomes' = Outcomes
  BY DEF Visible, Outcomes

-----------------------------------------------------------------------------
(* IInv is inductive *)

USE DEF StateAsOf

\* A new store holds an empty database, on disk as in memory.
LEMMA InitInv == Init => IInv
<1> SUFFICES ASSUME Init PROVE IInv
  OBVIOUS
<1> DEFINE db == [data |-> [s \in 0 .. 1 |-> Empty], applied |-> 0, current |-> 0,
                  incarnation |-> 0]
<1>1. db \in Database
  BY StoreAssumption DEF Empty, Absent, Database
<1>2. TypeOK
  <2>1. fjall \in Seq(Database) /\ Len(fjall) > 0
    BY <1>1 DEF Init
  <2>2. staged \in [op : 0 .. MaxOp, next : Nat]
    BY StoreAssumption DEF Init, NotStaged
  <2>3. /\ current \in 0 .. 1 /\ applied \in 0 .. MaxOp
        /\ log_start \in 0 .. MaxOp /\ journal_start \in 0 .. MaxOp
        /\ ran \in Nat /\ crashes \in Nat
    BY StoreAssumption DEF Init
  <2>4. /\ hist \in [1 .. MaxOp -> [key : Key, removes : BOOLEAN]]
        /\ running \in BOOLEAN /\ dirty \in Writes
        /\ flushing \in {NoFlush} \union Flush /\ kept \in {NoneKept} \union Kept
        /\ restoring \in {"no", "waits", "switched", "synced"}
    BY NoWritesTyped, Zenon DEF Init
  <2> QED
    BY <2>1, <2>2, <2>3, <2>4 DEF TypeOK
<1>3. Outcomes = {db} /\ Visible = db
  BY DEF Init, Outcomes, Visible
<1>4. StateAsOf(0) = db.data[db.current]
  BY StateAtFirst
<1>5. DiskInv
  BY <1>3, <1>4 DEF Init, DiskInv
<1>6. ~running /\ ~flushing.out /\ ~kept.is /\ staged.op = 0 /\ restoring = "no"
  BY DEF Init, NoFlush, NoneKept, NotStaged
<1> QED
  BY <1>2, <1>5, <1>6 DEF IInv, LogInv, MemoryInv, FlushInv, KeptInv, StagedInv, RestoreInv, Before

\* apply: the memory takes the op after those it has.
LEMMA ApplyInv == IInv /\ Apply => IInv'
<1> SUFFICES ASSUME IInv, Apply PROVE IInv'
  OBVIOUS
<1> DEFINE op == hist[applied + 1]
<1>1. /\ Visible' = Visible /\ Outcomes' = Outcomes
      /\ UNCHANGED <<hist, running, current, flushing, kept, staged, restoring, log_start,
                     journal_start, fjall, ran, crashes>>
      /\ applied \in Nat /\ applied + 1 \in 0 .. MaxOp /\ applied' = applied + 1
      /\ op.key \in Key /\ running /\ restoring = "no"
  BY DatabaseUnchanged, StoreAssumption DEF Apply, Idle, IInv, TypeOK
<1>2. dirty' \in Writes
  <2>1. PICK D \in SUBSET Key : dirty \in [D -> Nat]
    BY DEF IInv, TypeOK, Writes
  <2>2. dirty' \in [D \union {op.key} -> Nat]
    BY <1>1, <2>1 DEF Apply, Absent
  <2> QED
    BY <1>1, <2>2 DEF Writes
<1>3. TypeOK'
  BY <1>1, <1>2 DEF IInv, TypeOK
<1>4. Base' = Base /\ Before' = Before /\ Before
  BY <1>1 DEF Base, Before
<1>5. Overlaid(StateAsOf(Base), dirty') = StateAsOf(applied')
  <2>1. Overlaid(StateAsOf(Base), dirty) = StateAsOf(applied)
    BY <1>1, <1>4 DEF IInv, MemoryInv
  <2>2. StateAsOf(applied + 1) =
          [k \in Key |-> IF k # op.key THEN StateAsOf(applied)[k]
                         ELSE IF op.removes THEN Absent ELSE applied + 1]
    <3>1. hist \in History /\ applied \in 0 .. MaxOp - 1
      BY <1>1, StoreAssumption DEF IInv, TypeOK, History
    <3> QED
      BY <3>1, StateAfterOp
  <2>3. /\ DOMAIN dirty' = DOMAIN dirty \union {op.key}
        /\ \A k \in DOMAIN dirty' :
             dirty'[k] = IF k # op.key THEN dirty[k] ELSE IF op.removes THEN Absent ELSE applied + 1
    BY DEF Apply
  <2>4. \A k \in Key : StateAsOf(applied)[k] = IF k \in DOMAIN dirty THEN dirty[k] ELSE StateAsOf(Base)[k]
    BY <2>1 DEF Overlaid
  <2> HIDE DEF StateAsOf, op
  <2>5. \A k \in Key : (IF k \in DOMAIN dirty' THEN dirty'[k] ELSE StateAsOf(Base)[k])
                         = StateAsOf(applied + 1)[k]
    BY <2>2, <2>3, <2>4
  <2> QED
    BY <1>1, <2>2, <2>5 DEF Overlaid
<1>6. DiskInv' /\ LogInv'
  BY <1>1 DEF IInv, DiskInv, LogInv, TypeOK
<1>7. MemoryInv'
  <2>1. Base \in Nat /\ Base <= applied
    BY <1>1, <1>4, DatabaseTyped, FlushTyped, StoreAssumption DEF IInv, MemoryInv, Base, Database
  <2> QED
    BY <1>1, <1>4, <1>5, <2>1 DEF IInv, MemoryInv
<1>8. FlushInv'
  BY <1>1, <1>4 DEF IInv, FlushInv
<1>9. KeptInv'
  BY <1>1, <1>4, KeptTyped, StoreAssumption DEF IInv, KeptInv
<1>10. StagedInv' /\ RestoreInv'
  BY <1>1, <1>4 DEF IInv, StagedInv, RestoreInv
<1> QED
  BY <1>3, <1>6, <1>7, <1>8, <1>9, <1>10 DEF IInv

\* The flush takes what the memory holds, and the memory begins anew.
LEMMA StartFlushInv == IInv /\ StartFlush => IInv'
<1> SUFFICES ASSUME IInv, StartFlush PROVE IInv'
  OBVIOUS
<1>1. /\ Visible' = Visible /\ Outcomes' = Outcomes
      /\ UNCHANGED <<hist, running, current, applied, kept, staged, restoring, log_start,
                     journal_start, fjall, ran, crashes>>
      /\ ~flushing.out /\ running /\ restoring = "no"
      /\ dirty' = NoWrites
      /\ flushing' = [out |-> TRUE, writes |-> dirty, op |-> applied, data |-> current,
                      stage |-> "write"]
  BY DatabaseUnchanged DEF StartFlush, Idle
<1>2. TypeOK /\ applied \in 0 .. MaxOp /\ applied \in Nat
  BY StoreAssumption DEF IInv, TypeOK
<1>3. TypeOK'
  <2>1. flushing' \in Flush
    BY <1>1 DEF IInv, TypeOK, Flush
  <2> QED
    BY <1>1, <2>1, NoWritesTyped DEF IInv, TypeOK
<1>4. Before' /\ Before
  BY <1>1 DEF Before
<1>5. /\ Visible.current = current /\ Visible.applied <= applied
      /\ Overlaid(StateAsOf(Visible.applied), dirty) = StateAsOf(applied)
      /\ Visible.data[current] = StateAsOf(Visible.applied)
  BY <1>1, <1>2, <1>4, DatabaseTyped DEF IInv, MemoryInv, Base, DiskInv
<1>6. flushing'.out /\ flushing'.op = applied /\ flushing'.data = current
      /\ flushing'.writes = dirty /\ flushing'.stage = "write"
  BY <1>1
<1>7. DiskInv' /\ LogInv'
  BY <1>1 DEF IInv, DiskInv, LogInv
<1>8. MemoryInv'
  <2>1. Base' = applied
    BY <1>6 DEF Base
  <2>2. Overlaid(StateAsOf(applied), NoWrites) = StateAsOf(applied)
    BY <1>2, StateTyped, OverlaidNothing
  <2> QED
    BY <1>1, <1>2, <1>5, <2>1, <2>2 DEF MemoryInv
<1>9. FlushInv'
  BY <1>1, <1>4, <1>5, <1>6 DEF FlushInv
<1>10. KeptInv' /\ StagedInv' /\ RestoreInv'
  BY <1>1, <1>4 DEF IInv, KeptInv, StagedInv, RestoreInv
<1> QED
  BY <1>3, <1>7, <1>8, <1>9, <1>10 DEF IInv

\* What a flush's batch leaves.
LEMMA FlushBatch ==
  ASSUME IInv, flushing.out,
         NEW db, db = [Visible EXCEPT !.data[flushing.data] = Overlaid(@, flushing.writes),
                                      !.applied = flushing.op]
  PROVE  /\ db \in Database
         /\ db.data[current] = StateAsOf(flushing.op)
         /\ db.data[1 - current] = Visible.data[1 - current]
         /\ db.applied = flushing.op /\ db.current = current
         /\ db.incarnation = Visible.incarnation
<1>1. /\ TypeOK /\ flushing.data = current /\ Visible.current = current
      /\ Overlaid(Visible.data[current], flushing.writes) = StateAsOf(flushing.op)
      /\ flushing.op \in 0 .. MaxOp /\ flushing.writes \in Writes
  BY FlushTyped DEF IInv, FlushInv, MemoryInv
<1>2. Visible \in Database /\ current \in 0 .. 1 /\ 1 - current \in 0 .. 1 /\ current # 1 - current
  BY <1>1, DatabaseTyped DEF TypeOK
<1>3. StateAsOf(flushing.op) \in [Key -> Nat]
  BY <1>1, StateTyped
<1>4. /\ db.data = [Visible.data EXCEPT ![current] = StateAsOf(flushing.op)]
      /\ db.applied = flushing.op /\ db.current = Visible.current
      /\ db.incarnation = Visible.incarnation
      /\ db = [data |-> db.data, applied |-> db.applied, current |-> db.current,
               incarnation |-> db.incarnation]
  BY <1>1, <1>2 DEF Database
<1>5. Visible.data \in [0 .. 1 -> [Key -> Nat]] /\ Visible.current \in 0 .. 1 /\ Visible.incarnation \in Nat
  BY <1>2 DEF Database
<1>6. db.data \in [0 .. 1 -> [Key -> Nat]]
  BY <1>2, <1>3, <1>4, <1>5
<1>7. db \in Database
  BY <1>1, <1>4, <1>5, <1>6 DEF Database
<1> QED
  BY <1>1, <1>2, <1>4, <1>5, <1>7

\* The flush writes what it took, with the op it took it at.
LEMMA FlushWritesInv == IInv /\ FlushWrites => IInv'
<1> SUFFICES ASSUME IInv, FlushWrites PROVE IInv'
  OBVIOUS
<1> DEFINE db == [Visible EXCEPT !.data[flushing.data] = Overlaid(@, flushing.writes),
                                 !.applied = flushing.op]
<1>1. /\ UNCHANGED <<hist, running, current, applied, dirty, kept, staged, restoring, log_start,
                     journal_start, ran, crashes>>
      /\ running /\ flushing.out /\ flushing.stage = "write"
      /\ flushing' = [flushing EXCEPT !.stage = "sync"]
      /\ fjall' = Committed(db)
  BY DEF FlushWrites
<1>2. /\ db \in Database
      /\ db.data[current] = StateAsOf(flushing.op)
      /\ db.data[1 - current] = Visible.data[1 - current]
      /\ db.applied = flushing.op /\ db.current = current
      /\ db.incarnation = Visible.incarnation
  BY <1>1, FlushBatch
<1> HIDE DEF db
<1>3. /\ fjall' \in Seq(Database) /\ Len(fjall') > 0
      /\ Visible' = db
      /\ Outcomes' \subseteq Outcomes \union {db}
  BY <1>1, <1>2, AfterCommit DEF IInv
<1>4. /\ flushing \in Flush /\ flushing.op \in 0 .. MaxOp
      /\ Visible \in Outcomes /\ Visible \in Database /\ Outcomes \subseteq Database
  BY <1>1, FlushTyped, DatabaseTyped DEF IInv
<1>5. /\ flushing' \in Flush /\ flushing'.out /\ flushing'.op = flushing.op
      /\ flushing'.writes = flushing.writes /\ flushing'.data = flushing.data
      /\ flushing'.stage = "sync"
  BY <1>1, <1>4 DEF Flush
<1>6. TypeOK'
  BY <1>1, <1>3, <1>5 DEF IInv, TypeOK
<1>7. /\ Before' = Before /\ Before /\ Visible.applied <= flushing.op /\ flushing.op <= applied
      /\ Base = flushing.op /\ Base' = flushing.op
  BY <1>1, <1>5 DEF IInv, FlushInv, MemoryInv, Base, Before
<1>8. DiskInv' /\ LogInv'
  <2>1. /\ journal_start <= db.applied /\ ran <= db.incarnation /\ log_start <= db.applied
        /\ db.data[db.current] = StateAsOf(db.applied)
    <3>1. Visible.applied \in 0 .. MaxOp /\ journal_start \in 0 .. MaxOp /\ log_start \in 0 .. MaxOp
      BY <1>4 DEF IInv, TypeOK, Database
    <3>2. /\ journal_start <= Visible.applied /\ log_start <= Visible.applied
          /\ ran <= Visible.incarnation
      BY <1>1, <1>4 DEF IInv, DiskInv, LogInv
    <3> QED
      BY <1>2, <1>4, <1>7, <3>1, <3>2
  <2> QED
    BY <1>1, <1>3, <2>1 DEF IInv, DiskInv, LogInv
<1>9. MemoryInv'
  BY <1>1, <1>2, <1>3, <1>4, <1>7 DEF IInv, MemoryInv
<1>10. FlushInv'
  <2>1. Overlaid(db.data[current], flushing.writes) = StateAsOf(flushing.op)
    <3>1. Overlaid(Visible.data[current], flushing.writes) = StateAsOf(flushing.op)
      BY <1>1 DEF IInv, FlushInv
    <3> QED
      BY <1>2, <3>1, OverlaidTwice
  <2> QED
    BY <1>1, <1>2, <1>3, <1>5, <1>7, <2>1 DEF IInv, FlushInv
<1>11. KeptInv' /\ StagedInv' /\ RestoreInv'
  BY <1>1, <1>2, <1>3, <1>7 DEF IInv, KeptInv, StagedInv, RestoreInv, Before
<1> QED
  BY <1>6, <1>8, <1>9, <1>10, <1>11 DEF IInv

\* Once synced, the flushed state is what a crash leaves.
LEMMA FlushSyncsInv == IInv /\ FlushSyncs => IInv'
<1> SUFFICES ASSUME IInv, FlushSyncs PROVE IInv'
  OBVIOUS
<1>1. /\ UNCHANGED <<hist, running, current, applied, dirty, kept, staged, restoring, log_start,
                     journal_start, ran, crashes>>
      /\ running /\ flushing.out /\ flushing.stage = "sync"
      /\ flushing' = [flushing EXCEPT !.stage = "done"]
      /\ fjall' = Synced(Visible)
  BY DEF FlushSyncs
<1>2. /\ flushing \in Flush /\ flushing.op \in 0 .. MaxOp
      /\ Visible \in Outcomes /\ Visible \in Database /\ Outcomes \subseteq Database
  BY <1>1, FlushTyped, DatabaseTyped DEF IInv
<1>3. /\ fjall' \in Seq(Database) /\ Len(fjall') > 0
      /\ Visible' = Visible /\ Outcomes' = {Visible}
  BY <1>1, <1>2, AfterSync
<1>4. /\ flushing' \in Flush /\ flushing'.out /\ flushing'.op = flushing.op
      /\ flushing'.writes = flushing.writes /\ flushing'.data = flushing.data
      /\ flushing'.stage = "done"
  BY <1>1, <1>2 DEF Flush
<1>5. TypeOK'
  BY <1>1, <1>3, <1>4 DEF IInv, TypeOK
<1>6. Before' = Before /\ Before /\ Base' = Base
  BY <1>1, <1>4 DEF IInv, FlushInv, Base, Before
<1>7. DiskInv' /\ LogInv'
  BY <1>1, <1>2, <1>3 DEF IInv, DiskInv, LogInv
<1>8. MemoryInv'
  BY <1>1, <1>3, <1>6 DEF IInv, MemoryInv
<1>9. FlushInv'
  BY <1>1, <1>2, <1>3, <1>4, <1>6 DEF IInv, FlushInv
<1>10. KeptInv' /\ StagedInv' /\ RestoreInv'
  BY <1>1, <1>3, <1>6 DEF IInv, KeptInv, StagedInv, RestoreInv
<1> QED
  BY <1>5, <1>7, <1>8, <1>9, <1>10 DEF IInv

\* Compacting never goes back, nor beyond the op it is asked for, what the
\* store applied and the checkpoint it keeps.
LEMMA CompactedBounds ==
  ASSUME TypeOK, NEW op \in Nat
  PROVE  /\ log_start <= Compacted(op)
         /\ Compacted(op) \in 0 .. MaxOp
         /\ Compacted(op) # log_start =>
              /\ Compacted(op) <= op /\ Compacted(op) <= applied
              /\ kept.is => Compacted(op) <= kept.op
<1> DEFINE S == {op, applied} \union (IF kept.is THEN {kept.op} ELSE {})
<1>1. /\ applied \in 0 .. MaxOp /\ log_start \in 0 .. MaxOp /\ MaxOp \in Nat
      /\ kept.is => kept.op \in 0 .. MaxOp
  BY KeptTyped, StoreAssumption DEF TypeOK
<1>2. S \in SUBSET Nat /\ op \in S /\ applied \in S /\ (kept.is => kept.op \in S)
  BY <1>1
<1> HIDE DEF S
<1>3. Min(S) \in S /\ \A n \in S : Min(S) <= n
  BY <1>2, MinIsLeast
<1>4. Compacted(op) = IF log_start > Min(S) THEN log_start ELSE Min(S)
  BY DEF Compacted, Higher, S
<1>5. PICK m \in Nat : m = Min(S)
  BY <1>2, <1>3
<1>6. m <= op /\ m <= applied /\ (kept.is => m <= kept.op)
  BY <1>2, <1>3, <1>5
<1> QED
  BY <1>1, <1>4, <1>5, <1>6

\* The log is compacted to what the flush made durable, and no further.
LEMMA StoreFlushedInv == IInv /\ StoreFlushed => IInv'
<1> SUFFICES ASSUME IInv, StoreFlushed PROVE IInv'
  OBVIOUS
<1>1. /\ Visible' = Visible /\ Outcomes' = Outcomes
      /\ UNCHANGED <<hist, running, current, applied, dirty, kept, staged, restoring,
                     journal_start, fjall, ran, crashes>>
      /\ running /\ restoring = "no" /\ flushing.out /\ flushing.stage = "done"
      /\ flushing' = NoFlush
      /\ log_start' = Compacted(CompactTo(flushing))
  BY DatabaseUnchanged DEF StoreFlushed, Idle
<1>2. TypeOK /\ flushing.op \in 0 .. MaxOp /\ flushing.op \in Nat
  BY <1>1, FlushTyped DEF IInv
<1>3. CompactTo(flushing) \in Nat /\ CompactTo(flushing) <= flushing.op
  BY <1>2, StoreAssumption DEF CompactTo
<1>4. /\ log_start <= log_start' /\ log_start' \in 0 .. MaxOp
      /\ log_start' # log_start => /\ log_start' <= flushing.op /\ log_start' <= applied
                                   /\ kept.is => log_start' <= kept.op
  <2>1. /\ log_start <= log_start' /\ log_start' \in 0 .. MaxOp
        /\ log_start' # log_start => /\ log_start' <= CompactTo(flushing) /\ log_start' <= applied
                                     /\ kept.is => log_start' <= kept.op
    BY <1>1, <1>2, <1>3, CompactedBounds
  <2> QED
    BY <1>2, <1>3, <2>1
<1>5. TypeOK'
  BY <1>1, <1>4 DEF IInv, TypeOK
<1>6. Before' = Before /\ Before /\ Base' = Base
  BY <1>1 DEF IInv, FlushInv, Base, Before, NoFlush
<1>7. DiskInv'
  BY <1>1 DEF IInv, DiskInv
<1>8. LogInv'
  <2>1. \A db \in Outcomes : flushing.op <= db.applied /\ log_start <= db.applied
    BY <1>1 DEF IInv, FlushInv, LogInv
  <2>2. \A db \in Outcomes : db.applied \in Nat
    BY <1>2, DatabaseTyped DEF Database
  <2>3. /\ journal_start <= log_start /\ log_start <= applied
        /\ journal_start \in Nat /\ log_start \in Nat /\ applied \in Nat /\ log_start' \in Nat
    BY <1>1, <1>4 DEF IInv, TypeOK, LogInv
  <2> QED
    BY <1>1, <1>2, <1>4, <2>1, <2>2, <2>3 DEF LogInv
<1>9. MemoryInv'
  BY <1>1, <1>6 DEF IInv, MemoryInv
<1>10. FlushInv' /\ StagedInv' /\ RestoreInv'
  BY <1>1, <1>6 DEF IInv, FlushInv, StagedInv, RestoreInv, NoFlush
<1>11. KeptInv'
  BY <1>1, <1>4, <1>6 DEF IInv, KeptInv
<1> QED
  BY <1>5, <1>7, <1>8, <1>9, <1>10, <1>11 DEF IInv

\* The journal starts where the log does, which no state a crash leaves is behind.
LEMMA JournalWritesInv == IInv /\ JournalWrites => IInv'
<1> SUFFICES ASSUME IInv, JournalWrites PROVE IInv'
  OBVIOUS
<1>1. /\ Visible' = Visible /\ Outcomes' = Outcomes
      /\ UNCHANGED <<hist, running, current, applied, dirty, flushing, kept, staged, restoring,
                     log_start, fjall, ran, crashes>>
      /\ running /\ journal_start' = log_start
  BY DatabaseUnchanged DEF JournalWrites, Idle, store
<1>2. TypeOK'
  BY <1>1 DEF IInv, TypeOK
<1>3. Before' = Before /\ Base' = Base
  BY <1>1 DEF Base, Before
<1>4. DiskInv' /\ LogInv'
  <2>1. log_start \in Nat
    BY DEF IInv, TypeOK
  <2> QED
    BY <1>1, <2>1 DEF IInv, DiskInv, LogInv
<1>5. MemoryInv' /\ FlushInv' /\ KeptInv' /\ StagedInv' /\ RestoreInv'
  BY <1>1, <1>3 DEF IInv, MemoryInv, FlushInv, KeptInv, StagedInv, RestoreInv
<1> QED
  BY <1>2, <1>4, <1>5 DEF IInv

\* A checkpoint keeps the state the database shows, and its op.
LEMMA CheckpointInv == IInv /\ Checkpoint => IInv'
<1> SUFFICES ASSUME IInv, Checkpoint PROVE IInv'
  OBVIOUS
<1>1. /\ Visible' = Visible /\ Outcomes' = Outcomes
      /\ UNCHANGED <<hist, running, current, applied, dirty, flushing, staged, restoring,
                     log_start, journal_start, fjall, ran, crashes>>
      /\ running /\ restoring = "no"
      /\ kept' = [is |-> TRUE, op |-> Visible.applied, data |-> Visible.data[current]]
  BY DatabaseUnchanged DEF Checkpoint, SnapshotOp, Idle
<1>2. /\ Visible \in Outcomes /\ Visible \in Database /\ Visible.applied \in 0 .. MaxOp
      /\ Visible.data[current] \in [Key -> Nat]
  BY DatabaseTyped DEF IInv, TypeOK, Database
<1>3. Before' = Before /\ Before /\ Base' = Base
  BY <1>1 DEF Base, Before
<1>4. TypeOK'
  <2>1. kept' \in Kept
    BY <1>1, <1>2 DEF Kept
  <2> QED
    BY <1>1, <2>1 DEF IInv, TypeOK
<1>5. KeptInv'
  <2>1. /\ Visible.current = current /\ log_start <= Visible.applied
        /\ Visible.data[current] = StateAsOf(Visible.applied)
    BY <1>1, <1>2, <1>3 DEF IInv, MemoryInv, LogInv, DiskInv
  <2>2. Visible.applied <= applied
    <3>1. Base \in Nat /\ applied \in Nat
      BY <1>2, FlushTyped DEF IInv, Base, TypeOK
    <3> QED
      BY <1>1, <1>2, <1>3, <3>1 DEF IInv, MemoryInv
  <2> QED
    BY <1>1, <1>3, <2>1, <2>2 DEF KeptInv
<1>6. DiskInv' /\ LogInv' /\ MemoryInv' /\ FlushInv' /\ StagedInv' /\ RestoreInv'
  BY <1>1, <1>3 DEF IInv, DiskInv, LogInv, MemoryInv, FlushInv, StagedInv, RestoreInv
<1> QED
  BY <1>4, <1>5, <1>6 DEF IInv

\* A released checkpoint is nobody's.
LEMMA ReleaseCheckpointInv == IInv /\ ReleaseCheckpoint => IInv'
<1> SUFFICES ASSUME IInv, ReleaseCheckpoint PROVE IInv'
  OBVIOUS
<1>1. /\ Visible' = Visible /\ Outcomes' = Outcomes
      /\ UNCHANGED <<hist, running, current, applied, dirty, flushing, staged, restoring,
                     log_start, journal_start, fjall, ran, crashes>>
      /\ kept' = NoneKept
  BY DatabaseUnchanged DEF ReleaseCheckpoint, Idle
<1>2. Before' = Before /\ Base' = Base
  BY <1>1 DEF Base, Before
<1>3. TypeOK'
  BY <1>1 DEF IInv, TypeOK
<1>4. KeptInv'
  <2>1. ~kept'.is
    BY <1>1 DEF NoneKept
  <2> QED
    BY <2>1 DEF KeptInv
<1>5. DiskInv' /\ LogInv' /\ MemoryInv' /\ FlushInv' /\ StagedInv' /\ RestoreInv'
  BY <1>1, <1>2 DEF IInv, DiskInv, LogInv, MemoryInv, FlushInv, StagedInv, RestoreInv
<1> QED
  BY <1>3, <1>4, <1>5 DEF IInv

\* The other keyspace is the other one.
LEMMA OtherKeyspace ==
  ASSUME NEW s \in 0 .. 1
  PROVE  1 - s \in 0 .. 1 /\ 1 - s # s /\ 1 - (1 - s) = s
  OBVIOUS

\* The database with x in the keyspace s.
WithKeyspace(d, s, x) == [d EXCEPT !.data[s] = x]

\* A batch that sets one keyspace leaves the rest of the database.
LEMMA KeyspaceSet ==
  ASSUME NEW d \in Database, NEW s \in 0 .. 1, NEW x \in [Key -> Nat],
         NEW db, db = WithKeyspace(d, s, x)
  PROVE  /\ db \in Database
         /\ db.data[s] = x /\ db.data[1 - s] = d.data[1 - s]
         /\ db.applied = d.applied /\ db.current = d.current
         /\ db.incarnation = d.incarnation
<1>1. 1 - s \in 0 .. 1 /\ s # 1 - s
  BY OtherKeyspace
<1>2. /\ db.data = [d.data EXCEPT ![s] = x]
      /\ db.applied = d.applied /\ db.current = d.current /\ db.incarnation = d.incarnation
      /\ db = [data |-> db.data, applied |-> db.applied, current |-> db.current,
               incarnation |-> db.incarnation]
  BY DEF Database, WithKeyspace
<1>3. /\ d.data \in [0 .. 1 -> [Key -> Nat]] /\ d.current \in 0 .. 1
      /\ d.incarnation \in Nat /\ d.applied \in 0 .. MaxOp
  BY DEF Database
<1>4. db.data \in [0 .. 1 -> [Key -> Nat]]
  BY <1>2, <1>3
<1>5. db \in Database
  BY <1>2, <1>3, <1>4 DEF Database
<1> QED
  BY <1>1, <1>2, <1>3, <1>5

\* A chunk joins those staged, which a restore does not read before it is whole.
LEMMA StageChunkInv ==
  ASSUME IInv, NEW op \in 1 .. MaxOp, NEW index \in Nat, StageChunk(op, index)
  PROVE  IInv'
<1> DEFINE state == StateAsOf(op)
           old == IF index = 0 THEN Empty ELSE Visible.data[1 - current]
           data == Overlaid(old, Chunk(op, index))
           db == [Visible EXCEPT !.data[1 - current] = data]
<1>1. /\ UNCHANGED <<hist, running, current, applied, dirty, flushing, kept, log_start,
                     journal_start, ran, crashes>>
      /\ running /\ restoring = "no" /\ applied < op
      /\ index # 0 => op = staged.op /\ index = staged.next
      /\ staged' = [op |-> op, next |-> index + 1]
      /\ restoring' \in {"no"} \union IF LastChunk(op, index) THEN {"waits"} ELSE {}
      /\ fjall' = Committed(db)
  <2>1. applied \in Nat /\ op \in Nat
    BY StoreAssumption DEF IInv, TypeOK
  <2> QED
    BY <2>1 DEF StageChunk, Idle
<1>2. /\ TypeOK /\ Visible \in Outcomes /\ Visible \in Database /\ Outcomes \subseteq Database
      /\ current \in 0 .. 1 /\ 1 - current \in 0 .. 1 /\ 1 - (1 - current) = current
  BY DatabaseTyped, OtherKeyspace DEF IInv, TypeOK
<1>3. op \in 0 .. MaxOp /\ op # 0 /\ state \in [Key -> Nat]
  <2>1. op \in 0 .. MaxOp /\ op # 0
    BY StoreAssumption
  <2> QED
    BY <2>1, StateTyped
<1>4. Before
  BY <1>1 DEF Before
<1>5. data = Staged(state, index + 1) /\ data \in [Key -> Nat]
  <2>1. old = Staged(state, index)
    <3>1. CASE index = 0
      BY <1>3, <3>1, StagedNext
    <3>2. CASE index # 0
      BY <1>1, <1>3, <1>4, <3>2 DEF IInv, StagedInv
    <3> QED
      BY <3>1, <3>2
  <2>2. Chunk(op, index) = Restrict(state, ChunkKeys(state, index))
    BY DEF Chunk
  <2>3. Overlaid(Staged(state, index), Restrict(state, ChunkKeys(state, index)))
          = Staged(state, index + 1)
    <3> HIDE DEF state
    <3> QED
      BY <1>3, StagedNext
  <2>4. Staged(state, index + 1) \in [Key -> Nat] /\ index + 1 \in Nat
    <3> HIDE DEF state
    <3>1. index + 1 \in Nat
      OBVIOUS
    <3> QED
      BY <1>3, <3>1, StagedNext
  <2> QED
    BY <2>1, <2>2, <2>3, <2>4
<1> HIDE DEF data
<1>6. /\ db \in Database
      /\ db.data[1 - current] = data /\ db.data[current] = Visible.data[current]
      /\ db.applied = Visible.applied /\ db.current = Visible.current
      /\ db.incarnation = Visible.incarnation
  <2>1. db = WithKeyspace(Visible, 1 - current, data)
    BY DEF WithKeyspace
  <2> HIDE DEF db
  <2> QED
    BY <1>2, <1>5, <2>1, KeyspaceSet
<1> HIDE DEF db
<1>7. /\ fjall' \in Seq(Database) /\ Len(fjall') > 0
      /\ Visible' = db
      /\ Outcomes' \subseteq Outcomes \union {db}
  BY <1>1, <1>2, <1>6, AfterCommit
<1>8. TypeOK'
  <2>1. staged' \in [op : 0 .. MaxOp, next : Nat]
    BY <1>1, <1>3
  <2>2. restoring' \in {"no", "waits"}
    BY <1>1
  <2> QED
    BY <1>1, <1>7, <2>1, <2>2 DEF IInv, TypeOK
<1>9. Before' /\ Base' = Base
  BY <1>1, <1>6, <1>7 DEF Before, Base
<1>10. Visible.current = current
  BY <1>1, <1>4 DEF IInv, MemoryInv
<1>11. DiskInv' /\ LogInv'
  <2>1. /\ db.data[db.current] = StateAsOf(db.applied) /\ journal_start <= db.applied
        /\ ran <= db.incarnation /\ log_start <= db.applied
    BY <1>1, <1>2, <1>6, <1>10 DEF IInv, DiskInv, LogInv
  <2> QED
    BY <1>1, <1>7, <2>1 DEF IInv, DiskInv, LogInv
<1>12. MemoryInv' /\ KeptInv' /\ RestoreInv'
  <2>1. MemoryInv'
    BY <1>1, <1>4, <1>6, <1>7, <1>9 DEF IInv, MemoryInv
  <2>2. KeptInv'
    BY <1>1, <1>4, <1>9 DEF IInv, KeptInv
  <2>3. RestoreInv'
    BY <1>9 DEF RestoreInv
  <2> QED
    BY <2>1, <2>2, <2>3
<1>13. FlushInv'
  <2>1. flushing.out /\ flushing.stage = "done" => flushing.op <= db.applied
    BY <1>2, <1>6 DEF IInv, FlushInv
  <2> QED
    BY <1>1, <1>4, <1>6, <1>7, <1>9, <2>1 DEF IInv, FlushInv
<1>14. StagedInv'
  <2>1. staged'.op = op /\ staged'.next = index + 1
    BY <1>1
  <2>2. ASSUME restoring' = "waits" PROVE data = state
    <3>1. ChunkKeys(state, index + 1) = {}
      BY <1>1, <2>2 DEF LastChunk
    <3> HIDE DEF state
    <3> QED
      BY <1>3, <1>5, <3>1, StagedAll
  <2> QED
    BY <1>1, <1>5, <1>6, <1>7, <2>1, <2>2 DEF StagedInv
<1> QED
  BY <1>8, <1>11, <1>12, <1>13, <1>14 DEF IInv

\* The switch makes the staged keyspace the current one.
LEMMA RestoreSwitchesInv == IInv /\ RestoreSwitches => IInv'
<1> SUFFICES ASSUME IInv, RestoreSwitches PROVE IInv'
  OBVIOUS
<1> DEFINE db == [Visible EXCEPT !.current = 1 - current, !.applied = staged.op]
<1>1. /\ UNCHANGED <<hist, running, current, applied, staged, log_start, journal_start, ran,
                     crashes>>
      /\ running /\ restoring = "waits" /\ restoring' = "switched"
      /\ kept' = NoneKept /\ dirty' = NoWrites
      /\ fjall' = Committed(db)
  BY DEF RestoreSwitches
<1>2. flushing' = NoFlush
  BY FlushTyped DEF IInv, RestoreSwitches, FlushFinished
<1>3. /\ TypeOK /\ Visible \in Outcomes /\ Visible \in Database /\ Outcomes \subseteq Database
      /\ current \in 0 .. 1 /\ 1 - current \in 0 .. 1 /\ staged.op \in 0 .. MaxOp
      /\ applied \in Nat /\ log_start \in Nat /\ journal_start \in Nat
  BY DatabaseTyped, OtherKeyspace DEF IInv, TypeOK
<1>4. /\ db \in Database /\ db.data = Visible.data /\ db.current = 1 - current
      /\ db.applied = staged.op /\ db.incarnation = Visible.incarnation
  BY <1>3 DEF Database
<1> HIDE DEF db
<1>5. /\ fjall' \in Seq(Database) /\ Len(fjall') > 0
      /\ Visible' = db
      /\ Outcomes' \subseteq Outcomes \union {db}
  BY <1>1, <1>3, <1>4, AfterCommit
<1>6. /\ applied < staged.op /\ Visible.data[1 - current] = StateAsOf(staged.op)
  BY <1>1 DEF IInv, StagedInv
<1>7. TypeOK'
  BY <1>1, <1>2, <1>5, NoWritesTyped DEF IInv, TypeOK
<1>8. ~Before' /\ ~flushing'.out /\ ~kept'.is
  BY <1>1, <1>2 DEF Before, NoFlush, NoneKept
<1>9. DiskInv' /\ LogInv'
  <2>1. journal_start <= log_start /\ log_start <= applied
    BY <1>1 DEF IInv, LogInv
  <2>2. /\ db.data[db.current] = StateAsOf(db.applied) /\ journal_start <= db.applied
        /\ ran <= db.incarnation /\ log_start <= db.applied
    BY <1>3, <1>4, <1>6, <2>1 DEF IInv, DiskInv
  <2> QED
    BY <1>1, <1>5, <2>2 DEF IInv, DiskInv, LogInv
<1>10. MemoryInv' /\ FlushInv' /\ KeptInv' /\ StagedInv'
  BY <1>1, <1>8 DEF MemoryInv, FlushInv, KeptInv, StagedInv
<1>11. RestoreInv'
  BY <1>1, <1>2, <1>4, <1>5, <1>6 DEF RestoreInv
<1> QED
  BY <1>7, <1>9, <1>10, <1>11 DEF IInv

\* Once synced, the restored state is what a crash leaves.
LEMMA RestoreSyncsInv == IInv /\ RestoreSyncs => IInv'
<1> SUFFICES ASSUME IInv, RestoreSyncs PROVE IInv'
  OBVIOUS
<1>1. /\ UNCHANGED <<hist, running, current, applied, dirty, flushing, kept, staged, log_start,
                     journal_start, ran, crashes>>
      /\ running /\ restoring = "switched" /\ restoring' = "synced"
      /\ fjall' = Synced(Visible)
  BY DEF RestoreSyncs
<1>2. Visible \in Outcomes /\ Visible \in Database
  BY DatabaseTyped DEF IInv
<1>3. /\ fjall' \in Seq(Database) /\ Len(fjall') > 0
      /\ Visible' = Visible /\ Outcomes' = {Visible}
  BY <1>1, <1>2, AfterSync
<1>4. TypeOK'
  BY <1>1, <1>3 DEF IInv, TypeOK
<1>5. ~Before /\ ~Before'
  BY <1>1 DEF Before
<1>6. DiskInv' /\ LogInv'
  BY <1>1, <1>2, <1>3 DEF IInv, DiskInv, LogInv
<1>7. MemoryInv' /\ FlushInv' /\ KeptInv' /\ StagedInv'
  BY <1>1, <1>5 DEF IInv, MemoryInv, FlushInv, KeptInv, StagedInv
<1>8. RestoreInv'
  BY <1>1, <1>3, <1>5 DEF IInv, RestoreInv
<1> QED
  BY <1>4, <1>6, <1>7, <1>8 DEF IInv

\* The keyspace that is no longer current is cleared.
LEMMA RestoreClearsInv == IInv /\ RestoreClears => IInv'
<1> SUFFICES ASSUME IInv, RestoreClears PROVE IInv'
  OBVIOUS
<1> DEFINE db == [Visible EXCEPT !.data[current] = Empty]
<1>1. /\ UNCHANGED <<hist, running, dirty, flushing, kept, journal_start, ran, crashes>>
      /\ running /\ restoring = "synced" /\ restoring' = "no"
      /\ current' = 1 - current /\ applied' = staged.op /\ log_start' = staged.op
      /\ staged' = NotStaged
      /\ fjall' = Committed(db)
  BY DEF RestoreClears
<1>2. /\ TypeOK /\ Visible \in Outcomes /\ Visible \in Database /\ Outcomes \subseteq Database
      /\ current \in 0 .. 1 /\ 1 - current \in 0 .. 1 /\ staged.op \in 0 .. MaxOp
      /\ applied \in Nat /\ log_start \in Nat /\ journal_start \in Nat /\ staged.op \in Nat
  BY DatabaseTyped, OtherKeyspace DEF IInv, TypeOK
<1>3. /\ db \in Database /\ db.data[1 - current] = Visible.data[1 - current]
      /\ db.applied = Visible.applied /\ db.current = Visible.current
      /\ db.incarnation = Visible.incarnation
  <2>1. Empty \in [Key -> Nat]
    BY DEF Empty, Absent
  <2>2. db = WithKeyspace(Visible, current, Empty)
    BY DEF WithKeyspace
  <2> HIDE DEF db
  <2> QED
    BY <1>2, <2>1, <2>2, KeyspaceSet
<1> HIDE DEF db
<1>4. /\ fjall' \in Seq(Database) /\ Len(fjall') > 0
      /\ Visible' = db
      /\ Outcomes' \subseteq Outcomes \union {db}
  BY <1>1, <1>2, <1>3, AfterCommit
<1>5. /\ applied < staged.op /\ flushing = NoFlush /\ kept = NoneKept /\ dirty = NoWrites
      /\ Visible.current = 1 - current /\ Visible.applied = staged.op
      /\ \A o \in Outcomes : o.applied = staged.op
  BY <1>1 DEF IInv, RestoreInv, Before
<1>6. TypeOK'
  <2>1. staged' \in [op : 0 .. MaxOp, next : Nat]
    BY <1>1, StoreAssumption DEF NotStaged
  <2> QED
    BY <1>1, <1>2, <1>4, <2>1 DEF IInv, TypeOK
<1>7. Before' /\ ~flushing'.out /\ ~kept'.is /\ staged'.op = 0
  BY <1>1, <1>5 DEF Before, NoFlush, NoneKept, NotStaged
<1>8. DiskInv' /\ LogInv'
  <2>1. journal_start <= staged.op
    BY <1>1, <1>2, <1>5 DEF IInv, LogInv
  <2>2. /\ db.data[db.current] = StateAsOf(db.applied) /\ journal_start <= db.applied
        /\ ran <= db.incarnation
    BY <1>2, <1>3, <1>5 DEF IInv, DiskInv
  <2>3. DiskInv'
    BY <1>1, <1>4, <2>2 DEF IInv, DiskInv
  <2>4. \A o \in Outcomes' : o.applied = staged.op
    BY <1>3, <1>4, <1>5
  <2> QED
    BY <1>1, <1>2, <2>1, <2>3, <2>4 DEF LogInv
<1>9. MemoryInv'
  <2>1. Base' = staged.op
    BY <1>3, <1>4, <1>5, <1>7 DEF Base
  <2>2. Overlaid(StateAsOf(staged.op), NoWrites) = StateAsOf(staged.op)
    BY <1>2, StateTyped, OverlaidNothing
  <2> QED
    BY <1>1, <1>2, <1>3, <1>4, <1>5, <2>1, <2>2 DEF MemoryInv
<1>10. FlushInv' /\ KeptInv' /\ StagedInv' /\ RestoreInv'
  BY <1>1, <1>7 DEF FlushInv, KeptInv, StagedInv, RestoreInv
<1> QED
  BY <1>6, <1>8, <1>9, <1>10 DEF IInv

\* A crash leaves a prefix of the batches, each of which is a state to start from.
LEMMA CrashInv == IInv /\ Crash => IInv'
<1> SUFFICES ASSUME IInv, Crash PROVE IInv'
  OBVIOUS
<1>1. /\ UNCHANGED <<hist, journal_start, ran>>
      /\ running' = FALSE
      /\ current' = 0 /\ applied' = 0 /\ dirty' = NoWrites /\ flushing' = NoFlush
      /\ kept' = NoneKept /\ staged' = NotStaged /\ restoring' = "no" /\ log_start' = 0
  BY DEF Crash, Blank
<1>2. PICK n \in DOMAIN fjall : fjall' = SubSeq(fjall, 1, n)
  BY DEF Crash
<1>3. /\ fjall' \in Seq(Database) /\ Len(fjall') > 0
      /\ Outcomes' \subseteq Outcomes
  <2>1. fjall \in Seq(Database) /\ n \in 1 .. Len(fjall) /\ n \in Nat
    BY DEF IInv, TypeOK
  <2>2. /\ fjall' \in Seq(Database) /\ Len(fjall') = n
        /\ \A m \in 1 .. n : fjall'[m] = fjall[m]
    BY <1>2, <2>1
  <2> QED
    BY <2>1, <2>2 DEF Outcomes
<1>4. TypeOK'
  <2>1. staged' \in [op : 0 .. MaxOp, next : Nat]
    BY <1>1, StoreAssumption DEF NotStaged
  <2>2. 0 \in 0 .. MaxOp /\ 0 \in 0 .. 1 /\ crashes' \in Nat
    BY StoreAssumption DEF Crash, IInv, TypeOK
  <2> QED
    BY <1>1, <1>3, <2>1, <2>2, NoWritesTyped DEF IInv, TypeOK
<1>5. Before' /\ ~flushing'.out /\ ~kept'.is /\ staged'.op = 0
  BY <1>1 DEF Before, NoFlush, NoneKept, NotStaged
<1>6. DiskInv'
  BY <1>1, <1>3 DEF IInv, DiskInv
<1>7. LogInv' /\ MemoryInv' /\ FlushInv' /\ KeptInv' /\ StagedInv' /\ RestoreInv'
  BY <1>1, <1>5 DEF LogInv, MemoryInv, FlushInv, KeptInv, StagedInv, RestoreInv
<1> QED
  BY <1>4, <1>6, <1>7 DEF IInv

\* A start makes what it found durable, under an incarnation of its own.
LEMMA OpenInv == IInv /\ Open => IInv'
<1> SUFFICES ASSUME IInv, Open PROVE IInv'
  OBVIOUS
<1> DEFINE db == Started(Visible)
<1>1. /\ UNCHANGED <<hist, journal_start, crashes>>
      /\ running' /\ running' \in BOOLEAN
      /\ current' = Visible.current /\ applied' = Visible.applied
      /\ dirty' = NoWrites /\ flushing' = NoFlush /\ kept' = NoneKept
      /\ staged' = NotStaged /\ restoring' = "no"
      /\ log_start' \in {journal_start, Visible.applied}
      /\ fjall' = Synced(db) /\ ran' = Visible.incarnation + 1
  BY DEF Open, Blank, PersistedStart
<1>2. /\ TypeOK /\ Visible \in Outcomes /\ Visible \in Database
      /\ Visible.current \in 0 .. 1 /\ 1 - Visible.current \in 0 .. 1
      /\ 1 - (1 - Visible.current) = Visible.current
      /\ Visible.applied \in 0 .. MaxOp /\ Visible.applied \in Nat /\ Visible.incarnation \in Nat
      /\ journal_start \in Nat
  BY DatabaseTyped, OtherKeyspace DEF IInv, TypeOK, Database
<1>3. /\ db \in Database /\ db.data[Visible.current] = Visible.data[Visible.current]
      /\ db.applied = Visible.applied /\ db.current = Visible.current
      /\ db.incarnation = Visible.incarnation + 1
  <2> DEFINE d == WithKeyspace(Visible, 1 - Visible.current, Empty)
  <2>1. Empty \in [Key -> Nat]
    BY DEF Empty, Absent
  <2>2. /\ d \in Database /\ d.data[Visible.current] = Visible.data[Visible.current]
        /\ d.applied = Visible.applied /\ d.current = Visible.current
        /\ d.incarnation = Visible.incarnation
    BY <1>2, <2>1, KeyspaceSet
  <2>3. db = [d EXCEPT !.incarnation = Visible.incarnation + 1]
    BY <1>2 DEF Started, Database, WithKeyspace
  <2> HIDE DEF d, db
  <2> QED
    BY <1>2, <2>2, <2>3 DEF Database
<1> HIDE DEF db
<1>4. /\ fjall' \in Seq(Database) /\ Len(fjall') > 0
      /\ Visible' = db /\ Outcomes' = {db}
  BY <1>1, <1>3, AfterSync
<1>5. TypeOK'
  <2>1. staged' \in [op : 0 .. MaxOp, next : Nat]
    BY <1>1, StoreAssumption DEF NotStaged
  <2>2. log_start' \in 0 .. MaxOp /\ ran' \in Nat
    BY <1>1, <1>2 DEF TypeOK
  <2> QED
    BY <1>1, <1>2, <1>4, <2>1, <2>2, NoWritesTyped DEF IInv, TypeOK
<1>6. Before' /\ ~flushing'.out /\ ~kept'.is /\ staged'.op = 0
  BY <1>1 DEF Before, NoFlush, NoneKept, NotStaged
<1>7. DiskInv' /\ LogInv'
  <2>1. journal_start <= Visible.applied /\ Visible.data[Visible.current] = StateAsOf(Visible.applied)
    BY <1>2 DEF IInv, DiskInv
  <2> QED
    BY <1>1, <1>2, <1>3, <1>4, <2>1 DEF DiskInv, LogInv
<1>8. MemoryInv'
  <2>1. Base' = Visible.applied
    BY <1>3, <1>4, <1>6 DEF Base
  <2>2. Overlaid(StateAsOf(Visible.applied), NoWrites) = StateAsOf(Visible.applied)
    BY <1>2, StateTyped, OverlaidNothing
  <2> QED
    BY <1>1, <1>2, <1>3, <1>4, <2>1, <2>2 DEF MemoryInv
<1>9. FlushInv' /\ KeptInv' /\ StagedInv' /\ RestoreInv'
  BY <1>1, <1>6 DEF FlushInv, KeptInv, StagedInv, RestoreInv
<1> QED
  BY <1>5, <1>7, <1>8, <1>9 DEF IInv

\* A step that changes nothing.
LEMMA StutterInv == IInv /\ UNCHANGED vars => IInv'
<1> SUFFICES ASSUME IInv, UNCHANGED vars PROVE IInv'
  OBVIOUS
<1>1. /\ Visible' = Visible /\ Outcomes' = Outcomes
      /\ UNCHANGED <<hist, running, current, applied, dirty, flushing, kept, staged, restoring,
                     log_start, journal_start, fjall, ran, crashes>>
  BY DatabaseUnchanged DEF vars, store
<1>2. Before' = Before /\ Base' = Base
  BY <1>1 DEF Base, Before
<1>3. TypeOK' /\ DiskInv' /\ LogInv'
  BY <1>1 DEF IInv, TypeOK, DiskInv, LogInv
<1>4. MemoryInv' /\ FlushInv' /\ KeptInv' /\ StagedInv' /\ RestoreInv'
  BY <1>1, <1>2 DEF IInv, MemoryInv, FlushInv, KeptInv, StagedInv, RestoreInv
<1> QED
  BY <1>3, <1>4 DEF IInv

\* Every step of the node keeps the invariant.
LEMMA NextInv == IInv /\ [Next]_vars => IInv'
<1> SUFFICES ASSUME IInv, [Next]_vars PROVE IInv'
  OBVIOUS
<1>1. CASE Apply
  BY <1>1, ApplyInv
<1>2. CASE StartFlush
  BY <1>2, StartFlushInv
<1>3. CASE FlushWrites
  BY <1>3, FlushWritesInv
<1>4. CASE FlushSyncs
  BY <1>4, FlushSyncsInv
<1>5. CASE StoreFlushed
  BY <1>5, StoreFlushedInv
<1>6. CASE JournalWrites
  BY <1>6, JournalWritesInv
<1>7. CASE Checkpoint
  BY <1>7, CheckpointInv
<1>8. CASE ReleaseCheckpoint
  BY <1>8, ReleaseCheckpointInv
<1>9. CASE \E op \in 1 .. MaxOp, index \in 0 .. Cardinality(Key) - 1 : StageChunk(op, index)
  <2>1. PICK op \in 1 .. MaxOp, index \in 0 .. Cardinality(Key) - 1 : StageChunk(op, index)
    BY <1>9
  <2>2. index \in Nat
    BY StoreAssumption, FS_CardinalityType
  <2> QED
    BY <2>1, <2>2, StageChunkInv
<1>10. CASE RestoreSwitches
  BY <1>10, RestoreSwitchesInv
<1>11. CASE RestoreSyncs
  BY <1>11, RestoreSyncsInv
<1>12. CASE RestoreClears
  BY <1>12, RestoreClearsInv
<1>13. CASE Crash
  BY <1>13, CrashInv
<1>14. CASE Open
  BY <1>14, OpenInv
<1>15. CASE UNCHANGED vars
  BY <1>15, StutterInv
<1> QED
  BY <1>1, <1>2, <1>3, <1>4, <1>5, <1>6, <1>7, <1>8, <1>9, <1>10, <1>11, <1>12, <1>13, <1>14,
     <1>15 DEF Next

\* The invariant holds in every state of the store.
THEOREM Invariance == Spec => []IInv
<1> QED
  BY InitInv, NextInv, PTL DEF Spec

\* A node whose store fell back to what was durable can start.
THEOREM StoreAlwaysOpens == Spec => []StoreOpens
<1>1. IInv => StoreOpens
  <2> SUFFICES ASSUME IInv, NEW db \in Outcomes PROVE db.applied >= journal_start
    BY DEF StoreOpens
  <2>1. db.applied \in Nat /\ journal_start \in Nat
    BY DatabaseTyped DEF IInv, TypeOK, Database
  <2> QED
    BY <2>1 DEF IInv, DiskInv
<1> QED
  BY <1>1, Invariance, PTL

\* A crash leaves the state after a number of ops, and that number with it.
THEOREM CrashLeavesAPrefix == Spec => []CrashIsAPrefix
<1>1. IInv => CrashIsAPrefix
  BY DEF IInv, DiskInv, CrashIsAPrefix
<1> QED
  BY <1>1, Invariance, PTL

\* Reads see every op applied, whatever a flush has moved to the database.
THEOREM ReadsAreCurrent == Spec => []ReadsSeeApplied
<1>1. IInv => ReadsSeeApplied
  <2> SUFFICES ASSUME IInv, Idle PROVE Get = StateAsOf(applied)
    BY DEF ReadsSeeApplied
  <2>1. /\ Visible.current = current
        /\ Overlaid(StateAsOf(Base), dirty) = StateAsOf(applied)
    BY DEF IInv, MemoryInv, Idle, Before
  <2>2. Overlaid(Visible.data[current], flushing.writes) = StateAsOf(Base)
    <3>1. CASE flushing.out
      BY <3>1 DEF IInv, FlushInv, Base
    <3>2. CASE ~flushing.out
      <4>1. flushing.writes = NoWrites /\ Visible \in Outcomes /\ Visible.applied \in 0 .. MaxOp
        BY <3>2, FlushTyped, DatabaseTyped DEF IInv, NoFlush, Database
      <4>2. Visible.data[current] = StateAsOf(Visible.applied)
        BY <2>1, <4>1 DEF IInv, DiskInv
      <4>3. Overlaid(StateAsOf(Visible.applied), NoWrites) = StateAsOf(Visible.applied)
        BY <4>1, StateTyped, OverlaidNothing
      <4> QED
        BY <3>2, <4>1, <4>2, <4>3 DEF Base
    <3> QED
      BY <3>1, <3>2
  <2> QED
    BY <2>1, <2>2 DEF Get
<1> QED
  BY <1>1, Invariance, PTL

\* A checkpoint is the state after its op, and the log reaches back to it.
THEOREM CheckpointsAreStates == Spec => []CheckpointIsTheState
<1>1. IInv => CheckpointIsTheState
  <2> SUFFICES ASSUME IInv, Idle PROVE
        /\ kept.is => kept.data = StateAsOf(kept.op) /\ kept.op \in log_start .. applied
        /\ ~kept.is => Visible.applied \in log_start .. applied
    BY DEF CheckpointIsTheState
  <2>1. log_start \in Nat /\ applied \in Nat /\ Visible.applied \in Nat /\ Visible \in Outcomes
    BY DatabaseTyped DEF IInv, TypeOK, Database
  <2>2. kept.is => kept.data = StateAsOf(kept.op) /\ kept.op \in log_start .. applied
    <3>1. kept.is => kept.op \in Nat
      BY KeptTyped DEF IInv
    <3> QED
      BY <2>1, <3>1 DEF IInv, KeptInv
  <2>3. Visible.applied \in log_start .. applied
    <3>1. Base \in Nat
      BY <2>1, FlushTyped DEF IInv, Base
    <3>2. Visible.applied <= Base /\ Base <= applied /\ log_start <= Visible.applied
      BY <2>1 DEF IInv, MemoryInv, LogInv, Idle, Before
    <3> QED
      BY <2>1, <3>1, <3>2
  <2> QED
    BY <2>2, <2>3
<1> QED
  BY <1>1, Invariance, PTL

\* What a crash leaves remembers the incarnation of the run it ended.
THEOREM IncarnationsAreKept == Spec => []IncarnationsIncrease
<1>1. IInv => IncarnationsIncrease
  <2> SUFFICES ASSUME IInv, NEW db \in Outcomes PROVE db.incarnation >= ran
    BY DEF IncarnationsIncrease
  <2>1. db.incarnation \in Nat /\ ran \in Nat
    BY DatabaseTyped DEF IInv, TypeOK, Database
  <2> QED
    BY <2>1 DEF IInv, DiskInv
<1> QED
  BY <1>1, Invariance, PTL

\* A run has a higher incarnation than every run before it: no client id and no
\* recovery nonce of a node is made twice.
THEOREM IncarnationsAreFresh == Spec => [][ran' # ran => ran' > ran]_vars
<1>1. IInv /\ [Next]_vars => [ran' # ran => ran' > ran]_vars
  <2> SUFFICES ASSUME IInv, Next, ran' # ran PROVE ran' > ran
    OBVIOUS
  <2>1. Open
    BY DEF Next, Apply, StartFlush, FlushWrites, FlushSyncs, StoreFlushed, JournalWrites,
           Checkpoint, ReleaseCheckpoint, StageChunk, RestoreSwitches, RestoreSyncs,
           RestoreClears, Crash
  <2>2. ran' = Visible.incarnation + 1 /\ ran <= Visible.incarnation
    BY <2>1, DatabaseTyped DEF Open, IInv, DiskInv
  <2>3. Visible.incarnation \in Nat /\ ran \in Nat
    BY DatabaseTyped DEF IInv, TypeOK, Database
  <2> QED
    BY <2>2, <2>3
<1> QED
  BY <1>1, Invariance, PTL DEF Spec

=============================================================================
