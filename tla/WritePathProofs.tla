-------------------------- MODULE WritePathProofs --------------------------
(* The write path keeps its promises for every set of entries and every    *)
(* log length: the invariants of WritePath, proved from IInv.              *)
EXTENDS WritePath, TLAPS

USE DEF Lower, Higher, LogOver

\* A new replica with an empty disk satisfies the invariant.
LEMMA InitInv == Init => IInv
<1> SUFFICES ASSUME Init PROVE IInv
  OBVIOUS
<1> USE DEF Init, NoWrite, EmptyDisk, NoEntries
<1>1. TypeOK
  <2>1. 1 .. 0 = {} /\ 0 + 1 .. 0 = {}
    OBVIOUS
  <2>2. NoEntries \in [{} -> Entry]
    BY Zenon
  <2>3. log \in LogOver(log_start, op_number) /\ executed \in [1 .. applied -> Entry]
    BY <2>1, <2>2, Zenon
  <2>4. disk.log \in LogOver(disk.log_start, disk.op_number)
    <3>1. disk.log = NoEntries /\ disk.log_start = 0 /\ disk.op_number = 0
      OBVIOUS
    <3> QED
      BY <2>1, <2>2, <3>1, Zenon
  <2>5. outstanding.entries \in [outstanding.entries_from .. outstanding.op_number -> Entry]
    <3>1. /\ outstanding.entries = NoEntries
          /\ outstanding.entries_from = 1 /\ outstanding.op_number = 0
      OBVIOUS
    <3> QED
      BY <2>1, <2>2, <3>1, Zenon
  <2>6. /\ log_start \in Nat /\ op_number \in Nat /\ commit_number \in Nat
        /\ applied \in Nat /\ durable \in Nat /\ flushed \in Nat
        /\ log_changed_from \in Nat
        /\ disk.log_start \in Nat /\ disk.op_number \in Nat /\ disk.commit_number \in Nat
        /\ outstanding.log_start \in Nat /\ outstanding.op_number \in Nat
        /\ outstanding.commit_number \in Nat /\ outstanding.entries_from \in Nat \ {0}
    OBVIOUS
  <2>7. /\ recovering \in BOOLEAN /\ disk.recovering \in BOOLEAN
        /\ outstanding.out \in BOOLEAN /\ outstanding.sync \in BOOLEAN
        /\ outstanding.recovering \in BOOLEAN
    OBVIOUS
  <2> HIDE DEF Init, NoWrite, EmptyDisk, NoEntries
  <2> QED
    BY <2>3, <2>4, <2>5, <2>6, <2>7 DEF TypeOK
<1>2. CountersOrdered /\ DiskOrdered /\ OutstandingOrdered
  BY DEF CountersOrdered, DiskOrdered, OutstandingOrdered
<1>3. TargetMatches /\ DurableIsOnDisk /\ ExecutedIsLogged /\ ExecutedOnDisk
  BY DEF TargetMatches, Target, DurableIsOnDisk, DurableOp, ExecutedIsLogged, ExecutedOnDisk
<1>4. Explains(disk) /\ Explains(Target)
  BY DEF Explains, Target
<1> QED
  BY <1>1, <1>2, <1>3, <1>4 DEF IInv

\* A narrower stretch of op numbers lies within a wider one.
LEMMA Within ==
  ASSUME NEW x \in Nat, NEW y \in Nat, NEW z \in Nat, NEW w \in Nat, x <= y, z <= w
  PROVE  \A i \in y + 1 .. z : i \in x + 1 .. w
  OBVIOUS

\* A stretch that ends earlier lies within one that ends later.
LEMMA WithinEnd ==
  ASSUME NEW y \in Nat, NEW z \in Nat, NEW w \in Nat, z <= w
  PROVE  \A i \in y + 1 .. z : i \in y + 1 .. w
  OBVIOUS

\* The write that is not there has the types of one that is.
LEMMA NoWriteTyped ==
  /\ NoWrite.out \in BOOLEAN /\ NoWrite.sync \in BOOLEAN
  /\ NoWrite.recovering \in BOOLEAN
  /\ NoWrite.log_start \in Nat /\ NoWrite.op_number \in Nat
  /\ NoWrite.commit_number \in Nat /\ NoWrite.entries_from \in Nat \ {0}
  /\ NoWrite.entries \in [NoWrite.entries_from .. NoWrite.op_number -> Entry]
<1>1. 1 .. 0 = {}
  OBVIOUS
<1>2. NoEntries \in [{} -> Entry]
  BY Zenon DEF NoEntries
<1>3. /\ NoWrite.entries = NoEntries
      /\ NoWrite.entries_from = 1 /\ NoWrite.op_number = 0
  BY DEF NoWrite
<1>4. NoWrite.entries \in [NoWrite.entries_from .. NoWrite.op_number -> Entry]
  BY <1>1, <1>2, <1>3, Zenon
<1>5. /\ NoWrite.out \in BOOLEAN /\ NoWrite.sync \in BOOLEAN
      /\ NoWrite.recovering \in BOOLEAN
      /\ NoWrite.log_start \in Nat /\ NoWrite.op_number \in Nat
      /\ NoWrite.commit_number \in Nat /\ NoWrite.entries_from \in Nat \ {0}
  BY DEF NoWrite
<1> QED
  BY <1>4, <1>5

\* What the disk will hold changes only with the disk and the write.
LEMMA TargetUnchanged == UNCHANGED <<disk, outstanding>> => Target' = Target
  BY DEF Target, Applied

\* durable_op is an op number, at most the watermark.
LEMMA DurableOpType ==
  ASSUME NEW d \in Nat, NEW from \in Nat
  PROVE  /\ DurableOp(d, from) \in Nat
         /\ DurableOp(d, from) <= d
         /\ from # 0 => DurableOp(d, from) < from
  BY DEF DurableOp

\* Executing more ops, and committing more, keeps the disk's explanation.
LEMMA ExplainsKept ==
  ASSUME NEW d, d.log_start \in Nat, d.commit_number \in Nat,
         commit_number \in Nat, commit_number' \in Nat, flushed \in Nat,
         Explains(d), commit_number <= commit_number', flushed' = flushed,
         \A i \in 1 .. flushed : executed'[i] = executed[i]
  PROVE  /\ d.commit_number <= commit_number'
         /\ flushed' <= d.commit_number =>
              \A i \in d.log_start + 1 .. flushed' : d.log[i] = executed'[i]
<1>1. \A i \in d.log_start + 1 .. flushed : i \in 1 .. flushed
  OBVIOUS
<1> QED
  BY <1>1 DEF Explains

\* The disk, and the disk the write that is out will leave, are typed.
LEMMA TargetTyped ==
  ASSUME IInv
  PROVE  /\ disk.log_start \in Nat /\ disk.commit_number \in Nat
         /\ Target.log_start \in Nat /\ Target.commit_number \in Nat
<1>1. ASSUME outstanding.out
      PROVE  /\ Applied(disk, outstanding).log_start \in Nat
             /\ Applied(disk, outstanding).commit_number \in Nat
  BY DEF IInv, TypeOK, Applied
<1> QED
  BY <1>1 DEF IInv, TypeOK, Target

\* What the state machine executed and did not flush is also in what the write
\* that is out leaves on disk.
LEMMA TargetExecuted ==
  ASSUME IInv
  PROVE  \A i \in flushed + 1 .. applied :
           i \in Target.log_start + 1 .. Target.op_number /\ Target.log[i] = executed[i]
<1> TAKE i \in flushed + 1 .. applied
<1>1. i \in log_start + 1 .. applied /\ i \in log_start + 1 .. op_number
  BY DEF IInv, TypeOK, CountersOrdered
<1> QED
  BY <1>1, Zenon DEF IInv, ExecutedIsLogged, TargetMatches

\* The explanation of a disk extends over ops flushed since.
LEMMA ExplainsMore ==
  ASSUME NEW d, d.log_start \in Nat, d.commit_number \in Nat,
         flushed \in Nat, applied \in Nat, Explains(d),
         \A i \in flushed + 1 .. applied : d.log[i] = executed[i],
         NEW k \in flushed .. applied, k <= d.commit_number
  PROVE  \A i \in d.log_start + 1 .. k : d.log[i] = executed[i]
<1> TAKE i \in d.log_start + 1 .. k
<1>1. CASE i <= flushed
  BY <1>1 DEF Explains
<1>2. CASE i > flushed
  BY <1>2
<1> QED
  BY <1>1, <1>2

\* A handler replaces only uncommitted entries and marks what it replaces, so
\* the write that is out still brings the rest to the disk.
LEMMA HandlerInv == IInv /\ Handler => IInv'
<1> SUFFICES ASSUME IInv, Handler PROVE IInv'
  OBVIOUS
<1> PICK keep \in commit_number .. op_number, touched \in BOOLEAN :
    /\ op_number' \in keep .. MaxOp
    /\ ~touched => op_number' = op_number /\ keep = op_number
    /\ log' \in [log_start + 1 .. op_number' -> Entry]
    /\ \A i \in log_start + 1 .. keep : log'[i] = log[i]
    /\ log_changed_from' = IF touched THEN Marked(log_changed_from, keep + 1)
                                      ELSE log_changed_from
    /\ commit_number' \in commit_number .. op_number'
    /\ recovering /\ ~touched => commit_number' = commit_number
    /\ recovering' = (recovering /\ ~touched)
    /\ durable' = durable
    /\ Execute(applied, executed)
    /\ UNCHANGED <<log_start, outstanding, disk, flushed>>
  BY DEF Handler
<1> USE DEF IInv
<1>t. /\ op_number \in Nat /\ commit_number \in Nat /\ log_start \in Nat
      /\ op_number' \in Nat /\ commit_number' \in Nat /\ keep \in Nat
      /\ log_changed_from \in Nat /\ durable \in Nat /\ applied \in Nat /\ flushed \in Nat
      /\ log_changed_from' \in Nat
  BY WritePathAssumption DEF TypeOK, Marked
<1>m. /\ log_changed_from' # 0 => log_changed_from' <= keep + 1 \/ log_changed_from' = log_changed_from
      /\ log_changed_from' = 0 => log_changed_from = 0 /\ ~touched
      /\ log_changed_from # 0 => log_changed_from' # 0 /\ log_changed_from' <= log_changed_from
      /\ touched => log_changed_from' <= keep + 1
      /\ log_changed_from' = log_changed_from \/ log_changed_from' = keep + 1
  BY <1>t DEF Marked
<1>d. /\ DurableOp(durable', log_changed_from') \in Nat
      /\ DurableOp(durable, log_changed_from) \in Nat
      /\ DurableOp(durable', log_changed_from') <= DurableOp(durable, log_changed_from)
      /\ touched => DurableOp(durable', log_changed_from') <= keep
  BY <1>t, <1>m DEF DurableOp
<1>e. /\ applied' \in Nat /\ applied <= applied'
      /\ applied' <= commit_number'
      /\ applied' > applied => applied' <= DurableOp(durable', log_changed_from')
      /\ executed' = [i \in 1 .. applied' |-> IF i <= applied THEN executed[i] ELSE log'[i]]
  BY <1>t, <1>d DEF Execute, CountersOrdered
<1>1. TypeOK'
  <2>1. executed' \in [1 .. applied' -> Entry]
    <3>1. \A i \in 1 .. applied : executed[i] \in Entry
      BY DEF TypeOK
    <3>2. \A i \in log_start + 1 .. op_number' : log'[i] \in Entry
      BY Zenon
    <3>3. \A i \in applied + 1 .. applied' : i \in log_start + 1 .. op_number'
      BY <1>t, <1>e DEF CountersOrdered
    <3>4. \A i \in 1 .. applied' : (IF i <= applied THEN executed[i] ELSE log'[i]) \in Entry
      <4> TAKE i \in 1 .. applied'
      <4>1. CASE i <= applied
        BY <1>t, <1>e, <3>1, <4>1
      <4>2. CASE ~(i <= applied)
        <5>1. i \in applied + 1 .. applied'
          BY <1>t, <1>e, <4>2
        <5> QED
          BY <3>2, <3>3, <4>2, <5>1, Zenon
      <4> QED
        BY <4>1, <4>2
    <3> QED
      BY <1>e, <3>4, Zenon
  <2>2. recovering' \in BOOLEAN
    BY DEF TypeOK
  <2> QED
    BY <1>t, <1>e, <2>1, <2>2 DEF TypeOK
<1>2. CountersOrdered'
  BY <1>t, <1>e DEF CountersOrdered
<1>3. DiskOrdered' /\ OutstandingOrdered'
  BY <1>t, <1>m DEF DiskOrdered, OutstandingOrdered, WriteFits
<1>4. TargetMatches'
  <2>1. Target' = Target
    BY TargetUnchanged
  <2> QED
    BY <1>t, <1>m, <1>d, <2>1 DEF TargetMatches, Unchanged
<1>5. DurableIsOnDisk'
  <2> SUFFICES ASSUME NEW i \in log_start + 1 .. DurableOp(durable', log_changed_from')
               PROVE  i \in disk.log_start + 1 .. disk.op_number /\ disk.log[i] = log'[i]
    BY DEF DurableIsOnDisk
  <2>1. i \in log_start + 1 .. keep
    BY <1>t, <1>d DEF TargetMatches
  <2>2. i \in log_start + 1 .. DurableOp(durable, log_changed_from)
    BY <1>t, <1>d
  <2> QED
    BY <2>1, <2>2, Zenon DEF DurableIsOnDisk
<1>6. ExecutedIsLogged'
  <2> SUFFICES ASSUME NEW i \in log_start + 1 .. applied'
               PROVE  /\ executed'[i] = log'[i]
                      /\ log_changed_from' = 0 \/ i < log_changed_from'
    BY DEF ExecutedIsLogged, Unchanged
  <2>1. CASE i <= applied
    BY <1>t, <1>e, <1>m, <2>1 DEF ExecutedIsLogged, CountersOrdered, Unchanged
  <2>2. CASE i > applied
    <3>1. i <= DurableOp(durable', log_changed_from')
      BY <1>t, <1>e, <1>d, <2>2
    <3> QED
      BY <1>t, <1>e, <1>d, <2>2, <3>1 DEF DurableOp
  <2> QED
    BY <1>t, <1>e, <2>1, <2>2
<1>7. ExecutedOnDisk'
  <2> SUFFICES ASSUME NEW i \in flushed + 1 .. applied'
               PROVE  i \in disk.log_start + 1 .. disk.op_number /\ disk.log[i] = executed'[i]
    BY DEF ExecutedOnDisk
  <2>1. CASE i <= applied
    BY <1>t, <1>e, <2>1 DEF ExecutedOnDisk
  <2>2. CASE i > applied
    <3>1. i \in log_start + 1 .. DurableOp(durable', log_changed_from')
      BY <1>t, <1>e, <1>d, <2>2 DEF CountersOrdered
    <3> QED
      BY <1>t, <1>e, <1>5, <2>2, <3>1 DEF DurableIsOnDisk
  <2> QED
    BY <1>t, <1>e, <2>1, <2>2
<1>8. Explains(disk)' /\ Explains(Target)'
  <2>1. \A i \in 1 .. flushed : executed'[i] = executed[i]
    BY <1>t, <1>e DEF CountersOrdered
  <2>2. Target' = Target
    BY TargetUnchanged
  <2>3. commit_number <= commit_number' /\ flushed' = flushed /\ disk' = disk
    BY <1>t
  <2>4. Explains(disk) => Explains(disk)'
    BY <1>t, <2>1, <2>3, TargetTyped, ExplainsKept, Zenon DEF Explains
  <2>5. Explains(Target) => Explains(Target)'
    BY <1>t, <2>1, <2>2, <2>3, TargetTyped, ExplainsKept, Zenon DEF Explains
  <2> QED
    BY <2>4, <2>5
<1> QED
  BY <1>1, <1>2, <1>3, <1>4, <1>5, <1>6, <1>7, <1>8

\* restore_checkpoint moves the log start to ops the state machine made
\* durable, and marks everything after it.
LEMMA RestoreInv == IInv /\ RestoreCheckpoint => IInv'
<1> SUFFICES ASSUME IInv, RestoreCheckpoint PROVE IInv'
  OBVIOUS
<1> PICK op \in commit_number + 1 .. MaxOp :
    /\ log_start' = op
    /\ flushed' = op
    /\ op_number' \in op .. MaxOp
    /\ log' \in [op + 1 .. op_number' -> Entry]
    /\ log_changed_from' = Marked(log_changed_from, op + 1)
    /\ commit_number' \in op .. op_number'
    /\ recovering' = FALSE
    /\ durable' = durable
    /\ \E state \in [1 .. op -> Entry] : Execute(op, state)
    /\ UNCHANGED <<outstanding, disk>>
  BY DEF RestoreCheckpoint
<1> PICK state \in [1 .. op -> Entry] : Execute(op, state)
  OBVIOUS
<1> USE DEF IInv
<1>t. /\ op_number \in Nat /\ commit_number \in Nat /\ log_start \in Nat /\ op \in Nat
      /\ op_number' \in Nat /\ commit_number' \in Nat
      /\ log_changed_from \in Nat /\ durable \in Nat /\ applied \in Nat /\ flushed \in Nat
      /\ log_changed_from' \in Nat /\ log_changed_from' # 0 /\ log_changed_from' <= op + 1
  BY WritePathAssumption DEF TypeOK, Marked
<1>d. /\ DurableOp(durable', log_changed_from') \in Nat
      /\ DurableOp(durable', log_changed_from') <= op
  BY <1>t DEF DurableOp
<1>e. applied' = op /\ executed' = state
  <2>1. applied' = op
    BY <1>t, <1>d DEF Execute
  <2>2. executed' = [i \in 1 .. op |-> IF i <= op THEN state[i] ELSE log'[i]]
    BY <2>1, Zenon DEF Execute
  <2>3. \A i \in 1 .. op : (IF i <= op THEN state[i] ELSE log'[i]) = state[i]
    BY <1>t
  <2>4. state = [i \in 1 .. op |-> state[i]]
    BY Zenon
  <2>5. [i \in 1 .. op |-> IF i <= op THEN state[i] ELSE log'[i]] = [i \in 1 .. op |-> state[i]]
    BY <2>3, Zenon
  <2> QED
    BY <2>1, <2>2, <2>4, <2>5, Zenon
<1>1. TypeOK'
  BY <1>t, <1>e DEF TypeOK
<1>2. CountersOrdered'
  BY <1>t, <1>e DEF CountersOrdered
<1>3. DiskOrdered' /\ OutstandingOrdered'
  BY <1>t DEF DiskOrdered, OutstandingOrdered, WriteFits, CountersOrdered, TypeOK
<1>4. TargetMatches'
  BY <1>t, <1>d DEF TargetMatches, Unchanged
<1>5. DurableIsOnDisk' /\ ExecutedIsLogged' /\ ExecutedOnDisk'
  BY <1>t, <1>d, <1>e DEF DurableIsOnDisk, ExecutedIsLogged, ExecutedOnDisk
<1>6. Explains(disk)' /\ Explains(Target)'
  <2>1. Target' = Target
    BY TargetUnchanged
  <2>2. /\ disk.commit_number \in Nat /\ disk.commit_number <= commit_number
        /\ Target.commit_number \in Nat /\ Target.commit_number <= commit_number
    BY TargetTyped DEF Explains
  <2> HIDE DEF IInv
  <2>3. commit_number < op /\ op <= commit_number' /\ flushed' = op /\ disk' = disk
    BY <1>t
  <2> QED
    BY <1>t, <2>1, <2>2, <2>3 DEF Explains
<1> QED
  BY <1>1, <1>2, <1>3, <1>4, <1>5, <1>6

\* A flush only moves what the disk need not explain any more.
LEMMA FlushInv == IInv /\ Flush => IInv'
<1> SUFFICES ASSUME IInv, Flush PROVE IInv'
  OBVIOUS
<1> USE DEF IInv, Flush
<1>1. TypeOK'
  BY DEF TypeOK
<1>2. CountersOrdered' /\ DiskOrdered' /\ OutstandingOrdered'
  BY DEF TypeOK, CountersOrdered, DiskOrdered, OutstandingOrdered, WriteFits
<1>3. TargetMatches' /\ DurableIsOnDisk' /\ ExecutedIsLogged'
  <2>1. Target' = Target
    BY TargetUnchanged
  <2> QED
    BY <2>1 DEF TargetMatches, Unchanged, DurableIsOnDisk, ExecutedIsLogged
<1>4. ExecutedOnDisk'
  <2>1. flushed \in Nat /\ flushed' \in Nat /\ applied \in Nat /\ flushed <= flushed' /\ applied <= applied
    BY DEF TypeOK
  <2>2. \A i \in flushed' + 1 .. applied : i \in flushed + 1 .. applied
    BY <2>1, Within, Zenon
  <2> QED
    BY <2>2, Zenon DEF ExecutedOnDisk
<1>5. Explains(disk)' /\ Explains(Target)'
  <2>1. Target' = Target /\ disk' = disk
    BY TargetUnchanged
  <2>2. /\ flushed \in Nat /\ applied \in Nat /\ flushed' \in flushed .. applied
        /\ executed' = executed /\ commit_number' = commit_number
    BY DEF TypeOK
  <2>3. flushed' <= disk.commit_number =>
          \A i \in disk.log_start + 1 .. flushed' : disk.log[i] = executed[i]
    BY <2>2, TargetTyped, ExplainsMore, Zenon DEF ExecutedOnDisk
  <2>4. flushed' <= Target.commit_number =>
          \A i \in Target.log_start + 1 .. flushed' : Target.log[i] = executed[i]
    BY <2>2, TargetTyped, TargetExecuted, ExplainsMore, Zenon
  <2> QED
    BY <2>1, <2>2, <2>3, <2>4 DEF Explains
<1> QED
  BY <1>1, <1>2, <1>3, <1>4, <1>5

\* compact drops entries the state machine has made durable.
LEMMA CompactInv == IInv /\ Compact => IInv'
<1> SUFFICES ASSUME IInv, Compact PROVE IInv'
  OBVIOUS
<1> USE DEF IInv
<1>t. /\ log_start \in Nat /\ log_start' \in Nat /\ log_start <= log_start'
      /\ log_start' <= flushed /\ log_start' <= applied
      /\ op_number \in Nat /\ applied \in Nat /\ flushed \in Nat
      /\ op_number <= op_number /\ log_start' <= log_start' /\ applied <= applied
      /\ applied <= op_number
  BY DEF TypeOK, Compact, CountersOrdered
<1>u. UNCHANGED <<op_number, log_changed_from, durable, commit_number, applied,
                  executed, recovering, outstanding, disk, flushed>>
  BY DEF Compact
<1>s. \A i \in log_start' + 1 .. op_number : i \in log_start + 1 .. op_number
  BY <1>t, Within, Zenon
<1>l. /\ log' \in [log_start' + 1 .. op_number -> Entry]
      /\ \A i \in log_start' + 1 .. op_number : log'[i] = log[i]
  <2>1. log \in [log_start + 1 .. op_number -> Entry]
    BY DEF TypeOK
  <2>2. log' = [i \in log_start' + 1 .. op_number |-> log[i]]
    BY DEF Compact
  <2> QED
    BY <1>s, <2>1, <2>2, Zenon
<1>1. TypeOK'
  BY <1>t, <1>u, <1>l DEF TypeOK
<1>2. CountersOrdered' /\ DiskOrdered' /\ OutstandingOrdered'
  BY <1>t, <1>u DEF TypeOK, CountersOrdered, DiskOrdered, OutstandingOrdered, WriteFits
<1>3. TargetMatches'
  <2>1. Target' = Target
    BY <1>u, TargetUnchanged
  <2> QED
    BY <1>s, <1>l, <1>u, <2>1 DEF TargetMatches, Unchanged
<1>4. DurableIsOnDisk'
  <2>1. /\ DurableOp(durable, log_changed_from) \in Nat
        /\ DurableOp(durable, log_changed_from) <= op_number
        /\ DurableOp(durable, log_changed_from) <= DurableOp(durable, log_changed_from)
    <3>1. durable \in Nat /\ log_changed_from \in Nat
      BY DEF TypeOK
    <3>2. DurableOp(durable, log_changed_from) \in Nat
      BY <3>1, DurableOpType, Zenon
    <3>3. DurableOp(durable, log_changed_from) <= op_number
      BY Zenon DEF TargetMatches
    <3> QED
      BY <3>2, <3>3
  <2>2. \A i \in log_start' + 1 .. DurableOp(durable, log_changed_from) :
          i \in log_start + 1 .. DurableOp(durable, log_changed_from)
    BY <1>t, <2>1, Within, Zenon
  <2>3. \A i \in log_start' + 1 .. DurableOp(durable, log_changed_from) :
          i \in log_start' + 1 .. op_number
    BY <1>t, <2>1, WithinEnd, Zenon
  <2> QED
    BY <1>l, <1>u, <2>2, <2>3, Zenon DEF DurableIsOnDisk
<1>6. Explains(disk)' /\ Explains(Target)'
  <2>1. Target' = Target
    BY <1>u, TargetUnchanged
  <2> QED
    BY <1>u, <2>1, Zenon DEF Explains
<1>5. ExecutedIsLogged' /\ ExecutedOnDisk'
  <2>1. \A i \in log_start' + 1 .. applied :
          i \in log_start + 1 .. applied /\ i \in log_start' + 1 .. op_number
    BY <1>t, Within, Zenon
  <2> QED
    BY <1>l, <1>u, <2>1, Zenon DEF ExecutedIsLogged, ExecutedOnDisk, Unchanged
<1> QED
  BY <1>1, <1>2, <1>3, <1>4, <1>5, <1>6

\* A write taken brings to the disk every entry that changed; the ones before
\* it are there already.
LEMMA TakeWriteInv == IInv /\ TakeWrite => IInv'
<1> SUFFICES ASSUME IInv, TakeWrite PROVE IInv'
  OBVIOUS
<1> USE DEF IInv
<1> DEFINE from == IF log_changed_from = 0 THEN op_number + 1
                   ELSE Higher(log_changed_from, log_start + 1)
<1>p. PICK sync \in BOOLEAN :
      /\ (\/ log_changed_from # 0
          \/ disk.log_start # log_start
          \/ disk.recovering # recovering) => sync
      /\ outstanding' = [out |-> TRUE, log_start |-> log_start,
                         entries_from |-> from, op_number |-> op_number,
                         entries |-> [i \in from .. op_number |-> log[i]],
                         commit_number |-> commit_number,
                         recovering |-> recovering, sync |-> sync]
  BY Zenon DEF TakeWrite
<1>q. PICK w : w = outstanding'
  OBVIOUS
<1>u. /\ ~outstanding.out
      /\ durable' = DurableOp(durable, log_changed_from)
      /\ log_changed_from' = 0
      /\ UNCHANGED <<log_start, op_number, log, commit_number, applied, executed,
                     recovering, disk, flushed>>
  BY DEF TakeWrite
<1>t. /\ op_number \in Nat /\ commit_number \in Nat /\ log_start \in Nat
      /\ log_changed_from \in Nat /\ durable \in Nat /\ applied \in Nat /\ flushed \in Nat
      /\ disk.log_start \in Nat /\ disk.op_number \in Nat /\ recovering \in BOOLEAN
      /\ log_start <= op_number
  BY DEF TypeOK, CountersOrdered
<1>f. /\ from \in Nat \ {0} /\ log_start < from /\ from <= op_number + 1
      /\ log_changed_from # 0 => log_changed_from <= from
      /\ log_changed_from = 0 => from = op_number + 1
      /\ log_changed_from # 0 /\ log_start < log_changed_from => log_changed_from = from
      /\ log_changed_from # 0 /\ log_start >= log_changed_from => from = log_start + 1
  BY <1>t DEF TargetMatches
<1> HIDE DEF from
<1>w. /\ w.out = TRUE /\ w.log_start = log_start /\ w.entries_from = from
      /\ w.op_number = op_number /\ w.commit_number = commit_number
      /\ w.recovering = recovering /\ w.sync = sync
      /\ w.entries = [i \in from .. op_number |-> log[i]]
  BY <1>p, <1>q, Zenon
<1>d. /\ DurableOp(durable, log_changed_from) \in Nat
      /\ DurableOp(durable, log_changed_from) <= op_number
      /\ DurableOp(durable, log_changed_from) < from
      /\ DurableOp(DurableOp(durable, log_changed_from), 0) = DurableOp(durable, log_changed_from)
  <2>1. DurableOp(DurableOp(durable, log_changed_from), 0) = DurableOp(durable, log_changed_from)
    BY DEF DurableOp
  <2>2. /\ DurableOp(durable, log_changed_from) \in Nat
        /\ DurableOp(durable, log_changed_from) <= op_number
        /\ log_changed_from # 0 => DurableOp(durable, log_changed_from) < log_changed_from
    BY <1>t, DurableOpType DEF TargetMatches
  <2> QED
    BY <1>t, <1>f, <2>1, <2>2
<1>e. w.entries \in [from .. op_number -> Entry]
  <2>1. \A i \in from .. op_number : i \in log_start + 1 .. op_number
    BY <1>t, <1>f
  <2>2. log \in [log_start + 1 .. op_number -> Entry]
    BY DEF TypeOK
  <2> QED
    BY <1>w, <2>1, <2>2, Zenon
<1>m. \A i \in log_start + 1 .. op_number : i < from =>
         i \in disk.log_start + 1 .. disk.op_number /\ disk.log[i] = log[i]
  BY <1>t, <1>f, <1>u DEF TargetMatches, Target, Unchanged
<1>1. TypeOK'
  BY <1>q, <1>t, <1>f, <1>w, <1>d, <1>u, <1>e DEF TypeOK
<1>2. CountersOrdered' /\ DiskOrdered'
  BY <1>u DEF CountersOrdered, DiskOrdered
<1>3. OutstandingOrdered'
  <2>1. WriteFits(disk, w)
    <3>1. from - 1 = log_start \/ from - 1 \in log_start + 1 .. op_number
      BY <1>t, <1>f
    <3>2. from - 1 \in log_start + 1 .. op_number => from - 1 <= disk.op_number
      BY <1>t, <1>f, <1>m
    <3> QED
      BY <1>t, <1>f, <1>w, <3>1, <3>2 DEF WriteFits, DiskOrdered
  <2>2. ~w.sync => /\ w.log_start = disk.log_start
                   /\ w.entries_from = w.op_number + 1
                   /\ w.op_number = disk.op_number
                   /\ w.recovering = disk.recovering
    <3> SUFFICES ASSUME ~w.sync PROVE /\ w.log_start = disk.log_start
                                      /\ w.entries_from = w.op_number + 1
                                      /\ w.op_number = disk.op_number
                                      /\ w.recovering = disk.recovering
      OBVIOUS
    <3>1. log_changed_from = 0 /\ disk.log_start = log_start /\ disk.recovering = recovering
      BY <1>p, <1>w
    <3>2. op_number \in log_start + 1 .. op_number => op_number <= disk.op_number
      BY <1>t, <1>f, <1>m, <3>1
    <3>3. disk.op_number <= op_number
      BY <1>u, <3>1 DEF TargetMatches, Target
    <3> QED
      BY <1>t, <1>f, <1>w, <3>1, <3>2, <3>3 DEF DiskOrdered
  <2> QED
    BY <1>q, <1>t, <1>f, <1>w, <1>d, <1>u, <2>1, <2>2
    DEF OutstandingOrdered, DiskOrdered, CountersOrdered
<1>4. /\ Target' = Applied(disk, w)
      /\ Applied(disk, w).log_start = log_start /\ Applied(disk, w).op_number = op_number
      /\ Applied(disk, w).commit_number = commit_number
      /\ \A i \in log_start + 1 .. op_number : Applied(disk, w).log[i] = log[i]
  <2>1. Target' = Applied(disk, w)
    BY <1>q, <1>w, <1>u DEF Target
  <2>2. /\ Applied(disk, w).log_start = log_start
        /\ Applied(disk, w).op_number = op_number
        /\ Applied(disk, w).commit_number = commit_number
        /\ Applied(disk, w).log = [i \in log_start + 1 .. op_number |->
                                     IF i < from THEN disk.log[i] ELSE w.entries[i]]
    <3>1. Higher(disk.log_start, w.log_start) = log_start
      BY <1>t, <1>w DEF DiskOrdered
    <3> HIDE DEF Higher
    <3>2. Applied(disk, w) =
            [log_start |-> log_start, op_number |-> op_number,
             log |-> [i \in log_start + 1 .. op_number |->
                        IF i < from THEN disk.log[i] ELSE w.entries[i]],
             commit_number |-> commit_number, recovering |-> recovering]
      BY <1>w, <3>1, Zenon DEF Applied
    <3> QED
      BY <3>2
  <2>3. \A i \in log_start + 1 .. op_number : Applied(disk, w).log[i] = log[i]
    <3> TAKE i \in log_start + 1 .. op_number
    <3>1. CASE i < from
      BY <1>m, <2>2, <3>1
    <3>2. CASE ~(i < from)
      <4>1. i \in from .. op_number
        BY <1>t, <1>f, <3>2
      <4>2. w.entries[i] = log[i]
        BY <1>w, <4>1, Zenon
      <4> QED
        BY <2>2, <3>2, <4>2, Zenon
    <3> QED
      BY <3>1, <3>2
  <2> QED
    BY <2>1, <2>2, <2>3
<1>7. TargetMatches'
  <2>4. durable' = DurableOp(durable, log_changed_from) /\ log_changed_from' = 0
    BY <1>u
  <2>5. DurableOp(durable', log_changed_from') <= op_number
    BY <1>d, <2>4, Zenon
  <2>6. op_number <= op_number /\ 0 <= op_number + 1
    BY <1>t
  <2> QED
    BY <1>u, <1>4, <2>4, <2>5, <2>6, Zenon DEF TargetMatches, Unchanged
<1>5. DurableIsOnDisk'
  BY <1>u, <1>d DEF DurableIsOnDisk
<1>6. ExecutedIsLogged' /\ ExecutedOnDisk'
  BY <1>u DEF ExecutedIsLogged, ExecutedOnDisk, Unchanged
<1>8. Explains(disk)'
  BY <1>u, Zenon DEF Explains
<1>9. Explains(Target)'
  <2>1. \A i \in log_start + 1 .. flushed :
          i \in log_start + 1 .. op_number /\ i \in log_start + 1 .. applied
    BY <1>t DEF CountersOrdered
  <2>2. \A i \in log_start + 1 .. flushed : Applied(disk, w).log[i] = executed[i]
    BY <1>4, <2>1, Zenon DEF ExecutedIsLogged
  <2>3. commit_number <= commit_number
    BY <1>t
  <2> QED
    BY <1>u, <1>4, <2>2, <2>3, Zenon DEF Explains
<1> QED
  BY <1>1, <1>2, <1>3, <1>5, <1>6, <1>7, <1>8, <1>9

\* A replica that lost its disk starts from nothing, and its disk says so.
LEMMA LoseDiskInv == IInv /\ LoseDisk => IInv'
<1> SUFFICES ASSUME LoseDisk PROVE IInv'
  OBVIOUS
<1> USE DEF LoseDisk, NoWrite, EmptyDisk, NoEntries
<1>1. TypeOK'
  <2>1. 1 .. 0 = {} /\ 0 + 1 .. 0 = {}
    OBVIOUS
  <2>2. NoEntries \in [{} -> Entry]
    BY Zenon
  <2>3. (log \in LogOver(log_start, op_number))' /\ (executed \in [1 .. applied -> Entry])'
    BY <2>1, <2>2, Zenon
  <2>4. (disk.log \in LogOver(disk.log_start, disk.op_number))'
    <3>1. disk'.log = NoEntries /\ disk'.log_start = 0 /\ disk'.op_number = 0
      OBVIOUS
    <3> QED
      BY <2>1, <2>2, <3>1, Zenon
  <2>5. (outstanding.entries \in [outstanding.entries_from .. outstanding.op_number -> Entry])'
    <3>1. /\ outstanding'.entries = NoEntries
          /\ outstanding'.entries_from = 1 /\ outstanding'.op_number = 0
      OBVIOUS
    <3> QED
      BY <2>1, <2>2, <3>1, Zenon
  <2>6. (/\ log_start \in Nat /\ op_number \in Nat /\ commit_number \in Nat
         /\ applied \in Nat /\ durable \in Nat /\ flushed \in Nat
         /\ log_changed_from \in Nat
         /\ disk.log_start \in Nat /\ disk.op_number \in Nat /\ disk.commit_number \in Nat
         /\ outstanding.log_start \in Nat /\ outstanding.op_number \in Nat
         /\ outstanding.commit_number \in Nat /\ outstanding.entries_from \in Nat \ {0})'
    OBVIOUS
  <2>7. (/\ recovering \in BOOLEAN /\ disk.recovering \in BOOLEAN
         /\ outstanding.out \in BOOLEAN /\ outstanding.sync \in BOOLEAN
         /\ outstanding.recovering \in BOOLEAN)'
    OBVIOUS
  <2> HIDE DEF LoseDisk, NoWrite, EmptyDisk, NoEntries
  <2> QED
    BY <2>3, <2>4, <2>5, <2>6, <2>7 DEF TypeOK
<1>2. CountersOrdered' /\ DiskOrdered' /\ OutstandingOrdered'
  BY DEF CountersOrdered, DiskOrdered, OutstandingOrdered
<1>3. TargetMatches' /\ DurableIsOnDisk' /\ ExecutedIsLogged' /\ ExecutedOnDisk'
  BY DEF TargetMatches, Target, DurableIsOnDisk, DurableOp, ExecutedIsLogged, ExecutedOnDisk
<1>4. Explains(disk)' /\ Explains(Target)'
  BY DEF Explains, Target
<1> QED
  BY <1>1, <1>2, <1>3, <1>4 DEF IInv

\* What a restart needs of the disk a crash leaves.
Survives(d) ==
  /\ d.log_start \in Nat /\ d.op_number \in Nat /\ d.commit_number \in Nat
  /\ d.recovering \in BOOLEAN
  /\ d.log \in LogOver(d.log_start, d.op_number)
  /\ d.log_start <= log_start /\ d.log_start <= d.op_number
  /\ d.commit_number <= d.op_number
  /\ d.recovering => d.op_number = d.log_start
  /\ \A i \in flushed + 1 .. applied :
       i \in d.log_start + 1 .. d.op_number /\ d.log[i] = executed[i]
  /\ Explains(d)

\* The disk as it is can be restarted from.
LEMMA DiskSurvives == IInv => Survives(disk)
  BY Zenon DEF IInv, TypeOK, DiskOrdered, ExecutedOnDisk, Survives

\* What PersistentState::apply leaves of the write that is out.
LEMMA AppliedFacts ==
  ASSUME IInv, outstanding.out
  PROVE  LET d == Applied(disk, outstanding) IN
         /\ d.log_start = outstanding.log_start
         /\ d.op_number = outstanding.op_number
         /\ d.commit_number = outstanding.commit_number
         /\ d.recovering = outstanding.recovering
         /\ d.log \in [outstanding.log_start + 1 .. outstanding.op_number -> Entry]
         /\ \A i \in outstanding.log_start + 1 .. outstanding.op_number :
              i < outstanding.entries_from => d.log[i] = disk.log[i]
<1> DEFINE lo == outstanding.log_start
           hi == outstanding.op_number
           ef == outstanding.entries_from
<1>t. /\ lo \in Nat /\ hi \in Nat /\ ef \in Nat /\ lo < ef /\ ef <= hi + 1
      /\ disk.log_start \in Nat /\ disk.op_number \in Nat /\ disk.log_start <= lo
      /\ ef <= disk.op_number + 1 \/ ef <= lo + 1
  BY DEF IInv, TypeOK, OutstandingOrdered, WriteFits
<1>1. Higher(disk.log_start, lo) = lo
  BY <1>t
<1>2. \A i \in lo + 1 .. hi : i < ef => i \in disk.log_start + 1 .. disk.op_number
  BY <1>t
<1>3. \A i \in lo + 1 .. hi : ~(i < ef) => i \in ef .. hi
  BY <1>t
<1>4. /\ disk.log \in [disk.log_start + 1 .. disk.op_number -> Entry]
      /\ outstanding.entries \in [ef .. hi -> Entry]
  BY DEF IInv, TypeOK
<1> HIDE DEF lo, hi, ef
<1>5. \A i \in lo + 1 .. hi :
         (IF i < ef THEN disk.log[i] ELSE outstanding.entries[i]) \in Entry
  <2> TAKE i \in lo + 1 .. hi
  <2>1. CASE i < ef
    BY <1>2, <1>4, <2>1, Zenon
  <2>2. CASE ~(i < ef)
    BY <1>3, <1>4, <2>2, Zenon
  <2> QED
    BY <2>1, <2>2
<1>6. /\ Applied(disk, outstanding).log_start = lo
      /\ Applied(disk, outstanding).op_number = hi
      /\ Applied(disk, outstanding).commit_number = outstanding.commit_number
      /\ Applied(disk, outstanding).recovering = outstanding.recovering
      /\ Applied(disk, outstanding).log =
           [i \in lo + 1 .. hi |-> IF i < ef THEN disk.log[i] ELSE outstanding.entries[i]]
  <2> HIDE DEF Higher
  <2>1. Higher(disk.log_start, outstanding.log_start) = lo
    BY <1>1, Zenon DEF lo
  <2>2. Applied(disk, outstanding) =
          [log_start |-> lo, op_number |-> hi,
           log |-> [i \in lo + 1 .. hi |->
                      IF i < ef THEN disk.log[i] ELSE outstanding.entries[i]],
           commit_number |-> outstanding.commit_number,
           recovering |-> outstanding.recovering]
    BY <2>1, Zenon DEF Applied, hi, ef
  <2> QED
    BY <2>2
<1>7. Applied(disk, outstanding).log \in [lo + 1 .. hi -> Entry]
  BY <1>5, <1>6, Zenon
<1>8. \A i \in lo + 1 .. hi : i < ef => Applied(disk, outstanding).log[i] = disk.log[i]
  BY <1>6, Zenon
<1> QED
  BY <1>6, <1>7, <1>8, Zenon DEF lo, hi, ef

\* Whether the owner wrote or skipped the write that is out, the disk survives
\* and holds the log the write describes.
LEMMA LandedFacts ==
  ASSUME IInv, outstanding.out, NEW d \in Landed(outstanding)
  PROVE  /\ Survives(d)
         /\ d.log_start = outstanding.log_start
         /\ d.op_number = outstanding.op_number
         /\ d.recovering = outstanding.recovering
         /\ \A i \in outstanding.log_start + 1 .. outstanding.op_number :
              d.log[i] = Target.log[i]
<1>1. Target = Applied(disk, outstanding)
  BY DEF Target
<1>2. CASE d = Applied(disk, outstanding)
  <2>1. Explains(d) /\ \A i \in flushed + 1 .. applied :
           i \in d.log_start + 1 .. d.op_number /\ d.log[i] = executed[i]
    BY <1>1, <1>2, TargetExecuted, Zenon DEF IInv
  <2>2. /\ d.log_start = outstanding.log_start
        /\ d.op_number = outstanding.op_number
        /\ d.commit_number = outstanding.commit_number
        /\ d.recovering = outstanding.recovering
        /\ d.log \in [outstanding.log_start + 1 .. outstanding.op_number -> Entry]
    BY <1>2, AppliedFacts, Zenon
  <2>3. Survives(d)
    BY <2>1, <2>2, Zenon DEF Survives, IInv, TypeOK, OutstandingOrdered
  <2> QED
    BY <1>1, <1>2, <2>2, <2>3, Zenon
<1>3. CASE d = disk /\ ~outstanding.sync
  <2>1. /\ outstanding.log_start = disk.log_start
        /\ outstanding.entries_from = outstanding.op_number + 1
        /\ outstanding.op_number = disk.op_number
        /\ outstanding.recovering = disk.recovering
        /\ outstanding.op_number \in Nat /\ outstanding.log_start \in Nat
    BY <1>3 DEF IInv, OutstandingOrdered, TypeOK
  <2>2. \A i \in outstanding.log_start + 1 .. outstanding.op_number :
           i < outstanding.entries_from
    BY <2>1
  <2>3. \A i \in outstanding.log_start + 1 .. outstanding.op_number :
           Applied(disk, outstanding).log[i] = disk.log[i]
    BY <2>2, AppliedFacts, Zenon
  <2> QED
    BY <1>1, <1>3, <2>1, <2>3, DiskSurvives, Zenon
<1>4. d = Applied(disk, outstanding) \/ (d = disk /\ ~outstanding.sync)
  <2>1. CASE outstanding.sync
    BY <2>1, Zenon DEF Landed
  <2>2. CASE ~outstanding.sync
    BY <2>2, Zenon DEF Landed
  <2> QED
    BY <2>1, <2>2
<1> QED
  BY <1>2, <1>3, <1>4

\* The write that was out landed: the log up to its op number, less what
\* changed since it was taken, is on disk, and more may execute.
LEMMA PersistedInv == IInv /\ Persisted => IInv'
<1> SUFFICES ASSUME IInv, Persisted PROVE IInv'
  OBVIOUS
<1>p. PICK d \in Landed(outstanding) : disk' = d
  BY DEF Persisted
<1>q. PICK top, com : top = outstanding.op_number /\ com = commit_number'
  OBVIOUS
<1>u. /\ outstanding.out /\ durable' = top /\ outstanding' = NoWrite
      /\ com \in commit_number .. op_number
      /\ UNCHANGED <<log_start, op_number, log, log_changed_from, recovering, flushed>>
      /\ Execute(applied, executed)
  BY <1>q DEF Persisted
<1>s. /\ Survives(d)
      /\ d.log_start = outstanding.log_start /\ d.op_number = top
      /\ d.recovering = outstanding.recovering
      /\ \A i \in d.log_start + 1 .. d.op_number : d.log[i] = Target.log[i]
  BY <1>q, <1>u, LandedFacts, Zenon
<1>g. Target.log_start = d.log_start /\ Target.op_number = d.op_number
  BY <1>u, <1>s, <1>q, AppliedFacts DEF Target
<1>t. /\ op_number \in Nat /\ commit_number \in Nat /\ log_start \in Nat /\ top \in Nat
      /\ com \in Nat /\ log_changed_from \in Nat /\ applied \in Nat /\ flushed \in Nat
      /\ log_changed_from <= op_number + 1
      /\ log_changed_from = 0 => top = op_number
      /\ com <= op_number /\ commit_number <= com
      /\ log_start <= flushed /\ flushed <= applied /\ applied <= commit_number
  BY <1>q, <1>u DEF IInv, TypeOK, OutstandingOrdered, TargetMatches, CountersOrdered
<1>d. /\ DurableOp(top, log_changed_from) \in Nat
      /\ DurableOp(top, log_changed_from) <= op_number
      /\ log_changed_from # 0 => DurableOp(top, log_changed_from) < log_changed_from
  BY <1>t DEF DurableOp
<1>m. \A i \in log_start + 1 .. op_number :
        Unchanged(i) => /\ i \in d.log_start + 1 .. d.op_number
                        /\ d.log[i] = log[i]
  BY <1>s, <1>g, Zenon DEF IInv, TargetMatches
<1>h. PICK app : app = Higher(applied, Lower(com, DurableOp(top, log_changed_from)))
  OBVIOUS
<1>e. /\ app \in Nat /\ applied <= app /\ app <= com
      /\ app > applied => app <= DurableOp(top, log_changed_from)
      /\ log_start <= app /\ app <= op_number
  BY <1>t, <1>d, <1>h
<1>f. /\ applied' = app
      /\ executed' = [i \in 1 .. app |-> IF i <= applied THEN executed[i] ELSE log[i]]
  BY <1>q, <1>u, <1>h, Zenon DEF Execute
<1>x. \A i \in 1 .. applied : executed'[i] = executed[i]
  BY <1>t, <1>e, <1>f
<1>y. \A i \in applied + 1 .. app : executed'[i] = log[i] /\ Unchanged(i)
                                    /\ i \in log_start + 1 .. op_number
  BY <1>t, <1>d, <1>e, <1>f DEF Unchanged
<1>1. TypeOK'
  <2>1. executed' \in [1 .. app -> Entry]
    <3>1. \A i \in 1 .. applied : executed[i] \in Entry
      BY Zenon DEF IInv, TypeOK
    <3>2. \A i \in applied + 1 .. app : log[i] \in Entry
      BY <1>y, Zenon DEF IInv, TypeOK, LogOver
    <3>3. \A i \in 1 .. app : (IF i <= applied THEN executed[i] ELSE log[i]) \in Entry
      BY <1>t, <1>e, <3>1, <3>2
    <3> QED
      BY <1>f, <3>3, Zenon
  <2>2. /\ NoWrite.out \in BOOLEAN /\ NoWrite.sync \in BOOLEAN
        /\ NoWrite.recovering \in BOOLEAN
        /\ NoWrite.log_start \in Nat /\ NoWrite.op_number \in Nat
        /\ NoWrite.commit_number \in Nat /\ NoWrite.entries_from \in Nat \ {0}
        /\ NoWrite.entries \in [NoWrite.entries_from .. NoWrite.op_number -> Entry]
    BY NoWriteTyped
  <2> QED
    BY <1>p, <1>q, <1>u, <1>s, <1>t, <1>e, <1>f, <2>1, <2>2, Zenon DEF IInv, TypeOK, Survives
<1>2. CountersOrdered'
  BY <1>q, <1>u, <1>t, <1>e, <1>f DEF CountersOrdered
<1>3. DiskOrdered' /\ OutstandingOrdered'
  <2>1. ~NoWrite.out
    BY DEF NoWrite
  <2>2. recovering => op_number = log_start /\ log_changed_from = 0
    BY DEF IInv, DiskOrdered
  <2> QED
    BY <1>p, <1>u, <1>s, <2>1, <2>2, Zenon DEF DiskOrdered, OutstandingOrdered, Survives
<1>w. Target' = d
  BY <1>p, <1>u DEF Target, NoWrite
<1>4. TargetMatches'
  <2>1. log_changed_from = 0 => d.op_number <= op_number
    BY <1>s, <1>t
  <2> QED
    BY <1>u, <1>t, <1>d, <1>m, <1>w, <2>1, Zenon DEF TargetMatches, Unchanged
<1>5. DurableIsOnDisk'
  <2>1. \A i \in log_start + 1 .. DurableOp(top, log_changed_from) :
          i \in log_start + 1 .. op_number /\ Unchanged(i)
    BY <1>t, <1>d DEF Unchanged
  <2> QED
    BY <1>p, <1>u, <1>m, <2>1, Zenon DEF DurableIsOnDisk
<1>6. ExecutedIsLogged'
  <2>1. \A i \in log_start + 1 .. app :
          \/ i \in log_start + 1 .. applied /\ i \in 1 .. applied
          \/ i \in applied + 1 .. app
    BY <1>t, <1>e
  <2>2. \A i \in log_start + 1 .. app : executed'[i] = log[i] /\ Unchanged(i)
    BY <1>x, <1>y, <2>1, Zenon DEF IInv, ExecutedIsLogged
  <2> QED
    BY <1>u, <1>f, <2>2, Zenon DEF ExecutedIsLogged, Unchanged
<1>7. ExecutedOnDisk'
  <2>1. \A i \in flushed + 1 .. app :
          \/ i \in flushed + 1 .. applied /\ i \in 1 .. applied
          \/ i \in applied + 1 .. app
    BY <1>t, <1>e
  <2>2. \A i \in flushed + 1 .. app :
          i \in d.log_start + 1 .. d.op_number /\ d.log[i] = executed'[i]
    BY <1>s, <1>x, <1>y, <1>m, <2>1, Zenon DEF Survives
  <2> QED
    BY <1>p, <1>u, <1>f, <2>2, Zenon DEF ExecutedOnDisk
<1>8. Explains(disk)' /\ Explains(Target)'
  <2>1. \A i \in 1 .. flushed : i \in 1 .. applied
    BY <1>t
  <2>2. d.log_start \in Nat /\ d.commit_number \in Nat /\ Explains(d)
    BY <1>s DEF Survives
  <2>3. /\ d.commit_number <= com
        /\ flushed <= d.commit_number =>
             \A i \in d.log_start + 1 .. flushed : d.log[i] = executed'[i]
    <3>1. \A i \in 1 .. flushed : executed'[i] = executed[i]
      BY <1>x, <2>1, Zenon
    <3>2. d.commit_number <= commit_number
      BY <2>2 DEF Explains
    <3>3. \A i \in d.log_start + 1 .. flushed : i \in 1 .. flushed
      BY <1>t, <2>2
    <3> QED
      BY <1>t, <2>2, <3>1, <3>2, <3>3 DEF Explains
  <2> QED
    BY <1>p, <1>q, <1>u, <1>w, <2>3, Zenon DEF Explains
<1> QED
  BY <1>1, <1>2, <1>3, <1>4, <1>5, <1>6, <1>7, <1>8 DEF IInv

\* A restart from a disk that survived rebuilds a replica whose log, commit
\* number and state machine agree.
LEMMA CrashInv == IInv /\ Crash => IInv'
<1> SUFFICES ASSUME IInv, Crash PROVE IInv'
  OBVIOUS
<1>p. PICK d \in {disk} \union (IF outstanding.out THEN Landed(outstanding) ELSE {}),
           k \in flushed .. applied :
        /\ disk' = d /\ flushed' = k /\ outstanding' = NoWrite
        /\ Restart(d, k) /\ Execute(k, executed)
  BY Zenon DEF Crash
<1>s. Survives(d)
  BY DiskSurvives, LandedFacts, Zenon
<1>q. PICK lo, hi, com :
        /\ lo = IF d.recovering \/ k > d.commit_number THEN k ELSE d.log_start
        /\ hi = IF d.recovering THEN k ELSE Higher(k, d.op_number)
        /\ com = IF d.recovering \/ k > d.commit_number THEN k ELSE d.commit_number
  OBVIOUS
<1>r. /\ log_start' = lo /\ op_number' = hi /\ commit_number' = com /\ durable' = hi
      /\ log' = [i \in lo + 1 .. hi |-> d.log[i]]
      /\ log_changed_from' = 0 /\ recovering' = d.recovering
  BY <1>p, <1>q, Zenon DEF Restart
<1>t. /\ flushed \in Nat /\ applied \in Nat /\ k \in Nat /\ flushed <= k /\ k <= applied
      /\ log_start \in Nat /\ log_start <= flushed
      /\ d.log_start \in Nat /\ d.op_number \in Nat /\ d.commit_number \in Nat
      /\ d.log_start <= k /\ d.commit_number <= d.op_number
      /\ d.log_start <= d.op_number /\ d.recovering => d.op_number = d.log_start
  BY <1>s DEF Survives, IInv, TypeOK, CountersOrdered
<1>b. /\ lo \in Nat /\ hi \in Nat /\ com \in Nat
      /\ d.log_start <= lo /\ lo <= k /\ k <= com /\ com <= hi /\ d.op_number <= hi
      /\ d.commit_number <= com
      /\ hi = lo \/ hi = d.op_number
      /\ com = k \/ (com = d.commit_number /\ lo = d.log_start /\ ~d.recovering)
      /\ d.recovering => hi = lo
  BY <1>q, <1>t
<1>l. /\ log' \in [lo + 1 .. hi -> Entry]
      /\ \A i \in lo + 1 .. hi : i \in d.log_start + 1 .. d.op_number /\ log'[i] = d.log[i]
  <2>1. \A i \in lo + 1 .. hi : i \in d.log_start + 1 .. d.op_number
    BY <1>b, <1>t
  <2>2. d.log \in [d.log_start + 1 .. d.op_number -> Entry]
    BY <1>s, Zenon DEF Survives, LogOver
  <2> QED
    BY <1>r, <2>1, <2>2, Zenon
<1>e. /\ applied' = com
      /\ executed' = [i \in 1 .. com |-> IF i <= k THEN executed[i] ELSE log'[i]]
  <2>1. DurableOp(hi, 0) = hi
    BY DEF DurableOp
  <2>2. Higher(k, Lower(com, hi)) = com
    BY <1>b, <1>t
  <2>3. applied' = com
    BY <1>p, <1>r, <2>1, <2>2, Zenon DEF Execute
  <2> QED
    BY <1>p, <2>3, Zenon DEF Execute
<1>x. \A i \in 1 .. k : executed'[i] = executed[i]
  BY <1>b, <1>t, <1>e
<1>y. \A i \in k + 1 .. com : executed'[i] = log'[i] /\ i \in lo + 1 .. hi
  BY <1>b, <1>t, <1>e
<1>v. \A i \in lo + 1 .. k : d.log[i] = executed[i]
  <2>1. lo = k \/ (lo = d.log_start /\ k <= d.commit_number)
    BY <1>q, <1>t
  <2>3. lo = k => lo + 1 .. k = {}
    BY <1>t
  <2>2. k <= d.commit_number => \A i \in d.log_start + 1 .. k : d.log[i] = executed[i]
    BY <1>s, <1>t, ExplainsMore, Zenon DEF Survives
  <2> QED
    BY <2>1, <2>2, <2>3, Zenon
<1>1. TypeOK'
  <2>1. executed' \in [1 .. com -> Entry]
    <3>1. \A i \in 1 .. k : executed[i] \in Entry
      <4>1. \A i \in 1 .. k : i \in 1 .. applied
        BY <1>t
      <4> QED
        BY <4>1, Zenon DEF IInv, TypeOK
    <3>2. \A i \in k + 1 .. com : log'[i] \in Entry
      BY <1>l, <1>y, Zenon
    <3>3. \A i \in 1 .. com : (IF i <= k THEN executed[i] ELSE log'[i]) \in Entry
      BY <1>t, <1>b, <3>1, <3>2
    <3> QED
      BY <1>e, <3>3, Zenon
  <2>2. 0 \in Nat
    OBVIOUS
  <2> QED
    BY <1>p, <1>r, <1>s, <1>t, <1>b, <1>l, <1>e, <2>1, <2>2, NoWriteTyped, Zenon
    DEF TypeOK, Survives, LogOver
<1>2. CountersOrdered'
  BY <1>p, <1>r, <1>t, <1>b, <1>e DEF CountersOrdered
<1>3. DiskOrdered' /\ OutstandingOrdered'
  <2>1. ~NoWrite.out
    BY DEF NoWrite
  <2> QED
    BY <1>p, <1>r, <1>s, <1>b, <2>1, Zenon DEF DiskOrdered, OutstandingOrdered, Survives
<1>w. Target' = d
  BY <1>p DEF Target, NoWrite
<1>4. TargetMatches'
  <2>1. /\ DurableOp(hi, 0) <= hi
        /\ 0 <= hi + 1
    BY <1>b DEF DurableOp
  <2> QED
    BY <1>r, <1>b, <1>l, <1>w, <2>1, Zenon DEF TargetMatches, Unchanged
<1>5. DurableIsOnDisk'
  <2>1. DurableOp(hi, 0) = hi
    BY DEF DurableOp
  <2> QED
    BY <1>p, <1>r, <1>l, <2>1, Zenon DEF DurableIsOnDisk
<1>6. ExecutedIsLogged'
  <2>1. \A i \in lo + 1 .. com :
          \/ i \in lo + 1 .. k /\ i \in 1 .. k /\ i \in lo + 1 .. hi
          \/ i \in k + 1 .. com
    BY <1>t, <1>b
  <2>2. \A i \in lo + 1 .. com : executed'[i] = log'[i]
    BY <1>l, <1>x, <1>y, <1>v, <2>1, Zenon
  <2> QED
    BY <1>r, <1>e, <2>2, Zenon DEF ExecutedIsLogged, Unchanged
<1>7. ExecutedOnDisk'
  <2>1. \A i \in k + 1 .. com :
          i \in d.log_start + 1 .. d.op_number /\ d.log[i] = executed'[i]
    BY <1>y, <1>l, Zenon
  <2> QED
    BY <1>p, <1>e, <2>1, Zenon DEF ExecutedOnDisk
<1>8. Explains(disk)' /\ Explains(Target)'
  <2>1. k <= d.commit_number => \A i \in d.log_start + 1 .. k : d.log[i] = executed[i]
    BY <1>s, <1>t, ExplainsMore, Zenon DEF Survives
  <2>2. \A i \in d.log_start + 1 .. k : i \in 1 .. k
    BY <1>t
  <2> QED
    BY <1>p, <1>r, <1>b, <1>w, <1>x, <2>1, <2>2, Zenon DEF Explains
<1> QED
  BY <1>1, <1>2, <1>3, <1>4, <1>5, <1>6, <1>7, <1>8 DEF IInv

\* Steps that leave the replica alone keep the invariant.
LEMMA StutterInv == IInv /\ UNCHANGED vars => IInv'
<1> SUFFICES ASSUME IInv, UNCHANGED vars PROVE IInv'
  OBVIOUS
<1>1. Target' = Target
  BY TargetUnchanged DEF vars
<1> QED
  BY <1>1 DEF vars, IInv, TypeOK, CountersOrdered, DiskOrdered, OutstandingOrdered,
              WriteFits, TargetMatches, Unchanged, DurableIsOnDisk, ExecutedIsLogged,
              ExecutedOnDisk, Explains

\* Every step of a replica and its owner keeps IInv.
THEOREM Inductive == Spec => []IInv
<1>1. IInv /\ [Next]_vars => IInv'
  BY HandlerInv, RestoreInv, TakeWriteInv, PersistedInv, FlushInv, CompactInv,
     CrashInv, LoseDiskInv, StutterInv DEF Next
<1> QED
  BY InitInv, <1>1, PTL DEF Spec

\* Types: the log spans exactly the op numbers after the log start, in memory
\* and on disk, through every truncation, compaction, restore and restart.
THEOREM TypeCorrect == Spec => []TypeOK
<1>1. IInv => TypeOK
  BY DEF IInv
<1> QED
  BY <1>1, Inductive, PTL

\* apply_committed executes nothing a crash could take back.
THEOREM ExecutedIsOnDisk == Spec => []ExecutedOnDisk
<1>1. IInv => ExecutedOnDisk
  BY DEF IInv
<1> QED
  BY <1>1, Inductive, PTL

\* durable_op never claims an entry the disk does not hold.
THEOREM DurableOpIsOnDisk == Spec => []DurableIsOnDisk
<1>1. IInv => DurableIsOnDisk
  BY DEF IInv
<1> QED
  BY <1>1, Inductive, PTL

\* PersistentState::apply is only ever given a write its assertion admits.
THEOREM WritesApply == Spec => []WriteAppliesToDisk
<1>1. IInv => WriteAppliesToDisk
  BY DEF IInv, OutstandingOrdered, WriteAppliesToDisk
<1> QED
  BY <1>1, Inductive, PTL

\* The assertions of Replica::restart hold whenever the crash comes.
THEOREM RestartSucceeds == Spec => []RestartAssertsHold
<1>1. IInv => RestartAssertsHold
  <2> SUFFICES ASSUME IInv,
                      NEW d \in {disk} \union (IF outstanding.out THEN Landed(outstanding) ELSE {}),
                      NEW k \in flushed .. applied
               PROVE  d.log_start <= k /\ d.commit_number <= d.op_number
    BY Zenon DEF RestartAssertsHold
  <2>1. Survives(d)
    BY DiskSurvives, LandedFacts, Zenon
  <2> QED
    BY <2>1 DEF Survives, IInv, TypeOK, CountersOrdered
<1> QED
  BY <1>1, Inductive, PTL

\* With no write out and nothing changed, the disk holds memory's log exactly.
THEOREM QuietDisk == Spec => []QuietDiskMatches
<1>1. IInv => QuietDiskMatches
  <2> SUFFICES ASSUME IInv, ~outstanding.out, log_changed_from = 0, disk.log_start = log_start
               PROVE  disk.op_number = op_number /\ disk.log = log
    BY DEF QuietDiskMatches
  <2>1. /\ log_start \in Nat /\ op_number \in Nat /\ disk.op_number \in Nat
        /\ log \in [log_start + 1 .. op_number -> Entry]
        /\ disk.log \in [log_start + 1 .. disk.op_number -> Entry]
        /\ log_start <= op_number /\ log_start <= disk.op_number
    BY DEF IInv, TypeOK, CountersOrdered, DiskOrdered
  <2>2. /\ \A i \in log_start + 1 .. op_number :
              i \in log_start + 1 .. disk.op_number /\ disk.log[i] = log[i]
        /\ disk.op_number <= op_number
    BY DEF IInv, TargetMatches, Target, Unchanged
  <2>3. disk.op_number = op_number
    <3>1. op_number \in log_start + 1 .. op_number \/ op_number = log_start
      BY <2>1
    <3> QED
      BY <2>1, <2>2, <3>1
  <2>4. disk.log \in [log_start + 1 .. op_number -> Entry]
    BY <2>1, <2>3
  <2>5. disk.log = log
    BY <2>1, <2>2, <2>4
  <2> QED
    BY <2>3, <2>5
<1> QED
  BY <1>1, Inductive, PTL

\* A restart takes back no executed op.
THEOREM RestartKeepsExecuted == Spec => CrashKeepsExecuted
<1> DEFINE Kept == Crash => \A i \in 1 .. applied :
       \/ i <= applied' /\ executed'[i] = executed[i]
       \/ i \in log_start' + 1 .. op_number' /\ log'[i] = executed[i]
<1>1. ASSUME IInv, Crash, NEW i \in 1 .. applied
      PROVE  \/ i <= applied' /\ executed'[i] = executed[i]
             \/ i \in log_start' + 1 .. op_number' /\ log'[i] = executed[i]
  <2>p. PICK d \in {disk} \union (IF outstanding.out THEN Landed(outstanding) ELSE {}),
             k \in flushed .. applied :
          /\ disk' = d /\ flushed' = k /\ outstanding' = NoWrite
          /\ Restart(d, k) /\ Execute(k, executed)
    BY <1>1, Zenon DEF Crash
  <2>s. Survives(d)
    BY <1>1, DiskSurvives, LandedFacts, Zenon
  <2>t. /\ flushed \in Nat /\ applied \in Nat /\ k \in Nat /\ flushed <= k
        /\ d.log_start \in Nat /\ d.op_number \in Nat /\ d.log_start <= k
        /\ d.recovering => d.op_number = d.log_start
    BY <1>1, <2>s DEF Survives, IInv, TypeOK, CountersOrdered
  <2>1. CASE i <= k
    <3>1. PICK app : app = Lower(commit_number', DurableOp(durable', log_changed_from'))
      OBVIOUS
    <3>2. applied' = Higher(k, app)
      BY <2>p, <3>1, Zenon DEF Execute
    <3>3. commit_number' \in Nat /\ durable' \in Nat /\ log_changed_from' = 0
      BY <2>p, <2>s, <2>t DEF Restart, Survives
    <3>4. app \in Nat
      BY <3>1, <3>3 DEF DurableOp
    <3>5. i <= Higher(k, app) /\ i \in 1 .. Higher(k, app)
      BY <1>1, <2>t, <2>1, <3>4
    <3>6. executed'[i] = executed[i]
      BY <1>1, <2>p, <2>1, <3>2, <3>5, Zenon DEF Execute
    <3> QED
      BY <3>2, <3>5, <3>6, Zenon
  <2>2. CASE i > k
    <3>1. i \in d.log_start + 1 .. d.op_number /\ d.log[i] = executed[i]
      BY <1>1, <2>s, <2>t, <2>2 DEF Survives
    <3>2. PICK lo, hi :
            /\ lo = IF d.recovering \/ k > d.commit_number THEN k ELSE d.log_start
            /\ hi = IF d.recovering THEN k ELSE Higher(k, d.op_number)
      OBVIOUS
    <3>3. /\ log_start' = lo /\ op_number' = hi
          /\ log' = [j \in lo + 1 .. hi |-> d.log[j]]
      BY <2>p, <3>2, Zenon DEF Restart
    <3>4. i \in lo + 1 .. hi
      BY <2>t, <2>2, <3>1, <3>2
    <3> QED
      BY <3>1, <3>3, <3>4, Zenon
  <2> QED
    BY <1>1, <2>t, <2>1, <2>2
<1>2. IInv => Kept
  BY <1>1, Zenon
<1>3. IInv /\ IInv' /\ [Next]_vars => [Kept]_vars
  <2> HIDE DEF Kept
  <2> QED
    BY <1>2
<1> QED
  BY <1>3, Inductive, PTL DEF Spec, CrashKeepsExecuted

=============================================================================
