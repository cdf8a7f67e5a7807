-------------------------- MODULE AgreementProofs --------------------------
(* Replicas commit the same entries: proved of clusters of every size,     *)
(* whatever is lost, replayed or reordered, and however many views,        *)
(* crashes, lost disks, checkpoints and compactions there are, when every  *)
(* owner persists a step before the next (SteppingOn = {}).                *)
(*                                                                         *)
(* The invariant AInv says that the replicas, their disks and the messages *)
(* have a history (module ClusterProofs): the log of every view that       *)
(* started, and how much of it each replica acknowledged.  A view starts   *)
(* with a log that has all that any earlier view may have chosen, so that  *)
(* what was chosen once is in the log of every later view.  ClusterProofs  *)
(* has the history and the handlers of normal operation; here are those of *)
(* view changes, state transfer and recovery, what the owner and a restart *)
(* do, and the theorems.                                                   *)
EXTENDS ClusterProofs

-----------------------------------------------------------------------------
(* A replica enters a view *)

\* t holds the log that it enters view v with.
Takes(w, q, t) ==
  /\ \A i \in 1 .. t.commit_number : Decided(w, t.view_number, i, EntryAt(t, i))
  /\ OrderedLog(Value(t), t.op_number)
  /\ IF PrimaryOf(t.view_number) = q
     THEN /\ t.view_number \notin w.started
          /\ Safe(w, t.view_number, Value(t), t.op_number)
     ELSE Member(w, t.view_number, Value(t), t.op_number)

\* A replica enters a view whose log it holds.
LEMMA EnterMoves ==
  ASSUME NEW w, NEW q \in ReplicaID, NEW r, NEW d, At(w, q, r, d), DiskOK(d),
         NEW t, Joins(r, t), Whole(t), Marked(t, d), t.recovery_nonce = r.recovery_nonce,
         Takes(w, q, t), r.status = "Recovering" => w.ack[t.view_number][q] <= t.op_number,
         NEW k \in Nat, k <= t.op_number, NEW reply,
         \A i \in 1 .. k : Decided(w, t.view_number, i, EntryAt(t, i))
  PROVE  GoesOn(w, q, EnterNormal(CommitUpTo(t, k, reply)), d)
<1> DEFINE c == CommitUpTo(t, k, reply)
           s == EnterNormal(c)
           v == t.view_number
<1>1. /\ Ready(r) /\ NumbersOK(r) /\ HistoryTyped(w) /\ HistoryInv(w) /\ Stands(w, q, r)
  BY AtHolds
<1>2. r.id = q
  BY AtId
<1>3. Ready(s)
  BY <1>1, EnterNormalFollows DEF Follows
<1>4. DOMAIN t = Fields /\ NumbersOK(t) /\ t.commit_number <= t.op_number
  BY DEF Whole
<1>5. /\ SameLog(t, c) /\ SameBut(t, c, CommitFields) /\ c.commit_number = Higher(t.commit_number, k)
  BY <1>4, CommitKeeps DEF Takes
<1>30. t.applied <= c.applied
  BY <1>4, CommitUpToFrame
<1> HIDE DEF c
<1>6. /\ SameBut(c, s, NormalFields) /\ Cleared(s) /\ s.catching_up = Nobody
      /\ s.status = "Normal" /\ s.last_normal_view = c.view_number
      /\ \A x \in ReplicaID : s.acked[x] = 0
  <2>1. DOMAIN c = Fields
    BY <1>5 DEF SameBut
  <2>2. /\ SameBut(c, s, NormalFields) /\ Cleared(s) /\ s.catching_up = Nobody
        /\ s.status = "Normal" /\ s.last_normal_view = c.view_number
    BY <2>1, EnterNormalFrame
  <2>3. \A x \in ReplicaID : s.acked[x] = 0
    BY <2>1 DEF EnterNormal, ClearViewChangeState, Fields
  <2> QED
    BY <2>2, <2>3
<1> HIDE DEF s
<1>7. /\ s.view_number = c.view_number /\ s.commit_number = c.commit_number /\ s.op_number = c.op_number
      /\ s.applied = c.applied /\ s.sm = c.sm /\ s.log = c.log /\ s.log_start = c.log_start
      /\ s.serving = c.serving /\ s.replies = c.replies /\ s.ok = c.ok /\ s.id = c.id
      /\ s.log_changed_from = c.log_changed_from /\ s.written = c.written
      /\ s.recovery_nonce = c.recovery_nonce /\ s.early = c.early /\ s.outbox = c.outbox
      /\ s.outbox_waiting = c.outbox_waiting /\ s.outbox_ready = c.outbox_ready /\ DOMAIN s = Fields
  BY <1>6 DEF SameBut, Fields, NormalFields, ClearFields
<1>8. /\ c.view_number = v /\ c.op_number = t.op_number /\ c.id = t.id /\ c.log = t.log
      /\ c.log_start = t.log_start /\ c.log_changed_from = t.log_changed_from
      /\ c.written = t.written /\ c.recovery_nonce = t.recovery_nonce /\ c.early = t.early
      /\ c.outbox = t.outbox /\ c.outbox_waiting = t.outbox_waiting
      /\ c.outbox_ready = t.outbox_ready
  BY <1>5 DEF SameBut, Fields, CommitFields, ApplyFields
<1>9. s.id = q /\ Out(s) = Out(r)
  BY <1>2, <1>7, <1>8 DEF Joins, Out
<1>10. Whole(c) /\ \A i \in 1 .. t.op_number : EntryAt(c, i) = EntryAt(t, i)
  BY <1>5 DEF SameLog
<1>11. s.ok /\ Sound(s) /\ NumbersOK(s) /\ s.commit_number <= s.op_number
  <2>1. NumbersOK(s)
    BY <1>3 DEF Ready, ReplicaOK
  <2> QED
    BY <1>7, <1>10, <2>1 DEF Whole, Sound
<1>12. \A i : EntryAt(s, i) = EntryAt(c, i)
  BY <1>7 DEF EntryAt
<1>13. Value(s) = Value(t)
  BY <1>7, <1>8, <1>10, <1>12 DEF Value
<1>14. /\ v \in Nat /\ t.op_number \in Nat /\ t.commit_number \in Nat
       /\ r.view_number \in Nat /\ r.last_normal_view \in Nat /\ r.view_number <= v
       /\ (r.status # "Recovering" => r.last_normal_view < v)
  BY <1>1, <1>4 DEF NumbersOK, Joins
<1>15. \A i \in 1 .. s.commit_number : Decided(w, v, i, EntryAt(s, i))
  <2> SUFFICES ASSUME NEW i \in 1 .. s.commit_number PROVE Decided(w, v, i, EntryAt(s, i))
    OBVIOUS
  <2>1. i \in 1 .. k \/ i \in 1 .. t.commit_number
    BY <1>5, <1>7, <1>14 DEF Higher
  <2>2. i \in 1 .. t.op_number
    BY <1>4, <1>14, <2>1
  <2>3. EntryAt(s, i) = EntryAt(t, i)
    BY <1>10, <1>12, <2>2
  <2> QED
    BY <2>1, <2>3 DEF Takes
<1>16. \A u \in Nat : w.ack[u][q] > 0 => u <= v
  <2>1. CASE r.status = "Recovering"
    <3>1. w.view[q] = r.view_number
      BY AtIs
    <3>2. \A u \in Nat : w.ack[u][q] > 0 => u <= w.view[q]
      BY <1>1 DEF HistoryInv
    <3> QED
      BY <1>14, <3>1, <3>2
  <2>2. CASE r.status # "Recovering"
    BY <1>1, <1>14, <2>2 DEF Stands
  <2> QED
    BY <2>1, <2>2
<1>17. w.ack[v][q] <= t.op_number
  <2>1. w.ack[v][q] \in Nat
    BY <1>1, <1>14, HistoryNumbers
  <2>2. CASE r.status # "Recovering"
    <3>1. w.ack[v][q] > 0 => v <= r.last_normal_view
      BY <1>1, <1>14, <2>2 DEF Stands
    <3> QED
      BY <1>14, <2>1, <2>2, <3>1
  <2> QED
    BY <2>2
<1>18. InView(w, q, s)
  <2>1. IsPrimary(s) <=> PrimaryOf(v) = q
    BY <1>7, <1>8, <1>9 DEF IsPrimary
  <2>2. CASE PrimaryOf(v) = q
    <3>1. \A x \in ReplicaID : s.acked[x] <= w.ack[v][x]
      <4>1. \A x \in ReplicaID : w.ack[v][x] \in Nat
        BY <1>1, <1>14, HistoryNumbers
      <4> QED
        BY <1>6, <4>1
    <3>2. Leads(w, s)
      BY <1>7, <1>8, <1>13, <2>2, <3>1 DEF Leads, Takes
    <3> QED
      BY <1>7, <1>8, <1>17, <2>1, <2>2, <3>2 DEF InView
  <2>3. CASE PrimaryOf(v) # q
    BY <1>7, <1>8, <1>13, <1>17, <2>1, <2>3 DEF InView, Takes
  <2> QED
    BY <2>2, <2>3
<1>19. Stands(w, q, s)
  BY <1>6, <1>7, <1>8, <1>11, <1>15, <1>16, <1>18 DEF Stands, NumbersOK
<1>20. Succeeds(r, s)
  BY <1>1, <1>6, <1>7, <1>8, <1>14 DEF Succeeds, NumbersOK
<1>21. Marked(s, d)
  <2>1. t.commit_number <= s.commit_number
    BY <1>5, <1>7, <1>14 DEF Higher
  <2> QED
    BY <1>4, <1>7, <1>8, <1>11, <1>30, <2>1, MarkedStays
<1>22. ReceivedInv(w, q, s)
  BY <1>6 DEF ReceivedInv, VotesInv, CatchingInv, FetchInv, ResponsesInv, Cleared, NoFetch
<1>23. GoesOn(w, q, s, d)
  BY <1>3, <1>9, <1>11, <1>19, <1>20, <1>21, <1>22, Moves
<1> QED
  BY <1>23 DEF s, c

-----------------------------------------------------------------------------
(* What a replica tells of its log *)

\* Its segment, after an op that is not before its log, is that of its view.
LEMMA SegmentInView ==
  ASSUME NEW w, NEW q \in ReplicaID, NEW r, NEW d, At(w, q, r, d), InItsView(r),
         NEW op \in Nat, r.log_start <= op, NEW checkpoint
  PROVE  SegmentOf(w, r.view_number, Segment(r, op, checkpoint))
<1>1. /\ NumbersOK(r) /\ \A i \in r.log_start + 1 .. r.op_number : r.log[i] = EntryAt(r, i)
  BY AtHolds
<1>2. Member(w, r.view_number, Value(r), r.op_number)
  BY HoldsView
<1>3. r.op_number \in Nat /\ r.log_start \in Nat
  BY <1>1 DEF NumbersOK
<1>4. \A i \in op + 1 .. r.op_number : r.log[i] = w.log[r.view_number][i]
  <2> SUFFICES ASSUME NEW i \in op + 1 .. r.op_number PROVE r.log[i] = w.log[r.view_number][i]
    OBVIOUS
  <2>1. i \in r.log_start + 1 .. r.op_number /\ i \in 1 .. r.op_number
    BY <1>3
  <2> QED
    BY <1>1, <1>2, <2>1 DEF Member, Value
<1> DEFINE s == Segment(r, op, checkpoint)
<1>5. s.end = r.op_number /\ s.start = op /\ \A i \in op + 1 .. r.op_number : s.entries[i] = r.log[i]
  BY DEF Segment
<1> HIDE DEF s
<1>6. SegmentOf(w, r.view_number, s)
  BY <1>2, <1>4, <1>5 DEF SegmentOf, Member
<1> QED
  BY <1>6 DEF s

\* The primary tells the others of its view.
LEMMA SendStartViewMoves ==
  ASSUME NEW w, NEW q \in ReplicaID, NEW r, NEW d, At(w, q, r, d), DiskOK(d), Serves(r),
         NEW S, \A x \in S : x \in ReplicaID
  PROVE  GoesOn(w, q, SendStartView(r, S), d)
<1> DEFINE m == [type |-> "StartView", view_number |-> r.view_number,
                 segment |-> WholeLog(r), commit_number |-> r.commit_number]
<1>1. SendStartView(r, S) = SendTo(r, S, m)
  BY DEF SendStartView
<1>2. /\ Ready(r) /\ NumbersOK(r) /\ Whole(r) /\ CommitOK(w, r.view_number, r.commit_number)
  BY AtHolds
<1>3. InItsView(r) /\ PrimaryOf(r.view_number) = r.id
  BY <1>2, ServesIs DEF IsPrimary
<1>4. /\ r.log_start \in Nat /\ r.op_number \in Nat /\ r.commit_number \in Nat /\ r.view_number \in Nat
      /\ r.log_start <= r.commit_number /\ r.commit_number <= r.op_number
  BY <1>2 DEF NumbersOK, Whole
<1>5. SegmentOf(w, r.view_number, WholeLog(r))
  <2>1. r.log_start <= r.log_start
    BY <1>4
  <2>2. SegmentOf(w, r.view_number, Segment(r, r.log_start, FALSE))
    BY <1>3, <1>4, <2>1, SegmentInView
  <2> QED
    BY <2>2 DEF WholeLog
<1>6. WholeLog(r).start = r.log_start /\ WholeLog(r).end = r.op_number
  BY DEF WholeLog, Segment
<1>7. ViewLogInv(w, r.view_number, m)
  BY <1>2, <1>4, <1>5, <1>6 DEF ViewLogInv
<1>8. MessageOK(m)
  BY <1>4, <1>6 DEF MessageOK, EarlyTypes, Votes, StateOK, SegmentOK
<1>9. Signed(r, m)
  BY <1>3, <1>4 DEF Signed, IsPromise, Signer, KeepsNow, Keeps
<1>10. \A x \in S : MessageInv(w, x, m)
  BY <1>7 DEF MessageInv
<1> HIDE DEF m
<1> QED
  BY <1>1, <1>8, <1>9, <1>10, SendMoves

-----------------------------------------------------------------------------
(* A log is merged, and a view starts *)

\* s is r with the log g, up to op n.
Merged(r, s, g, n, d) ==
  /\ SameBut(r, s, LogFields) /\ Whole(s) /\ s.op_number = n /\ Value(s) = g
  /\ s.log_changed_from # 0 /\ Marked(s, d)

\* merge_log with a segment after what is committed gives the log of the segment.
LEMMA MergeGives ==
  ASSUME NEW r, Whole(r), NEW d, DiskOK(d), Marked(r, d), NEW segment, SegmentOK(segment),
         segment.start <= r.commit_number, NEW n, n = Higher(r.commit_number, segment.end),
         NEW g, g = [i \in 1 .. n |-> g[i]],
         \A i \in 1 .. r.commit_number : g[i] = EntryAt(r, i),
         \A i \in segment.start + 1 .. segment.end : g[i] = segment.entries[i],
         NEW s, s = MergeLog(r, segment)
  PROVE  Merged(r, s, g, n, d)
<1> DEFINE keep == r.commit_number
<1>1. /\ NumbersOK(r) /\ DOMAIN r = Fields /\ r.commit_number \in Nat /\ r.op_number \in Nat
      /\ r.commit_number <= r.op_number /\ segment.start \in Nat /\ segment.end \in Nat
  BY DEF Whole, NumbersOK, SegmentOK
<1>2. keep = Higher(segment.start, r.commit_number) /\ n \in Nat /\ (n = keep \/ n = segment.end)
  BY <1>1 DEF Higher
<1>3. /\ SameBut(r, s, LogFields) /\ Whole(s) /\ s.op_number = n
      /\ \A i \in 1 .. s.op_number :
           EntryAt(s, i) = IF i <= keep THEN EntryAt(r, i) ELSE segment.entries[i]
      /\ Marked(s, d)
  BY <1>1, <1>2, MergeIs
<1>4. s.log_changed_from # 0
  <2>1. \/ s = Fail(r) /\ Higher(segment.start, r.commit_number) > r.op_number
        \/ s.log_changed_from # 0
    BY <1>1, MergeLogFrame
  <2> QED
    BY <1>1, <1>2, <2>1
<1>5. \A i \in 1 .. n : EntryAt(s, i) = g[i]
  <2> SUFFICES ASSUME NEW i \in 1 .. n PROVE EntryAt(s, i) = g[i]
    OBVIOUS
  <2>1. EntryAt(s, i) = IF i <= keep THEN EntryAt(r, i) ELSE segment.entries[i]
    BY <1>2, <1>3
  <2>2. CASE i <= keep
    <3>1. i \in 1 .. r.commit_number
      BY <1>1, <2>2
    <3> QED
      BY <2>1, <2>2, <3>1
  <2>3. CASE ~(i <= keep)
    <3>1. i \in segment.start + 1 .. segment.end
      BY <1>1, <1>2, <2>3
    <3> QED
      BY <2>1, <2>3, <3>1
  <2> QED
    BY <2>2, <2>3
<1>7. Value(s) = g
  BY <1>3, <1>5 DEF Value
<1> QED
  BY <1>3, <1>4, <1>7 DEF Merged

\* A replica that took over a log may enter its view: r, or with a checkpoint b,
\* became s, which is t in view view.
LEMMA MergedJoins ==
  ASSUME NEW r, Ready(r), NEW b, SameBut(r, b, RestoreFields \union {"fetch"}),
         r.log_start <= b.log_start, NEW s, NEW g, NEW n, NEW d, Merged(b, s, g, n, d),
         NEW view \in Nat, NEW t, SameBut(s, t, {"view_number", "fetch", "catching_up"}),
         t.view_number = view,
         r.view_number <= view, r.status # "Recovering" => r.last_normal_view < view,
         r.last_normal_view <= view
  PROVE  /\ Joins(r, t) /\ Whole(t) /\ Marked(t, d) /\ t.recovery_nonce = r.recovery_nonce
         /\ t.op_number = n /\ Value(t) = g /\ t.view_number = view
         /\ t.commit_number = b.commit_number
<1>1. /\ SameBut(b, s, LogFields) /\ Whole(s) /\ s.op_number = n /\ Value(s) = g
      /\ s.log_changed_from # 0 /\ Marked(s, d)
  BY DEF Merged
<1>2. DOMAIN s = Fields /\ NumbersOK(s) /\ Sound(s) /\ s.ok /\ s.commit_number <= s.op_number
  BY <1>1 DEF Whole
<1>3. /\ t.view_number = view /\ DOMAIN t = Fields
      /\ \A f \in Fields \ {"view_number", "fetch", "catching_up"} : t[f] = s[f]
  BY <1>2 DEF SameBut
<1>4. /\ t.id = s.id /\ t.outstanding = s.outstanding /\ t.written = s.written /\ t.early = s.early
      /\ t.outbox = s.outbox /\ t.outbox_waiting = s.outbox_waiting /\ t.outbox_ready = s.outbox_ready
      /\ t.recovery_responses = s.recovery_responses /\ t.log_changed_from = s.log_changed_from
      /\ t.log_start = s.log_start /\ t.recovery_nonce = s.recovery_nonce /\ t.op_number = s.op_number
      /\ t.log = s.log /\ t.applied = s.applied /\ t.sm = s.sm /\ t.commit_number = s.commit_number
      /\ t.last_normal_view = s.last_normal_view /\ t.durable = s.durable /\ t.acked = s.acked
      /\ t.serving = s.serving /\ t.replies = s.replies /\ t.ok = s.ok
  BY <1>3 DEF Fields
<1>5. /\ s.id = b.id /\ s.outstanding = b.outstanding /\ s.written = b.written /\ s.early = b.early
      /\ s.outbox = b.outbox /\ s.outbox_waiting = b.outbox_waiting /\ s.outbox_ready = b.outbox_ready
      /\ s.recovery_responses = b.recovery_responses /\ s.log_start = b.log_start
      /\ s.recovery_nonce = b.recovery_nonce /\ s.commit_number = b.commit_number
      /\ s.last_normal_view = b.last_normal_view
  BY <1>1 DEF SameBut, Fields, LogFields
<1>6. /\ b.id = r.id /\ b.outstanding = r.outstanding /\ b.written = r.written /\ b.early = r.early
      /\ b.outbox = r.outbox /\ b.outbox_waiting = r.outbox_waiting /\ b.outbox_ready = r.outbox_ready
      /\ b.recovery_responses = r.recovery_responses
      /\ b.recovery_nonce = r.recovery_nonce /\ b.last_normal_view = r.last_normal_view
  BY DEF SameBut, Fields, LogFields, RestoreFields
<1> HIDE DEF Fields
<1>7. NumbersOK(t)
  BY <1>2, <1>3, <1>4, <1>5, <1>6 DEF NumbersOK
<1>8. Whole(t)
  BY <1>2, <1>3, <1>4, <1>7 DEF Whole, Sound
<1>9. Joins(r, t)
  <2>1. /\ IsFiniteSet(r.recovery_responses)
        /\ \A q \in r.recovery_responses : q.view_number \in Nat /\ (q.state.is => StateOK(q.state))
    BY DEF Ready, ReplicaOK, ReceivedOK
  <2> QED
    BY <1>1, <1>3, <1>4, <1>5, <1>6, <1>7, <2>1 DEF Joins
<1>10. Marked(t, d)
  BY <1>1, <1>4 DEF Marked
<1>11. \A i : EntryAt(t, i) = EntryAt(s, i)
  BY <1>4 DEF EntryAt
<1>12. Value(t) = Value(s)
  BY <1>4, <1>11 DEF Value
<1> QED
  BY <1>1, <1>3, <1>4, <1>5, <1>6, <1>8, <1>9, <1>10, <1>12

-----------------------------------------------------------------------------
(* The primary of a view starts it *)

\* The greatest commit number of the votes is that of a vote.
LEMMA GreatestIsOne ==
  ASSUME NEW S, IsFiniteSet(S), S # {}, \A d \in S : d.commit_number \in Nat
  PROVE  \E d \in S : Max({e.commit_number : e \in S}) = d.commit_number
<1> DEFINE f == [d \in S |-> d.commit_number]
           T == {e.commit_number : e \in S}
<1>1. f \in [S -> Nat]
  OBVIOUS
<1>2. PICK d \in S : \A e \in S : f[d] >= f[e]
  <2> HIDE DEF f
  <2> QED
    BY <1>1, GreatestExists
<1>3. d.commit_number \in T /\ \A y \in T : d.commit_number >= y
  BY <1>2
<1>4. Max(T) \in T
  BY <1>3 DEF Max
<1> QED
  BY <1>4

\* What is committed is in a log that a view may start with.
LEMMA CommitIsSafe ==
  ASSUME NEW w, HistoryInv(w), NEW v \in Nat, v \notin w.started, NEW g, NEW n \in Nat,
         Safe(w, v, g, n), NEW k \in Nat, CommitOK(w, v, k)
  PROVE  k <= n /\ \A i \in 1 .. k : g[i] = w.committed[i] /\ Decided(w, v, i, g[i])
<1>1. \A i \in 1 .. k : Decided(w, v, i, w.committed[i])
  BY DEF CommitOK
<1>2. \A i \in 1 .. k : i <= n /\ g[i] = w.committed[i]
  BY <1>1, DecidedIsSafe
<1>3. k <= n
  <2>1. CASE k = 0
    BY <2>1
  <2>2. CASE k # 0
    <3>1. k \in 1 .. k
      BY <2>2
    <3> QED
      BY <1>2, <3>1
  <2> QED
    BY <2>1, <2>2
<1>4. \A i \in 1 .. k : Decided(w, v, i, g[i])
  BY <1>1, <1>2
<1> QED
  BY <1>2, <1>3, <1>4

\* Catching up with a log it does not reach, the primary asks for it.
LEMMA AskMoves ==
  ASSUME NEW w, NEW q \in ReplicaID, NEW r, NEW d, At(w, q, r, d), DiskOK(d),
         r.status = "ViewChange", IsPrimary(r), Cardinality(r.do_view_change_from) >= Quorum,
         NEW t \in ReplicaID, Target(w, r.view_number, t)
  PROVE  GoesOn(w, q, SendGetStateTo([r EXCEPT !.catching_up = t], t, r.commit_number), d)
<1> DEFINE s == [r EXCEPT !.catching_up = t]
           m == [type |-> "GetState", replica_id |-> s.id,
                 view_number |-> s.view_number, op_number |-> r.commit_number]
<1>1. /\ Ready(r) /\ NumbersOK(r) /\ DOMAIN r = Fields /\ ReceivedInv(w, q, r) /\ Sound(r)
  BY AtHolds
<1>2. r.id = q
  BY AtId
<1>3. SameBut(r, s, {"catching_up"}) /\ s.catching_up = t
  BY <1>1 DEF SameBut, Fields
<1> HIDE DEF s
<1>4. /\ s.id = r.id /\ s.view_number = r.view_number /\ s.status = r.status
      /\ s.do_view_change_from = r.do_view_change_from /\ s.fetch = r.fetch
      /\ s.recovery_responses = r.recovery_responses /\ s.commit_number = r.commit_number
      /\ s.replies = r.replies /\ s.log_start = r.log_start /\ s.applied = r.applied
      /\ s.log = r.log /\ s.sm = r.sm /\ s.serving = r.serving /\ Out(s) = Out(r)
      /\ s.last_normal_view = r.last_normal_view /\ s.op_number = r.op_number
      /\ s.log_changed_from = r.log_changed_from /\ s.durable = r.durable
      /\ s.recovery_nonce = r.recovery_nonce /\ s.acked = r.acked
  BY <1>3 DEF SameBut, Fields, Out
<1>5. Ready(s)
  <2>1. NumbersOK(s)
    BY <1>1, <1>4 DEF NumbersOK
  <2>2. ReceivedOK(s)
    BY <1>1, <1>3, <1>4 DEF Ready, ReplicaOK, ReceivedOK
  <2>3. Placed(s)
    BY <1>1, <1>4 DEF Ready, Placed, IsPrimary
  <2>4. SameBut(r, s, QuietFields \union {"do_view_change_from", "catching_up",
                                           "recovery_responses", "fetch"})
    BY <1>3 DEF SameBut
  <2> QED
    BY <1>1, <2>1, <2>2, <2>3, <2>4, MildFollows DEF Follows
<1>6. SameBut(r, s, StillFields)
  BY <1>3 DEF SameBut, StillFields
<1>7. Sound(s)
  BY <1>1, <1>4 DEF Sound
<1>8. IsPrimary(s)
  BY <1>4 DEF IsPrimary
<1>9. t # Nobody
  BY ConfigAssumption DEF ReplicaID, Nobody
<1>10. ReceivedInv(w, q, s)
  <2>1. VotesInv(w, q, s)
    BY <1>1, <1>4, <1>8 DEF ReceivedInv, VotesInv
  <2>2. CatchingInv(w, s)
    BY <1>3, <1>4, <1>8 DEF CatchingInv
  <2>3. FetchInv(w, q, s)
    BY <1>1, <1>3, <1>4, <1>9 DEF ReceivedInv, FetchInv
  <2>4. ResponsesInv(w, q, s)
    BY <1>4 DEF ResponsesInv
  <2> QED
    BY <2>1, <2>2, <2>3, <2>4 DEF ReceivedInv
<1>11. GoesOn(w, q, s, d)
  BY <1>4, <1>5, <1>6, <1>7, <1>10, StillMoves
<1>12. PICK z : At(z, q, s, d) /\ Later(w, z)
  BY <1>11 DEF GoesOn
<1>13. CommitOK(z, s.view_number, s.commit_number) /\ NumbersOK(s)
  BY <1>12, AtHolds
<1>14. s.view_number \in Nat /\ s.commit_number \in Nat
  BY <1>13 DEF NumbersOK
<1>15. Target(z, s.view_number, t)
  BY <1>4, <1>12, <1>14, TargetStays
<1>16. GetStateInv(z, t, m)
  BY <1>2, <1>4, <1>8, <1>13, <1>15 DEF GetStateInv, IsPrimary
<1>17. MessageInv(z, t, m)
  BY <1>16 DEF MessageInv
<1>18. MessageOK(m) /\ m.type \in EarlyTypes
  BY <1>2, <1>4, <1>14 DEF MessageOK, EarlyTypes
<1> HIDE DEF m
<1>19. GoesOn(z, q, Send(s, t, m), d)
  BY <1>12, <1>17, <1>18, SendOneMoves
<1>20. GoesOn(w, q, Send(s, t, m), d)
  BY <1>12, <1>19, GoesThrough
<1> QED
  BY <1>20 DEF SendGetStateTo, m, s

\* s is t in normal status.
Entered(t, s) ==
  /\ s.status = "Normal" /\ s.view_number = t.view_number
  /\ s.last_normal_view = t.view_number /\ InItsView(s)

\* What entering a view changes.
LEMMA EnterIs ==
  ASSUME NEW t, DOMAIN t = Fields, NumbersOK(t), NEW k \in Nat, NEW reply
  PROVE  Entered(t, EnterNormal(CommitUpTo(t, k, reply)))
<1> DEFINE c == CommitUpTo(t, k, reply)
           s == EnterNormal(c)
<1>1. SameBut(t, c, CommitFields)
  BY CommitUpToFrame
<1>2. c.view_number = t.view_number /\ DOMAIN c = Fields
  BY <1>1 DEF SameBut, Fields, CommitFields, ApplyFields
<1> HIDE DEF c
<1>3. SameBut(c, s, NormalFields) /\ s.status = "Normal" /\ s.last_normal_view = c.view_number
  BY <1>2, EnterNormalFrame
<1> HIDE DEF s
<1>4. s.view_number = c.view_number
  BY <1>3 DEF SameBut, Fields, NormalFields, ClearFields
<1>5. Entered(t, s)
  BY <1>2, <1>3, <1>4 DEF Entered, InItsView
<1> QED
  BY <1>5 DEF s, c

\* The log of the best vote is one to start the view with.
LEMMA StartMoves ==
  ASSUME NEW w, NEW q \in ReplicaID, NEW r, NEW d, At(w, q, r, d), DiskOK(d),
         r.status = "ViewChange", IsPrimary(r),
         NEW b, SegmentOK(b), b.start <= r.commit_number,
         Safe(w, r.view_number, SegmentValue(w, b), b.end), Copied(w, SegmentValue(w, b), b.end),
         NEW k \in Nat, CommitOK(w, r.view_number, k),
         NEW merged, merged = MergeLog(r, b)
  PROVE  merged.ok /\ GoesOn(w, q, SendStartView(EnterNormal(CommitUpTo(merged, k, TRUE)), Others(r.id)), d)
<1> DEFINE g == SegmentValue(w, b)
           v == r.view_number
           s == EnterNormal(CommitUpTo(merged, k, TRUE))
<1>1. /\ Ready(r) /\ NumbersOK(r) /\ DOMAIN r = Fields /\ HistoryInv(w) /\ Whole(r)
      /\ Stands(w, q, r) /\ CommitOK(w, v, r.commit_number) /\ Marked(r, d)
      /\ \A i \in 1 .. r.commit_number : EntryAt(r, i) = w.committed[i]
  BY AtHolds
<1>2. r.id = q
  BY AtId
<1>3. r.last_normal_view < v
  BY <1>1 DEF Ready, Placed
<1>4. v \notin w.started
  BY <1>1, <1>3 DEF Stands, Left
<1>5. /\ v \in Nat /\ r.commit_number \in Nat /\ b.start \in Nat /\ b.end \in Nat
      /\ r.last_normal_view \in Nat
  BY <1>1 DEF NumbersOK, SegmentOK
<1>6. /\ r.commit_number <= b.end
      /\ \A i \in 1 .. r.commit_number : g[i] = w.committed[i] /\ Decided(w, v, i, g[i])
  <2> HIDE DEF g
  <2> QED
    BY <1>1, <1>4, <1>5, CommitIsSafe DEF g
<1>7. k <= b.end /\ \A i \in 1 .. k : Decided(w, v, i, g[i])
  <2> HIDE DEF g
  <2> QED
    BY <1>1, <1>4, <1>5, CommitIsSafe DEF g
<1>8. g = [i \in 1 .. b.end |-> g[i]] /\ DOMAIN g = 1 .. b.end
  BY DEF SegmentValue
<1>9. \A i \in b.start + 1 .. b.end : g[i] = b.entries[i]
  BY <1>5 DEF SegmentValue
<1>10. Copied(w, g, b.end) /\ Safe(w, v, g, b.end)
  OBVIOUS
<1> HIDE DEF g
<1>11. Merged(r, merged, g, b.end, d)
  <2>1. b.end = Higher(r.commit_number, b.end)
    BY <1>5, <1>6 DEF Higher
  <2> QED
    BY <1>1, <1>6, <1>8, <1>9, <2>1, MergeGives
<1>12. /\ SameBut(merged, merged, {"view_number", "fetch", "catching_up"}) /\ merged.view_number = v
       /\ SameBut(r, r, RestoreFields \union {"fetch"}) /\ r.log_start <= r.log_start
  BY <1>1, <1>11 DEF Merged, SameBut, Fields, LogFields, NumbersOK
<1>13. /\ Joins(r, merged) /\ Whole(merged) /\ Marked(merged, d)
       /\ merged.recovery_nonce = r.recovery_nonce
       /\ merged.op_number = b.end /\ Value(merged) = g
       /\ merged.commit_number = r.commit_number
  <2>1. v <= v /\ r.last_normal_view <= v
    BY <1>3, <1>5
  <2> QED
    BY <1>1, <1>3, <1>5, <1>11, <1>12, <2>1, MergedJoins
<1>14. \A i \in 1 .. b.end : EntryAt(merged, i) = g[i]
  BY <1>13 DEF Value
<1>15. OrderedLog(g, b.end)
  BY <1>1, <1>5, <1>8, <1>10, CopiedOrdered
<1>16. \A i \in 1 .. r.commit_number : Decided(w, v, i, EntryAt(merged, i))
  <2>1. \A i \in 1 .. r.commit_number : i \in 1 .. b.end
    BY <1>5, <1>6
  <2> QED
    BY <1>6, <1>14, <2>1
<1>17. \A i \in 1 .. k : Decided(w, v, i, EntryAt(merged, i))
  <2>1. \A i \in 1 .. k : i \in 1 .. b.end
    BY <1>5, <1>7
  <2> QED
    BY <1>7, <1>14, <2>1
<1>18. Takes(w, q, merged)
  BY <1>2, <1>4, <1>10, <1>12, <1>13, <1>15, <1>16 DEF Takes, IsPrimary
<1>19. GoesOn(w, q, s, d)
  BY <1>7, <1>12, <1>13, <1>17, <1>18, EnterMoves
<1>20. s.status = "Normal" /\ s.view_number = v
  <2>1. Entered(merged, s)
    BY <1>13, EnterIs DEF Whole
  <2> QED
    BY <1>12, <2>1 DEF Entered
<1> HIDE DEF s
<1>21. PICK z : At(z, q, s, d) /\ Later(w, z)
  BY <1>19 DEF GoesOn
<1>22. s.id = q
  BY <1>21, AtId
<1>23. Serves(s)
  BY <1>2, <1>20, <1>22 DEF Serves, IsPrimary
<1>24. \A x \in Others(r.id) : x \in ReplicaID
  BY DEF Others
<1>25. GoesOn(z, q, SendStartView(s, Others(r.id)), d)
  BY <1>21, <1>23, <1>24, SendStartViewMoves
<1>26. GoesOn(w, q, SendStartView(s, Others(r.id)), d)
  BY <1>21, <1>25, GoesThrough
<1> QED
  BY <1>13, <1>26 DEF s, Whole

\* try_start_view.
LEMMA TryStartViewMoves ==
  ASSUME NEW w, NEW q \in ReplicaID, NEW r, NEW d, At(w, q, r, d), DiskOK(d),
         r.status = "ViewChange", IsPrimary(r), Cardinality(r.do_view_change_from) >= Quorum
  PROVE  GoesOn(w, q, TryStartView(r), d)
<1> DEFINE S == r.do_view_change_from
           best == Best(S)
           b == best.segment
           merged == MergeLog(r, b)
           k == Max({e.commit_number : e \in S})
           v == r.view_number
<1>1. /\ Ready(r) /\ NumbersOK(r) /\ HistoryInv(w) /\ ReceivedOK(r)
      /\ ReceivedInv(w, q, r) /\ VotesInv(w, q, r)
  <2>1. /\ Ready(r) /\ NumbersOK(r) /\ HistoryInv(w) /\ ReceivedOK(r) /\ ReceivedInv(w, q, r)
    BY AtHolds
  <2> QED
    BY <2>1 DEF ReceivedInv
<1>2. r.id = q /\ PrimaryOf(v) = q
  BY AtId DEF IsPrimary
<1>3. /\ IsFiniteSet(S) /\ \A e \in S : DvcOK(e) /\ DvcInv(w, v, e)
      /\ \A e, f \in S : e.replica_id = f.replica_id => e = f
      /\ \A e \in S : e.replica_id = q => e.segment.start <= r.commit_number
  BY <1>1 DEF ReceivedOK, VotesInv
<1>4. v \in Nat /\ r.commit_number \in Nat
  BY <1>1 DEF NumbersOK
<1> HIDE DEF S
<1>5. best \in S /\ Safe(w, v, SegmentValue(w, b), b.end)
  BY <1>1, <1>3, <1>4, ViewStart DEF S
<1> HIDE DEF best
<1>6. DvcOK(best) /\ DvcInv(w, v, best)
  BY <1>3, <1>5
<1>7. SegmentOK(b) /\ b.start \in Nat /\ best.replica_id \in ReplicaID
  BY <1>6 DEF DvcOK, StateOK, SegmentOK
<1>8. CASE b.start > r.commit_number
  <2>1. best.replica_id # q
    BY <1>3, <1>4, <1>5, <1>7, <1>8
  <2>2. /\ w.view[best.replica_id] >= v
        /\ Waits(w, v, best.replica_id) =>
             /\ w.rep[best.replica_id].op_number = b.end
             /\ Value(w.rep[best.replica_id]) = SegmentValue(w, b)
    BY <1>6 DEF DvcInv
  <2>3. Target(w, v, best.replica_id)
    BY <1>2, <1>5, <2>1, <2>2 DEF Target
  <2>4. GoesOn(w, q, SendGetStateTo([r EXCEPT !.catching_up = best.replica_id],
                                    best.replica_id, r.commit_number), d)
    BY <1>7, <2>3, AskMoves
  <2>5. InstallsFromCommit(r, b) # "Log"
    BY <1>8 DEF InstallsFromCommit, Installs
  <2> QED
    BY <2>4, <2>5 DEF TryStartView, best, S
<1>9. CASE ~(b.start > r.commit_number)
  <2>1. b.start <= r.commit_number
    BY <1>4, <1>7, <1>9
  <2>2. InstallsFromCommit(r, b) = "Log"
    BY <1>9 DEF InstallsFromCommit, Installs
  <2>3. Copied(w, SegmentValue(w, b), b.end)
    BY <1>6 DEF DvcInv, Carried
  <2>4. k \in Nat /\ CommitOK(w, v, k)
    <3>1. S # {} /\ \A e \in S : e.commit_number \in Nat
      BY <1>3, <1>5 DEF DvcOK, StateOK
    <3>2. PICK e \in S : k = e.commit_number
      BY <1>3, <3>1, GreatestIsOne
    <3>3. CommitOK(w, v, e.commit_number)
      BY <1>3 DEF DvcInv
    <3> QED
      BY <3>1, <3>2, <3>3
  <2> HIDE DEF k
  <2>5. merged.ok /\ GoesOn(w, q, SendStartView(EnterNormal(CommitUpTo(merged, k, TRUE)), Others(r.id)), d)
    BY <1>5, <1>7, <2>1, <2>3, <2>4, StartMoves
  <2> QED
    BY <2>2, <2>5 DEF TryStartView, best, S, k
<1> QED
  BY <1>8, <1>9

-----------------------------------------------------------------------------
(* Votes for a view *)

\* The primary of the next view counts a vote.
LEMMA RecordDoViewChangeMoves ==
  ASSUME NEW w, NEW q \in ReplicaID, NEW r, NEW d, At(w, q, r, d), DiskOK(d),
         r.status = "ViewChange", IsPrimary(r), NEW dvc, DvcOK(dvc), DvcInv(w, r.view_number, dvc),
         dvc.replica_id = q => dvc.segment.start <= r.commit_number
  PROVE  GoesOn(w, q, RecordDoViewChange(r, dvc), d)
<1> DEFINE S == r.do_view_change_from
           T == {e \in S : e.replica_id # dvc.replica_id} \union {dvc}
           s == [r EXCEPT !.do_view_change_from =
                   {e \in @ : e.replica_id # dvc.replica_id} \union {dvc}]
<1>1. /\ Ready(r) /\ NumbersOK(r) /\ DOMAIN r = Fields /\ ReceivedInv(w, q, r) /\ Sound(r)
      /\ ReceivedOK(r)
  BY AtHolds
<1>2. r.id = q
  BY AtId
<1>3. SameBut(r, s, {"do_view_change_from"}) /\ s.do_view_change_from = T
  BY <1>1 DEF SameBut, Fields
<1> HIDE DEF s
<1>4. /\ s.id = r.id /\ s.view_number = r.view_number /\ s.status = r.status
      /\ s.catching_up = r.catching_up /\ s.fetch = r.fetch
      /\ s.recovery_responses = r.recovery_responses /\ s.commit_number = r.commit_number
      /\ s.replies = r.replies /\ s.log_start = r.log_start /\ s.applied = r.applied
      /\ s.log = r.log /\ s.sm = r.sm /\ s.serving = r.serving /\ Out(s) = Out(r)
      /\ s.last_normal_view = r.last_normal_view /\ s.op_number = r.op_number
      /\ s.log_changed_from = r.log_changed_from /\ s.durable = r.durable
      /\ s.recovery_nonce = r.recovery_nonce /\ s.acked = r.acked
  BY <1>3 DEF SameBut, Fields, Out
<1>5. /\ IsFiniteSet(S) /\ \A e, f \in S : e.replica_id = f.replica_id => e = f
      /\ \A e \in S : DvcOK(e) /\ DvcInv(w, r.view_number, e)
      /\ \A e \in S : e.replica_id = q => e.segment.start <= r.commit_number
  BY <1>1 DEF ReceivedInv, ReceivedOK, VotesInv
<1>6. /\ IsFiniteSet(T) /\ Cardinality(T) >= Cardinality(S)
      /\ \A e, f \in T : e.replica_id = f.replica_id => e = f
  BY <1>5, VotesGrow
<1>7. Cardinality(S) \in Nat /\ Cardinality(T) \in Nat
  BY <1>5, <1>6, FS_CardinalityType
<1>8. /\ \A e \in T : DvcOK(e) /\ DvcInv(w, r.view_number, e)
      /\ \A e \in T : e.replica_id = q => e.segment.start <= r.commit_number
  BY <1>5
<1> HIDE DEF S, T
<1>9. Quorum \in Nat
  BY ConfigAssumption DEF Quorum
<1>10. Ready(s)
  <2>1. NumbersOK(s)
    BY <1>1, <1>4 DEF NumbersOK
  <2>2. ReceivedOK(s)
    BY <1>1, <1>3, <1>4, <1>6, <1>8 DEF ReceivedOK
  <2>3. Placed(s)
    BY <1>1, <1>4 DEF Ready, Placed, IsPrimary
  <2>4. SameBut(r, s, QuietFields \union {"do_view_change_from", "catching_up",
                                           "recovery_responses", "fetch"})
    BY <1>3 DEF SameBut
  <2> QED
    BY <1>1, <2>1, <2>2, <2>3, <2>4, MildFollows DEF Follows
<1>11. SameBut(r, s, StillFields)
  BY <1>3 DEF SameBut, StillFields
<1>12. Sound(s)
  BY <1>1, <1>4 DEF Sound
<1>13. IsPrimary(s)
  BY <1>4 DEF IsPrimary
<1>14. ReceivedInv(w, q, s)
  <2>1. VotesInv(w, q, s)
    BY <1>3, <1>4, <1>6, <1>8, <1>13 DEF VotesInv
  <2>2. CatchingInv(w, s)
    <3> HIDE DEF Quorum
    <3>1. s.catching_up # Nobody => Cardinality(S) >= Quorum /\ Target(w, s.view_number, s.catching_up)
      BY <1>1, <1>4 DEF ReceivedInv, CatchingInv, S
    <3>2. s.catching_up # Nobody => Cardinality(T) >= Quorum
      BY <1>6, <1>7, <1>9, <3>1
    <3> QED
      BY <1>3, <1>4, <1>13, <3>1, <3>2 DEF CatchingInv
  <2>3. FetchInv(w, q, s)
    BY <1>1, <1>4 DEF ReceivedInv, FetchInv
  <2>4. ResponsesInv(w, q, s)
    BY <1>4 DEF ResponsesInv
  <2> QED
    BY <2>1, <2>2, <2>3, <2>4 DEF ReceivedInv
<1>15. GoesOn(w, q, s, d)
  BY <1>4, <1>10, <1>11, <1>12, <1>14, StillMoves
<1>16. PICK z : At(z, q, s, d) /\ Later(w, z)
  BY <1>15 DEF GoesOn
<1>17. CASE Cardinality(s.do_view_change_from) < Quorum
  BY <1>15, <1>17 DEF RecordDoViewChange, s
<1>18. CASE ~(Cardinality(s.do_view_change_from) < Quorum)
  <2> HIDE DEF Quorum
  <2>1. Cardinality(s.do_view_change_from) >= Quorum
    BY <1>3, <1>7, <1>9, <1>18
  <2>2. GoesOn(z, q, TryStartView(s), d)
    BY <1>4, <1>13, <1>16, <2>1, TryStartViewMoves
  <2>3. GoesOn(w, q, TryStartView(s), d)
    BY <1>16, <2>2, GoesThrough
  <2> QED
    BY <1>18, <2>3 DEF RecordDoViewChange, s
<1> QED
  BY <1>17, <1>18

\* A replica's segment after an op that is committed here, with what is
\* committed before, is its log.
LEMMA SegmentIsValue ==
  ASSUME NEW w, NEW q \in ReplicaID, NEW r, NEW d, At(w, q, r, d),
         NEW op \in Nat, r.log_start <= op, op <= r.commit_number, NEW checkpoint
  PROVE  SegmentValue(w, Segment(r, op, checkpoint)) = Value(r)
<1>1. /\ NumbersOK(r) /\ Whole(r) /\ \A i \in r.log_start + 1 .. r.op_number : r.log[i] = EntryAt(r, i)
      /\ \A i \in 1 .. r.commit_number : EntryAt(r, i) = w.committed[i]
  BY AtHolds
<1>2. r.op_number \in Nat /\ r.log_start \in Nat /\ r.commit_number \in Nat
  BY <1>1 DEF NumbersOK
<1> DEFINE s == Segment(r, op, checkpoint)
<1>3. s.end = r.op_number /\ s.start = op /\ \A i \in op + 1 .. r.op_number : s.entries[i] = r.log[i]
  BY DEF Segment
<1> HIDE DEF s
<1>4. \A i \in 1 .. r.op_number :
        (IF i <= s.start THEN w.committed[i] ELSE s.entries[i]) = EntryAt(r, i)
  <2> SUFFICES ASSUME NEW i \in 1 .. r.op_number
               PROVE  (IF i <= s.start THEN w.committed[i] ELSE s.entries[i]) = EntryAt(r, i)
    OBVIOUS
  <2>1. CASE i <= op
    <3>1. i \in 1 .. r.commit_number
      BY <1>2, <2>1
    <3> QED
      BY <1>1, <1>3, <2>1, <3>1
  <2>2. CASE ~(i <= op)
    <3>1. i \in op + 1 .. r.op_number /\ i \in r.log_start + 1 .. r.op_number
      BY <1>2, <2>2
    <3> QED
      BY <1>1, <1>3, <2>2, <3>1
  <2> QED
    BY <2>1, <2>2
<1>5. SegmentValue(w, s) = Value(r)
  BY <1>3, <1>4 DEF SegmentValue, Value
<1> QED
  BY <1>5 DEF s

\* A replica votes.
LEMMA SendDoViewChangeMoves ==
  ASSUME NEW w, NEW q \in ReplicaID, NEW r, NEW d, At(w, q, r, d), DiskOK(d),
         r.status = "ViewChange"
  PROVE  GoesOn(w, q, SendDoViewChange(r), d)
<1> DEFINE dvc == [replica_id |-> r.id, last_normal_view |-> r.last_normal_view,
                   segment |-> WholeLog(r), commit_number |-> r.commit_number]
           p == PrimaryOf(r.view_number)
           m == [type |-> "DoViewChange", view_number |-> r.view_number, dvc |-> dvc]
<1>1. /\ Ready(r) /\ NumbersOK(r) /\ Whole(r) /\ CommitOK(w, r.view_number, r.commit_number)
  BY AtHolds
<1>2. r.id = q
  BY AtId
<1>3. /\ r.view_number \in Nat /\ r.log_start \in Nat /\ r.op_number \in Nat /\ r.commit_number \in Nat
      /\ r.last_normal_view \in Nat /\ r.last_normal_view < r.view_number
      /\ r.log_start <= r.commit_number /\ r.commit_number <= r.op_number
  BY <1>1 DEF NumbersOK, Whole, Ready, Placed
<1>4. WholeLog(r).start = r.log_start /\ WholeLog(r).end = r.op_number
  BY DEF WholeLog, Segment
<1>5. SegmentValue(w, WholeLog(r)) = Value(r)
  <2>1. r.log_start <= r.log_start
    BY <1>3
  <2>2. SegmentValue(w, Segment(r, r.log_start, FALSE)) = Value(r)
    BY <1>3, <2>1, SegmentIsValue
  <2> QED
    BY <2>2 DEF WholeLog
<1>6. /\ Carried(w, q, r.last_normal_view, Value(r), r.op_number)
      /\ \A v \in Nat : w.ack[v][q] > 0 => v <= r.last_normal_view
  BY AtCarries
<1>7. w.rep[q] = r /\ w.view[q] = r.view_number
  BY AtIs
<1>8. /\ dvc.replica_id = q /\ dvc.last_normal_view = r.last_normal_view
      /\ dvc.segment = WholeLog(r) /\ dvc.commit_number = r.commit_number
  BY <1>2
<1> HIDE DEF dvc
<1>9. DvcInv(w, r.view_number, dvc)
  <2>1. \A u \in 0 .. r.view_number - 1 : w.ack[u][q] > 0 => u <= r.last_normal_view
    BY <1>3, <1>6
  <2>2. w.view[q] >= r.view_number
    BY <1>3, <1>7
  <2>3. dvc.segment.start <= dvc.commit_number /\ dvc.commit_number <= dvc.segment.end
    BY <1>3, <1>4, <1>8
  <2>4. Carried(w, q, r.last_normal_view, SegmentValue(w, dvc.segment), dvc.segment.end)
    BY <1>4, <1>5, <1>6, <1>8
  <2>5. w.rep[q].op_number = dvc.segment.end /\ Value(w.rep[q]) = SegmentValue(w, dvc.segment)
    BY <1>4, <1>5, <1>7, <1>8
  <2> QED
    BY <1>1, <1>3, <1>8, <2>1, <2>2, <2>3, <2>4, <2>5 DEF DvcInv
<1>10. DvcOK(dvc)
  BY <1>3, <1>4, <1>8 DEF DvcOK, StateOK, SegmentOK
<1>11. CASE IsPrimary(r)
  <2>1. dvc.segment.start <= r.commit_number
    BY <1>3, <1>4, <1>8
  <2>2. GoesOn(w, q, RecordDoViewChange(r, dvc), d)
    BY <1>9, <1>10, <1>11, <2>1, RecordDoViewChangeMoves
  <2> QED
    BY <1>11, <2>2 DEF SendDoViewChange, dvc
<1>12. CASE ~IsPrimary(r)
  <2>1. p \in ReplicaID
    BY <1>3, PrimaryIsReplica
  <2>2. MessageOK(m)
    BY <1>3, <1>10 DEF MessageOK, EarlyTypes, Votes
  <2>3. Signed(r, m)
    BY <1>2, <1>3, <1>8 DEF Signed, IsPromise, Signer, KeepsNow, Keeps
  <2>4. dvc.replica_id # PrimaryOf(r.view_number)
    BY <1>2, <1>8, <1>12 DEF IsPrimary
  <2>5. MessageInv(w, p, m)
    BY <1>9, <2>4 DEF MessageInv
  <2> HIDE DEF m
  <2>6. GoesOn(w, q, Send(r, p, m), d)
    BY <2>1, <2>2, <2>3, <2>5, SendOneMoves
  <2> QED
    BY <1>12, <2>6 DEF SendDoViewChange, dvc, m
<1> QED
  BY <1>11, <1>12

\* It does so once enough others left the view.
LEMMA MaybeSendDoViewChangeMoves ==
  ASSUME NEW w, NEW q \in ReplicaID, NEW r, NEW d, At(w, q, r, d), DiskOK(d)
  PROVE  GoesOn(w, q, MaybeSendDoViewChange(r), d)
<1> DEFINE s == [r EXCEPT !.do_view_change_sent = TRUE]
<1>1. Ready(r) /\ NumbersOK(r) /\ DOMAIN r = Fields
  BY AtHolds
<1>2. MaybeSendDoViewChange(r) = r \/ (r.status = "ViewChange" /\ MaybeSendDoViewChange(r) = SendDoViewChange(s))
  BY DEF MaybeSendDoViewChange
<1>3. CASE MaybeSendDoViewChange(r) = r
  BY <1>3, StaysAt
<1>4. CASE r.status = "ViewChange" /\ MaybeSendDoViewChange(r) = SendDoViewChange(s)
  <2>1. SameBut(r, s, {"do_view_change_sent"}) /\ s.status = r.status /\ Out(s) = Out(r)
    BY <1>1 DEF SameBut, Fields, Out
  <2> HIDE DEF s
  <2>2. SameBut(r, s, SendingFields)
    BY <2>1 DEF SameBut, SendingFields
  <2>3. Ready(s)
    <3>1. {"do_view_change_sent"} \subseteq QuietFields \ {"commit_number", "applied", "acked", "serving"}
      BY DEF QuietFields, CommitFields, ApplyFields
    <3> QED
      BY <1>1, <2>1, <3>1, QuietStep DEF Follows
  <2>4. GoesOn(w, q, s, d)
    BY <2>1, <2>2, <2>3, SendingMoves
  <2>5. PICK z : At(z, q, s, d) /\ Later(w, z)
    BY <2>4 DEF GoesOn
  <2>6. GoesOn(z, q, SendDoViewChange(s), d)
    BY <1>4, <2>1, <2>5, SendDoViewChangeMoves
  <2> QED
    BY <1>4, <2>5, <2>6, GoesThrough
<1> QED
  BY <1>2, <1>3, <1>4

-----------------------------------------------------------------------------
(* Messages of a view change *)

\* on_start_view_change.
LEMMA OnStartViewChangeMoves ==
  ASSUME NEW w, NEW q \in ReplicaID, NEW r, NEW d, At(w, q, r, d), DiskOK(d),
         r.status # "Recovering", NEW m, MessageOK(m), m.type = "StartViewChange"
  PROVE  GoesOn(w, q, OnStartViewChange(r, m), d)
<1> DEFINE s == IF m.view_number > r.view_number THEN StartViewChange(r, m.view_number) ELSE r
           t == [s EXCEPT !.start_view_change_from = @ \union {m.replica_id}]
<1>0. m.view_number \in Nat /\ r.view_number \in Nat
  BY AtHolds DEF NumbersOK, MessageOK, EarlyTypes, Votes
<1>1. \/ OnStartViewChange(r, m) = r
      \/ Serves(r) /\ OnStartViewChange(r, m) = SendStartView(r, {m.replica_id})
      \/ OnStartViewChange(r, m) = MaybeSendDoViewChange(t)
  <2>1. CASE m.view_number < r.view_number
    <3>1. ~(m.view_number = r.view_number)
      BY <1>0, <2>1
    <3> QED
      BY <2>1, <3>1, Zenon DEF OnStartViewChange
  <2>2. CASE ~(m.view_number < r.view_number) /\ m.view_number = r.view_number /\ r.status # "ViewChange"
    BY <2>2, Zenon DEF OnStartViewChange
  <2>3. CASE /\ ~(m.view_number < r.view_number)
             /\ ~(m.view_number = r.view_number /\ r.status # "ViewChange")
    BY <2>3, Zenon DEF OnStartViewChange
  <2> QED
    BY <2>1, <2>2, <2>3
<1>2. CASE OnStartViewChange(r, m) = r
  BY <1>2, StaysAt
<1>3. m.view_number \in Nat /\ m.replica_id \in ReplicaID
  BY DEF MessageOK, EarlyTypes, Votes
<1>4. CASE Serves(r) /\ OnStartViewChange(r, m) = SendStartView(r, {m.replica_id})
  BY <1>3, <1>4, SendStartViewMoves
<1>5. CASE OnStartViewChange(r, m) = MaybeSendDoViewChange(t)
  <2>1. GoesOn(w, q, s, d)
    <3>1. CASE m.view_number > r.view_number
      <4>1. NumbersOK(r)
        BY AtHolds
      <4>2. r.view_number <= m.view_number /\ r.last_normal_view < m.view_number
        BY <1>3, <3>1, <4>1 DEF NumbersOK
      <4>3. GoesOn(w, q, StartViewChange(r, m.view_number), d)
        BY <1>3, <4>2, StartViewChangeMoves
      <4> QED
        BY <3>1, <4>3
    <3>2. CASE ~(m.view_number > r.view_number)
      BY <3>2, StaysAt
    <3> QED
      BY <3>1, <3>2
  <2> HIDE DEF s
  <2>2. PICK z : At(z, q, s, d) /\ Later(w, z)
    BY <2>1 DEF GoesOn
  <2>3. Ready(s) /\ DOMAIN s = Fields
    BY <2>2, AtHolds
  <2>4. SameBut(s, t, {"start_view_change_from"}) /\ Out(t) = Out(s)
    BY <2>3 DEF SameBut, Fields, Out
  <2> HIDE DEF t
  <2>5. SameBut(s, t, SendingFields)
    BY <2>4 DEF SameBut, SendingFields
  <2>6. Ready(t)
    <3>1. {"start_view_change_from"} \subseteq QuietFields \ {"commit_number", "applied", "acked", "serving"}
      BY DEF QuietFields, CommitFields, ApplyFields
    <3> QED
      BY <2>3, <2>4, <3>1, QuietStep DEF Follows
  <2>7. GoesOn(z, q, t, d)
    BY <2>2, <2>4, <2>5, <2>6, SendingMoves
  <2>8. PICK y : At(y, q, t, d) /\ Later(z, y)
    BY <2>7 DEF GoesOn
  <2>9. GoesOn(y, q, MaybeSendDoViewChange(t), d)
    BY <2>8, MaybeSendDoViewChangeMoves
  <2>10. GoesOn(z, q, MaybeSendDoViewChange(t), d)
    BY <2>8, <2>9, GoesThrough
  <2> QED
    BY <1>5, <2>2, <2>10, GoesThrough
<1> QED
  BY <1>1, <1>2, <1>4, <1>5

\* on_do_view_change.
LEMMA OnDoViewChangeMoves ==
  ASSUME NEW w, NEW q \in ReplicaID, NEW r, NEW d, At(w, q, r, d), DiskOK(d),
         r.status # "Recovering", NEW m, MessageOK(m), m.type = "DoViewChange", MessageInv(w, q, m)
  PROVE  GoesOn(w, q, OnDoViewChange(r, m), d)
<1> DEFINE s == IF m.view_number > r.view_number THEN StartViewChange(r, m.view_number) ELSE r
           v == m.view_number
<1>0. m.view_number \in Nat /\ r.view_number \in Nat
  BY AtHolds DEF NumbersOK, MessageOK, EarlyTypes, Votes
<1>1. \/ OnDoViewChange(r, m) = r
      \/ Serves(r) /\ OnDoViewChange(r, m) = SendStartView(r, {m.dvc.replica_id})
      \/ /\ ~(v < r.view_number) /\ PrimaryOf(v) = r.id
         /\ ~(v = r.view_number /\ IsPrimary(r) /\ r.status = "Normal")
         /\ OnDoViewChange(r, m) = RecordDoViewChange(s, m.dvc)
  <2>1. CASE v < r.view_number \/ PrimaryOf(v) # r.id
    <3>1. ~(v = r.view_number /\ IsPrimary(r) /\ r.status = "Normal")
      BY <1>0, <2>1 DEF IsPrimary
    <3> QED
      BY <2>1, <3>1, Zenon DEF OnDoViewChange
  <2>2. CASE ~(v < r.view_number \/ PrimaryOf(v) # r.id) /\ v = r.view_number /\ IsPrimary(r) /\ r.status = "Normal"
    BY <2>2, Zenon DEF OnDoViewChange, Serves
  <2>3. CASE /\ ~(v < r.view_number \/ PrimaryOf(v) # r.id)
             /\ ~(v = r.view_number /\ IsPrimary(r) /\ r.status = "Normal")
    BY <2>3, Zenon DEF OnDoViewChange
  <2> QED
    BY <2>1, <2>2, <2>3
<1>2. CASE OnDoViewChange(r, m) = r
  BY <1>2, StaysAt
<1>3. /\ v \in Nat /\ DvcOK(m.dvc) /\ m.dvc.replica_id \in ReplicaID
      /\ m.dvc.replica_id # PrimaryOf(v) /\ DvcInv(w, v, m.dvc)
  BY DEF MessageOK, EarlyTypes, Votes, MessageInv, DvcOK
<1>4. CASE Serves(r) /\ OnDoViewChange(r, m) = SendStartView(r, {m.dvc.replica_id})
  BY <1>3, <1>4, SendStartViewMoves
<1>5. CASE /\ ~(v < r.view_number) /\ PrimaryOf(v) = r.id
           /\ ~(v = r.view_number /\ IsPrimary(r) /\ r.status = "Normal")
           /\ OnDoViewChange(r, m) = RecordDoViewChange(s, m.dvc)
  <2>0. Ready(r) /\ NumbersOK(r) /\ r.view_number \in Nat
    <3>1. Ready(r) /\ NumbersOK(r)
      BY AtHolds
    <3> QED
      BY <3>1 DEF NumbersOK
  <2>1. GoesOn(w, q, s, d) /\ s.status = "ViewChange" /\ s.view_number = v
    <3>1. CASE v > r.view_number
      <4>2. r.view_number <= v /\ r.last_normal_view < v
        BY <1>3, <3>1, <2>0 DEF NumbersOK
      <4>3. GoesOn(w, q, StartViewChange(r, v), d)
        BY <1>3, <4>2, StartViewChangeMoves
      <4>4. StartViewChange(r, v).status = "ViewChange" /\ StartViewChange(r, v).view_number = v
        BY <1>3, <2>0, <4>2, StartViewChangeFollows
      <4> QED
        BY <3>1, <4>3, <4>4
    <3>2. CASE ~(v > r.view_number)
      <4>1. v = r.view_number
        BY <1>3, <1>5, <2>0, <3>2
      <4>2. IsPrimary(r) /\ r.status # "Normal"
        BY <1>5, <4>1 DEF IsPrimary
      <4>3. r.status = "ViewChange"
        BY <2>0, <4>2 DEF Ready, ReplicaOK, Placed, Status
      <4> QED
        BY <3>2, <4>1, <4>3, StaysAt
    <3> QED
      BY <3>1, <3>2
  <2> HIDE DEF s
  <2>2. PICK z : At(z, q, s, d) /\ Later(w, z)
    BY <2>1 DEF GoesOn
  <2>3. r.id = q /\ s.id = q
    BY <2>2, AtId
  <2>4. IsPrimary(s) /\ m.dvc.replica_id # q
    BY <1>3, <1>5, <2>1, <2>3 DEF IsPrimary
  <2>5. DvcInv(z, v, m.dvc)
    BY <1>3, <2>2, DvcStays
  <2>6. GoesOn(z, q, RecordDoViewChange(s, m.dvc), d)
    BY <1>3, <2>1, <2>2, <2>4, <2>5, RecordDoViewChangeMoves
  <2> QED
    BY <1>5, <2>2, <2>6, GoesThrough
<1> QED
  BY <1>1, <1>2, <1>4, <1>5

-----------------------------------------------------------------------------
(* A replica joins a view that started *)

\* A replica is past the views it started.
LEMMA NotItsPrimary ==
  ASSUME NEW w, NEW q \in ReplicaID, NEW r, NEW d, At(w, q, r, d), NEW v \in w.started,
         r.view_number < v \/ (r.view_number = v /\ r.status = "ViewChange")
  PROVE  PrimaryOf(v) # q
<1>1. /\ Ready(r) /\ NumbersOK(r) /\ HistoryTyped(w) /\ HistoryInv(w) /\ Stands(w, q, r)
  BY AtHolds
<1>2. r.id = q /\ w.view[q] = r.view_number
  BY AtId, AtIs
<1> SUFFICES ASSUME PrimaryOf(v) = q PROVE FALSE
  OBVIOUS
<1>3. v \in Nat /\ r.view_number \in Nat
  BY <1>1 DEF HistoryTyped, NumbersOK
<1>4. r.view_number >= v
  BY <1>1, <1>2 DEF HistoryInv
<1>5. r.view_number = v /\ r.status = "ViewChange" /\ IsPrimary(r)
  BY <1>2, <1>3, <1>4 DEF IsPrimary
<1>6. Left(w, q, r)
  BY <1>1, <1>5 DEF Ready, Placed, Stands
<1> QED
  BY <1>5, <1>6 DEF Left

\* b is r, or r with a checkpoint, and what it has committed is.
Basis(w, r, b, v, d) ==
  /\ SameBut(r, b, RestoreFields \union {"fetch"}) /\ Whole(b) /\ Marked(b, d)
  /\ r.log_start <= b.log_start /\ r.commit_number <= b.commit_number
  /\ CommitOK(w, v, b.commit_number)
  /\ \A i \in 1 .. b.commit_number : EntryAt(b, i) = w.committed[i]

\* A replica takes over the log of a view that started.
LEMMA JoinMoves ==
  ASSUME NEW w, NEW q \in ReplicaID, NEW r, NEW d, At(w, q, r, d), DiskOK(d),
         NEW v \in w.started, PrimaryOf(v) # q,
         r.view_number <= v, r.status # "Recovering" => r.last_normal_view < v,
         NEW b, Basis(w, r, b, v, d), NEW segment, SegmentOK(segment),
         segment.start <= b.commit_number, SegmentOf(w, v, segment),
         r.status = "Recovering" => w.ack[v][q] <= segment.end,
         NEW k \in Nat, k <= segment.end, CommitOK(w, v, k), NEW reply,
         NEW s, s = MergeLog(b, segment),
         NEW t, SameBut(s, t, {"view_number", "fetch", "catching_up"}), t.view_number = v
  PROVE  /\ s.ok /\ GoesOn(w, q, EnterNormal(CommitUpTo(t, k, reply)), d)
         /\ InItsView(EnterNormal(CommitUpTo(t, k, reply)))
<1> DEFINE n == Higher(b.commit_number, segment.end)
           g == [i \in 1 .. n |-> w.log[v][i]]
<1>1. /\ Ready(r) /\ NumbersOK(r) /\ HistoryTyped(w) /\ HistoryInv(w)
  BY AtHolds
<1>2. /\ SameBut(r, b, RestoreFields \union {"fetch"}) /\ Whole(b) /\ Marked(b, d)
      /\ r.log_start <= b.log_start /\ CommitOK(w, v, b.commit_number)
      /\ \A i \in 1 .. b.commit_number : EntryAt(b, i) = w.committed[i]
  BY DEF Basis
<1>3. /\ b.commit_number \in Nat /\ segment.end \in Nat /\ segment.start \in Nat /\ v \in Nat
      /\ r.last_normal_view \in Nat /\ r.view_number \in Nat /\ r.last_normal_view <= v
  <2>1. v \in Nat /\ r.last_normal_view \in Nat /\ r.view_number \in Nat /\ r.last_normal_view <= r.view_number
    BY <1>1 DEF NumbersOK, HistoryTyped
  <2>2. b.commit_number \in Nat /\ segment.end \in Nat /\ segment.start \in Nat
    BY <1>2 DEF Whole, NumbersOK, SegmentOK
  <2> QED
    BY <2>1, <2>2
<1>4. /\ w.len[v] \in Nat /\ w.base[v] \in Nat /\ w.ack[v][q] \in Nat
  BY <1>1, <1>3, HistoryNumbers
<1>5. n \in Nat /\ b.commit_number <= n /\ segment.end <= n /\ (n = b.commit_number \/ n = segment.end)
  BY <1>3 DEF Higher
<1>6. \A i \in 1 .. b.commit_number : Decided(w, v, i, w.committed[i])
  BY <1>2 DEF CommitOK
<1>7. \A i \in 1 .. b.commit_number : i <= w.len[v] /\ w.log[v][i] = w.committed[i]
  BY <1>1, <1>6, DecidedInView
<1>8. \A i \in 1 .. k : Decided(w, v, i, w.committed[i]) /\ w.log[v][i] = w.committed[i]
  <2>1. \A i \in 1 .. k : Decided(w, v, i, w.committed[i])
    BY DEF CommitOK
  <2> QED
    BY <1>1, <2>1, DecidedInView
<1>9. b.commit_number <= w.len[v]
  <2>1. CASE b.commit_number = 0
    BY <1>4, <2>1
  <2>2. CASE b.commit_number # 0
    <3>1. b.commit_number \in 1 .. b.commit_number
      BY <1>3, <2>2
    <3> QED
      BY <1>7, <3>1
  <2> QED
    BY <2>1, <2>2
<1>10. /\ w.base[v] <= segment.end /\ segment.end <= w.len[v]
       /\ \A i \in segment.start + 1 .. segment.end : segment.entries[i] = w.log[v][i]
  BY DEF SegmentOf
<1>11. w.base[v] <= n /\ n <= w.len[v]
  BY <1>3, <1>4, <1>5, <1>9, <1>10
<1>12. g = [i \in 1 .. n |-> g[i]] /\ DOMAIN g = 1 .. n /\ \A i \in 1 .. n : g[i] = w.log[v][i]
  OBVIOUS
<1>13. n = Higher(b.commit_number, segment.end)
  OBVIOUS
<1> HIDE DEF n, g
<1>14. /\ \A i \in 1 .. b.commit_number : g[i] = EntryAt(b, i)
       /\ \A i \in segment.start + 1 .. segment.end : g[i] = segment.entries[i]
  <2>1. \A i \in 1 .. b.commit_number : i \in 1 .. n
    BY <1>3, <1>5
  <2>2. \A i \in segment.start + 1 .. segment.end : i \in 1 .. n
    BY <1>3, <1>5
  <2> QED
    BY <1>2, <1>7, <1>10, <1>12, <2>1, <2>2
<1>15. Merged(b, s, g, n, d)
  BY <1>2, <1>12, <1>13, <1>14, MergeGives
<1>16. /\ Joins(r, t) /\ Whole(t) /\ Marked(t, d) /\ t.recovery_nonce = r.recovery_nonce
       /\ t.op_number = n /\ Value(t) = g /\ t.commit_number = b.commit_number
  BY SMTT(30), <1>1, <1>2, <1>3, <1>15, MergedJoins
<1>17. \A i \in 1 .. n : EntryAt(t, i) = g[i]
  BY <1>16 DEF Value
<1>18. Member(w, v, g, n)
  BY <1>11, <1>12 DEF Member
<1>19. Copied(w, g, n)
  BY <1>11, <1>12 DEF Copied
<1>20. OrderedLog(g, n)
  BY <1>1, <1>5, <1>12, <1>19, CopiedOrdered
<1>21. \A i \in 1 .. b.commit_number : Decided(w, v, i, EntryAt(t, i))
  <2>1. \A i \in 1 .. b.commit_number : i \in 1 .. n
    BY <1>3, <1>5
  <2> QED
    BY <1>6, <1>7, <1>12, <1>17, <2>1
<1>22. k <= n /\ \A i \in 1 .. k : Decided(w, v, i, EntryAt(t, i))
  <2>1. k <= n /\ \A i \in 1 .. k : i \in 1 .. n
    BY <1>3, <1>5
  <2> QED
    BY <1>8, <1>12, <1>17, <2>1
<1>23. Takes(w, q, t)
  BY <1>16, <1>18, <1>20, <1>21 DEF Takes
<1>24. r.status = "Recovering" => w.ack[v][q] <= t.op_number
  BY <1>3, <1>4, <1>5, <1>16
<1>25. GoesOn(w, q, EnterNormal(CommitUpTo(t, k, reply)), d)
  BY <1>16, <1>22, <1>23, <1>24, EnterMoves
<1>26. Entered(t, EnterNormal(CommitUpTo(t, k, reply)))
  BY <1>16, EnterIs DEF Whole
<1> QED
  BY <1>15, <1>25, <1>26 DEF Entered, Merged, Whole

\* A replica is its own basis.
LEMMA BasisSelf ==
  ASSUME NEW w, NEW q \in ReplicaID, NEW r, NEW d, At(w, q, r, d), NEW v \in Nat, r.view_number <= v
  PROVE  Basis(w, r, r, v, d)
<1>1. /\ Whole(r) /\ NumbersOK(r) /\ Marked(r, d) /\ CommitOK(w, r.view_number, r.commit_number)
      /\ \A i \in 1 .. r.commit_number : EntryAt(r, i) = w.committed[i]
  BY AtHolds
<1>2. CommitOK(w, v, r.commit_number)
  <2>1. r.view_number \in Nat
    BY <1>1 DEF NumbersOK
  <2> QED
    BY <1>1, <2>1, DecidedLater DEF CommitOK
<1>3. SameBut(r, r, RestoreFields \union {"fetch"}) /\ r.log_start <= r.log_start
      /\ r.commit_number <= r.commit_number
  BY <1>1 DEF SameBut, Whole, NumbersOK
<1> QED
  BY <1>1, <1>2, <1>3 DEF Basis

\* on_start_view.
LEMMA OnStartViewMoves ==
  ASSUME NEW w, NEW q \in ReplicaID, NEW r, NEW d, At(w, q, r, d), DiskOK(d),
         r.status # "Recovering", NEW m, MessageOK(m), m.type = "StartView", MessageInv(w, q, m)
  PROVE  GoesOn(w, q, OnStartView(r, m), d)
<1> DEFINE merged == MergeLog(r, m.segment)
           v == m.view_number
           t == [merged EXCEPT !.view_number = m.view_number]
           e == EnterNormal(CommitUpTo(t, m.commit_number, FALSE))
<1>1. \/ OnStartView(r, m) = r
      \/ /\ ~(v < r.view_number) /\ ~(v = r.view_number /\ r.status # "ViewChange")
         /\ OnStartView(r, m) = IF InstallsFromCommit(r, m.segment) # "Log" THEN CatchUpWithView(r, v)
                                ELSE IF ~merged.ok THEN merged ELSE SendPrepareOk(e)
  BY Zenon DEF OnStartView
<1>2. CASE OnStartView(r, m) = r
  BY <1>2, StaysAt
<1>3. CASE /\ ~(v < r.view_number) /\ ~(v = r.view_number /\ r.status # "ViewChange")
           /\ OnStartView(r, m) = IF InstallsFromCommit(r, m.segment) # "Log" THEN CatchUpWithView(r, v)
                                  ELSE IF ~merged.ok THEN merged ELSE SendPrepareOk(e)
  <2>1. /\ Ready(r) /\ NumbersOK(r) /\ r.view_number \in Nat /\ r.last_normal_view \in Nat
        /\ r.last_normal_view <= r.view_number /\ r.commit_number \in Nat
    <3>1. Ready(r) /\ NumbersOK(r)
      BY AtHolds
    <3> QED
      BY <3>1 DEF NumbersOK
  <2>2. /\ v \in Nat /\ SegmentOK(m.segment) /\ m.commit_number \in Nat /\ m.segment.start \in Nat
        /\ ViewLogInv(w, v, m)
    BY DEF MessageOK, EarlyTypes, Votes, MessageInv, StateOK, SegmentOK
  <2>3. /\ SegmentOf(w, v, m.segment) /\ CommitOK(w, v, m.commit_number)
        /\ m.commit_number <= m.segment.end /\ v \in w.started
    BY <2>2 DEF ViewLogInv, SegmentOf
  <2>4. r.view_number < v \/ (r.view_number = v /\ r.status = "ViewChange")
    BY <1>3, <2>1, <2>2
  <2>5. CASE InstallsFromCommit(r, m.segment) # "Log"
    <3>1. GoesOn(w, q, CatchUpWithView(r, v), d)
      BY <2>3, <2>4, CatchUpWithViewMoves
    <3> QED
      BY <1>3, <2>5, <3>1
  <2>6. CASE InstallsFromCommit(r, m.segment) = "Log"
    <3>1. m.segment.start <= r.commit_number
      BY <2>1, <2>2, <2>6 DEF InstallsFromCommit, Installs
    <3>2. PrimaryOf(v) # q
      BY <2>3, <2>4, NotItsPrimary
    <3>3. r.view_number <= v /\ r.last_normal_view < v
      BY <2>1, <2>2, <2>4 DEF Ready, Placed
    <3>4. Basis(w, r, r, v, d)
      BY <2>2, <3>3, BasisSelf
    <3>5. DOMAIN merged = Fields
      <4>1. DOMAIN r = Fields
        BY AtHolds
      <4> QED
        BY <2>1, <2>2, <4>1, MergeLogFrame DEF SameBut, Fail
    <3> HIDE DEF merged
    <3>6. SameBut(merged, t, {"view_number", "fetch", "catching_up"}) /\ t.view_number = v
      BY <3>5 DEF SameBut, Fields
    <3> HIDE DEF t
    <3>7. merged.ok /\ GoesOn(w, q, e, d) /\ InItsView(e)
      BY ZenonT(60), <2>2, <2>3, <3>1, <3>2, <3>3, <3>4, <3>6, JoinMoves DEF merged
    <3> HIDE DEF e
    <3>8. PICK z : At(z, q, e, d) /\ Later(w, z)
      BY <3>7 DEF GoesOn
    <3>9. GoesOn(z, q, SendPrepareOk(e), d)
      BY <3>7, <3>8, SendPrepareOkMoves
    <3>10. GoesOn(w, q, SendPrepareOk(e), d)
      BY <3>8, <3>9, GoesThrough
    <3> QED
      BY <1>3, <2>6, <3>7, <3>10
  <2> QED
    BY <2>5, <2>6
<1> QED
  BY <1>1, <1>2, <1>3

-----------------------------------------------------------------------------
(* Fetching a checkpoint *)

\* What replica q, which is s, may fetch a checkpoint for.
Fetched(w, q, s, then) ==
  /\ then.segment.checkpoint /\ then.segment.start <= then.commit_number
  /\ s.status = "Recovering" =>
       /\ Offers(w, q, then.view_number, then)
       /\ w.ack[then.view_number][q] <= then.segment.end
  /\ s.status # "Recovering" => StateInv(w, q, then)
  /\ s.status = "ViewChange" => s.catching_up # Nobody

\* What a fetch changes.
LEMMA FetchIs ==
  ASSUME NEW w, NEW q, NEW s
  PROVE  FetchInv(w, q, s) <=> (s.fetch.on => Fetched(w, q, s, s.fetch.then))
  BY DEF FetchInv, Fetched

\* A step that changes only what is fetched.
LEMMA FetchMoves ==
  ASSUME NEW w, NEW q \in ReplicaID, NEW r, NEW d, At(w, q, r, d), DiskOK(d),
         NEW s, SameBut(r, s, {"fetch"}), FetchOK(s.fetch),
         s.fetch.on => Fits(r, s.fetch.then) /\ Fetched(w, q, r, s.fetch.then)
  PROVE  GoesOn(w, q, s, d)
<1>1. /\ Ready(r) /\ NumbersOK(r) /\ ReceivedInv(w, q, r) /\ Sound(r)
  BY AtHolds
<1>2. Ready(s)
  BY <1>1, FetchFollows DEF Follows
<1>3. /\ s.id = r.id /\ s.view_number = r.view_number /\ s.status = r.status
      /\ s.do_view_change_from = r.do_view_change_from /\ s.catching_up = r.catching_up
      /\ s.recovery_responses = r.recovery_responses /\ s.commit_number = r.commit_number
      /\ s.replies = r.replies /\ s.log_start = r.log_start /\ s.applied = r.applied
      /\ s.log = r.log /\ s.sm = r.sm /\ s.serving = r.serving /\ Out(s) = Out(r)
  BY DEF SameBut, Fields, Out
<1>4. SameBut(r, s, StillFields)
  BY DEF SameBut, StillFields
<1>5. Sound(s)
  BY <1>1, <1>3 DEF Sound
<1>6. IsPrimary(s) <=> IsPrimary(r)
  BY <1>3 DEF IsPrimary
<1>7. ReceivedInv(w, q, s)
  <2>1. VotesInv(w, q, s)
    BY <1>1, <1>3, <1>6 DEF ReceivedInv, VotesInv
  <2>2. CatchingInv(w, s)
    BY <1>1, <1>3, <1>6 DEF ReceivedInv, CatchingInv
  <2>3. FetchInv(w, q, s)
    <3>1. s.fetch.on => Fetched(w, q, s, s.fetch.then)
      BY <1>3 DEF Fetched
    <3> QED
      BY <3>1, FetchIs
  <2>4. ResponsesInv(w, q, s)
    BY <1>1, <1>3 DEF ReceivedInv, ResponsesInv
  <2> QED
    BY <2>1, <2>2, <2>3, <2>4 DEF ReceivedInv
<1> QED
  BY <1>2, <1>3, <1>4, <1>5, <1>7, StillMoves

\* A replica asks for a chunk.
LEMMA SendGetChunkMoves ==
  ASSUME NEW w, NEW q \in ReplicaID, NEW r, NEW d, At(w, q, r, d), DiskOK(d), r.fetch.on
  PROVE  GoesOn(w, q, SendGetChunk(r), d)
<1> DEFINE m == [type |-> "GetChunk", replica_id |-> r.id,
                 op_number |-> r.fetch.then.segment.start, index |-> r.fetch.index]
<1>1. Ready(r)
  BY AtHolds
<1>2. r.id = q
  BY AtId
<1>3. r.fetch.from \in ReplicaID /\ r.fetch.then.segment.start \in Nat
  BY <1>1 DEF Ready, ReplicaOK, ReceivedOK, FetchOK, StateOK, SegmentOK
<1>4. MessageOK(m) /\ m.type \in EarlyTypes
  BY <1>2, <1>3 DEF MessageOK, EarlyTypes
<1>5. MessageInv(w, r.fetch.from, m)
  BY DEF MessageInv
<1> HIDE DEF m
<1>6. GoesOn(w, q, Send(r, r.fetch.from, m), d)
  BY <1>3, <1>4, <1>5, SendOneMoves
<1> QED
  BY <1>6 DEF SendGetChunk, m

\* start_fetch.
LEMMA StartFetchMoves ==
  ASSUME NEW w, NEW q \in ReplicaID, NEW r, NEW d, At(w, q, r, d), DiskOK(d),
         NEW from \in ReplicaID, NEW then, Fits(r, then), Fetched(w, q, r, then)
  PROVE  GoesOn(w, q, StartFetch(r, from, then), d)
<1> DEFINE a == [r EXCEPT !.fetch = [@ EXCEPT !.then = then, !.stalled = FALSE]]
           b == [r EXCEPT !.fetch = [@ EXCEPT !.then = then]]
           c == [r EXCEPT !.fetch = [on |-> TRUE, from |-> from, index |-> 0,
                                     stalled |-> FALSE, then |-> then]]
<1>1. \/ r.fetch.on /\ StartFetch(r, from, then) = SendGetChunk(a)
      \/ r.fetch.on /\ StartFetch(r, from, then) = b
      \/ StartFetch(r, from, then) = r
      \/ StartFetch(r, from, then) = SendGetChunk(c)
  <2> DEFINE op == then.segment.start
             same == r.fetch.on /\ r.fetch.from = from /\ r.fetch.then.segment.start = op
             goes_on == r.fetch.on /\ ~same /\ r.fetch.then.segment.start > op /\ ~r.fetch.stalled
  <2>1. CASE same /\ r.fetch.stalled
    BY <2>1, Zenon DEF StartFetch
  <2>2. CASE same /\ ~r.fetch.stalled
    BY <2>2, Zenon DEF StartFetch
  <2>3. CASE goes_on
    BY <2>3, Zenon DEF StartFetch
  <2>4. CASE ~same /\ ~goes_on
    BY <2>4, Zenon DEF StartFetch
  <2> QED
    BY <2>1, <2>2, <2>3, <2>4
<1>2. Ready(r) /\ DOMAIN r = Fields
  BY AtHolds
<1>3. StateOK(then) /\ then.view_number \in Nat
  BY DEF Fits
<1>4. CASE r.fetch.on /\ StartFetch(r, from, then) = SendGetChunk(a)
  <2>1. DOMAIN r.fetch = FetchFields /\ r.fetch.from \in ReplicaID
    BY <1>2, <1>4 DEF Ready, ReplicaOK, ReceivedOK, FetchOK
  <2>2. SameBut(r, a, {"fetch"}) /\ a.fetch = [r.fetch EXCEPT !.then = then, !.stalled = FALSE]
    BY <1>2 DEF SameBut, Fields
  <2>3. a.fetch.on /\ a.fetch.then = then /\ a.fetch.from = r.fetch.from /\ DOMAIN a.fetch = FetchFields
    BY <1>4, <2>1, <2>2 DEF FetchFields
  <2> HIDE DEF a
  <2>4. FetchOK(a.fetch)
    BY <1>3, <2>1, <2>3 DEF FetchOK
  <2>5. GoesOn(w, q, a, d)
    BY <2>2, <2>3, <2>4, FetchMoves
  <2>6. PICK z : At(z, q, a, d) /\ Later(w, z)
    BY <2>5 DEF GoesOn
  <2>7. GoesOn(z, q, SendGetChunk(a), d)
    BY <2>3, <2>6, SendGetChunkMoves
  <2> QED
    BY <1>4, <2>6, <2>7, GoesThrough
<1>5. CASE r.fetch.on /\ StartFetch(r, from, then) = b
  <2>1. DOMAIN r.fetch = FetchFields /\ r.fetch.from \in ReplicaID
    BY <1>2, <1>5 DEF Ready, ReplicaOK, ReceivedOK, FetchOK
  <2>2. SameBut(r, b, {"fetch"}) /\ b.fetch = [r.fetch EXCEPT !.then = then]
    BY <1>2 DEF SameBut, Fields
  <2>3. b.fetch.on /\ b.fetch.then = then /\ b.fetch.from = r.fetch.from /\ DOMAIN b.fetch = FetchFields
    BY <1>5, <2>1, <2>2 DEF FetchFields
  <2> HIDE DEF b
  <2>4. FetchOK(b.fetch)
    BY <1>3, <2>1, <2>3 DEF FetchOK
  <2>5. GoesOn(w, q, b, d)
    BY <2>2, <2>3, <2>4, FetchMoves
  <2> QED
    BY <1>5, <2>5
<1>6. CASE StartFetch(r, from, then) = r
  BY <1>6, StaysAt
<1>7. CASE StartFetch(r, from, then) = SendGetChunk(c)
  <2>2. SameBut(r, c, {"fetch"}) /\ c.fetch = [on |-> TRUE, from |-> from, index |-> 0,
                                               stalled |-> FALSE, then |-> then]
    BY <1>2 DEF SameBut, Fields
  <2>3. c.fetch.on /\ c.fetch.then = then /\ c.fetch.from = from /\ DOMAIN c.fetch = FetchFields
    BY <2>2 DEF FetchFields
  <2> HIDE DEF c
  <2>4. FetchOK(c.fetch)
    BY <1>3, <2>3 DEF FetchOK
  <2>5. GoesOn(w, q, c, d)
    BY <2>2, <2>3, <2>4, FetchMoves
  <2>6. PICK z : At(z, q, c, d) /\ Later(w, z)
    BY <2>5 DEF GoesOn
  <2>7. GoesOn(z, q, SendGetChunk(c), d)
    BY <2>3, <2>6, SendGetChunkMoves
  <2> QED
    BY <1>7, <2>6, <2>7, GoesThrough
<1> QED
  BY <1>1, <1>4, <1>5, <1>6, <1>7

-----------------------------------------------------------------------------
(* Installing a log *)

\* The fields that installing a log touches.
InstallFields == RestoreFields \union {"fetch", "catching_up"}

\* A replica that installed a log is as a replica may be.
LEMMA InstalledReady ==
  ASSUME NEW r, Ready(r), NEW s, SameBut(r, s, InstallFields), NumbersOK(s),
         s.fetch = NoFetch, s.catching_up \in {r.catching_up, Nobody}
  PROVE  Ready(s)
<1>1. /\ s.id = r.id /\ s.view_number = r.view_number /\ s.status = r.status
      /\ s.do_view_change_from = r.do_view_change_from /\ s.recovery_responses = r.recovery_responses
      /\ s.early = r.early /\ s.outbox = r.outbox /\ s.outbox_waiting = r.outbox_waiting
      /\ s.outbox_ready = r.outbox_ready /\ s.last_normal_view = r.last_normal_view
      /\ DOMAIN s = Fields
  BY DEF SameBut, Fields, InstallFields, RestoreFields, LogFields
<1>2. ~s.fetch.on
  BY DEF NoFetch
<1>3. ReceivedOK(s)
  BY <1>1, <1>2 DEF Ready, ReplicaOK, ReceivedOK, FetchOK
<1>4. OutboxesOK(s)
  BY <1>1 DEF Ready, ReplicaOK, OutboxesOK
<1>5. ReplicaOK(s)
  BY <1>1, <1>3, <1>4 DEF Ready, ReplicaOK
<1>6. Placed(s)
  BY <1>1, <1>2 DEF Ready, Placed, IsPrimary
<1> QED
  BY <1>5, <1>6 DEF Ready

\* A replica that is not to join a view takes over a log.
LEMMA InstalledMoves ==
  ASSUME NEW w, NEW q \in ReplicaID, NEW r, NEW d, At(w, q, r, d), DiskOK(d),
         r.status # "Recovering", r.status = "ViewChange" => IsPrimary(r),
         NEW s, SameBut(r, s, InstallFields), Whole(s), Marked(s, d),
         s.fetch = NoFetch, s.catching_up = Nobody, r.commit_number <= s.commit_number,
         Stands(w, q, s)
  PROVE  GoesOn(w, q, s, d)
<1>1. Ready(r) /\ NumbersOK(r) /\ ReceivedInv(w, q, r) /\ ReceivedOK(r)
  BY AtHolds
<1>2. NumbersOK(s) /\ Sound(s) /\ s.ok
  BY DEF Whole
<1>3. Ready(s)
  BY <1>1, <1>2, InstalledReady
<1>4. /\ s.id = r.id /\ s.view_number = r.view_number /\ s.status = r.status
      /\ s.do_view_change_from = r.do_view_change_from /\ s.recovery_responses = r.recovery_responses
      /\ s.early = r.early /\ s.outbox = r.outbox /\ s.outbox_waiting = r.outbox_waiting
      /\ s.outbox_ready = r.outbox_ready /\ s.recovery_nonce = r.recovery_nonce
  BY DEF SameBut, Fields, InstallFields, RestoreFields, LogFields
<1>5. s.id = q
  BY <1>4, AtId
<1>6. Out(s) = Out(r) /\ (IsPrimary(s) <=> IsPrimary(r))
  BY <1>4 DEF Out, IsPrimary
<1>7. Succeeds(r, s)
  <2>1. r.view_number \in Nat /\ r.recovery_nonce \in Nat
    BY <1>1 DEF NumbersOK
  <2> QED
    BY <1>4, <1>6, <2>1 DEF Succeeds
<1>8. ReceivedInv(w, q, s)
  <2>1. VotesInv(w, q, s)
    <3>1. \A e \in r.do_view_change_from : e.replica_id = q => e.segment.start <= s.commit_number
      <4> SUFFICES ASSUME NEW e \in r.do_view_change_from, e.replica_id = q
                   PROVE  e.segment.start <= s.commit_number
        OBVIOUS
      <4>1. e.segment.start <= r.commit_number
        BY <1>1 DEF ReceivedInv, VotesInv
      <4>2. e.segment.start \in Nat /\ r.commit_number \in Nat /\ s.commit_number \in Nat
        BY <1>1, <1>2 DEF ReceivedOK, DvcOK, StateOK, SegmentOK, NumbersOK
      <4> QED
        BY <4>1, <4>2
    <3> QED
      BY <1>1, <1>4, <1>6, <3>1 DEF ReceivedInv, VotesInv
  <2>2. CatchingInv(w, s) /\ FetchInv(w, q, s)
    BY DEF CatchingInv, FetchInv, NoFetch
  <2>3. ResponsesInv(w, q, s)
    BY <1>4 DEF ResponsesInv
  <2> QED
    BY <2>1, <2>2, <2>3 DEF ReceivedInv
<1> QED
  BY <1>2, <1>3, <1>5, <1>6, <1>7, <1>8, Moves

-----------------------------------------------------------------------------
(* new_state_installed *)

\* merge_log touches the log only.
LEMMA MergeFrame ==
  ASSUME NEW b, Whole(b), NEW segment, SegmentOK(segment)
  PROVE  SameBut(b, MergeLog(b, segment), LogFields \union {"ok"})
<1> DEFINE s == MergeLog(b, segment)
<1>1. DOMAIN b = Fields /\ NumbersOK(b)
  BY DEF Whole
<1>2. s = Fail(b) \/ SameBut(b, s, LogFields)
  BY <1>1, MergeLogFrame
<1> HIDE DEF s
<1>3. s = Fail(b) => SameBut(b, s, LogFields \union {"ok"})
  BY <1>1 DEF Fail, SameBut, Fields
<1>4. SameBut(b, s, LogFields) => SameBut(b, s, LogFields \union {"ok"})
  BY DEF SameBut
<1>5. SameBut(b, s, LogFields \union {"ok"})
  BY <1>2, <1>3, <1>4
<1> QED
  BY <1>5 DEF s

\* A replica enters the view it caught up with.
LEMMA CaughtUpMoves ==
  ASSUME NEW w, NEW q \in ReplicaID, NEW r, NEW d, At(w, q, r, d), DiskOK(d),
         r.status = "ViewChange", ~IsPrimary(r), NEW v \in w.started, r.view_number = v,
         NEW b, Basis(w, r, b, v, d), NEW segment, SegmentOK(segment),
         segment.start <= b.commit_number, SegmentOf(w, v, segment),
         NEW k \in Nat, k <= segment.end, CommitOK(w, v, k), NEW s, s = MergeLog(b, segment)
  PROVE  s.ok /\ GoesOn(w, q, NewStateInstalled(s, k), d)
<1> DEFINE f == [s EXCEPT !.fetch = NoFetch]
           t == [f EXCEPT !.catching_up = Nobody]
           e == EnterNormal(CommitUpTo(t, k, FALSE))
<1>1. Ready(r) /\ NumbersOK(r)
  BY AtHolds
<1>2. r.id = q
  BY AtId
<1>3. SameBut(r, b, RestoreFields \union {"fetch"}) /\ Whole(b)
  BY DEF Basis
<1>4. SameBut(b, s, LogFields \union {"ok"})
  BY <1>3, MergeFrame
<1>5. s.status = "ViewChange" /\ s.view_number = v /\ s.id = q /\ DOMAIN s = Fields
  BY <1>2, <1>3, <1>4 DEF SameBut, Fields, RestoreFields, LogFields
<1>6. ~IsPrimary(s)
  BY <1>2, <1>5 DEF IsPrimary
<1>7. SameBut(s, t, {"view_number", "fetch", "catching_up"}) /\ t.view_number = v
  BY <1>5 DEF SameBut, Fields
<1>8. r.view_number <= v /\ r.last_normal_view < v /\ PrimaryOf(v) # q
  BY <1>1, <1>2 DEF NumbersOK, Ready, Placed, IsPrimary
<1> HIDE DEF t
<1>9. s.ok /\ GoesOn(w, q, e, d) /\ InItsView(e)
  BY <1>7, <1>8, JoinMoves
<1> HIDE DEF e
<1>10. PICK z : At(z, q, e, d) /\ Later(w, z)
  BY <1>9 DEF GoesOn
<1>11. GoesOn(z, q, SendPrepareOk(e), d)
  BY <1>9, <1>10, SendPrepareOkMoves
<1>12. GoesOn(w, q, SendPrepareOk(e), d)
  BY <1>10, <1>11, GoesThrough
<1>13. NewStateInstalled(s, k) = SendPrepareOk(e)
  BY <1>5, <1>6 DEF NewStateInstalled, e, t
<1> QED
  BY <1>9, <1>12, <1>13

\* The primary of a view that is to start has the log for it.
LEMMA ElectedMoves ==
  ASSUME NEW w, NEW q \in ReplicaID, NEW r, NEW d, At(w, q, r, d), DiskOK(d),
         r.status = "ViewChange", IsPrimary(r), Cardinality(r.do_view_change_from) >= Quorum,
         NEW v, r.view_number = v,
         NEW b, Basis(w, r, b, v, d), NEW segment, SegmentOK(segment),
         segment.start <= b.commit_number,
         Safe(w, v, SegmentValue(w, segment), segment.end),
         Copied(w, SegmentValue(w, segment), segment.end),
         NEW k, NEW s, s = MergeLog(b, segment)
  PROVE  s.ok /\ GoesOn(w, q, NewStateInstalled(s, k), d)
<1> DEFINE f == [s EXCEPT !.fetch = NoFetch]
           t == [f EXCEPT !.catching_up = Nobody]
           g == SegmentValue(w, segment)
           l == r.last_normal_view
           n == segment.end
<1>1. /\ Ready(r) /\ NumbersOK(r) /\ HistoryInv(w) /\ HistoryTyped(w) /\ Stands(w, q, r)
  BY AtHolds
<1>2. r.id = q
  BY AtId
<1>3. /\ SameBut(r, b, RestoreFields \union {"fetch"}) /\ Whole(b) /\ Marked(b, d)
      /\ CommitOK(w, v, b.commit_number) /\ r.commit_number <= b.commit_number
      /\ \A i \in 1 .. b.commit_number : EntryAt(b, i) = w.committed[i]
  BY DEF Basis
<1>4. /\ v \in Nat /\ l \in Nat /\ l < v /\ b.commit_number \in Nat /\ n \in Nat
      /\ segment.start \in Nat
  <2>1. v \in Nat /\ l \in Nat /\ l < v
    BY <1>1 DEF NumbersOK, Ready, Placed
  <2>2. b.commit_number \in Nat /\ n \in Nat /\ segment.start \in Nat
    BY <1>3 DEF Whole, NumbersOK, SegmentOK
  <2> QED
    BY <2>1, <2>2
<1>5. v \notin w.started
  BY <1>1, <1>4 DEF Stands, Left
<1>6. g = [i \in 1 .. n |-> g[i]] /\ DOMAIN g = 1 .. n
      /\ \A i \in segment.start + 1 .. n : g[i] = segment.entries[i]
  BY <1>4 DEF SegmentValue
<1>7. Safe(w, v, g, n) /\ Copied(w, g, n)
  OBVIOUS
<1> HIDE DEF g
<1>8. /\ b.commit_number <= n
      /\ \A i \in 1 .. b.commit_number : g[i] = w.committed[i] /\ Decided(w, v, i, g[i])
  BY <1>1, <1>3, <1>4, <1>5, <1>7, CommitIsSafe
<1>9. Merged(b, s, g, n, d)
  <2>1. n = Higher(b.commit_number, segment.end)
    BY <1>4, <1>8 DEF Higher
  <2>2. \A i \in 1 .. b.commit_number : g[i] = EntryAt(b, i)
    BY <1>3, <1>8
  <2> QED
    BY <1>3, <1>6, <2>1, <2>2, MergeGives
<1>10. /\ SameBut(b, s, LogFields) /\ Whole(s) /\ s.op_number = n /\ Value(s) = g
       /\ Marked(s, d)
  BY <1>9 DEF Merged
<1>11. SameBut(s, t, {"fetch", "catching_up"}) /\ t.fetch = NoFetch /\ t.catching_up = Nobody
  BY <1>10 DEF SameBut, Fields, Whole
<1>12. SameBut(r, t, InstallFields)
  BY <1>3, <1>10, <1>11 DEF SameBut, InstallFields, RestoreFields, LogFields
<1>13. /\ s.status = "ViewChange" /\ s.view_number = v /\ s.id = q /\ s.last_normal_view = l
       /\ s.do_view_change_from = r.do_view_change_from /\ s.commit_number = b.commit_number
  BY <1>2, <1>3, <1>10 DEF SameBut, Fields, RestoreFields, LogFields
<1>14. IsPrimary(s)
  BY <1>2, <1>13 DEF IsPrimary
<1>15. NewStateInstalled(s, k) = TryStartView(t)
  <2>1. Cardinality(s.do_view_change_from) >= Quorum
    BY <1>13
  <2> HIDE DEF Quorum
  <2> QED
    BY <1>13, <1>14, <2>1 DEF NewStateInstalled
<1> HIDE DEF t, f
<1>16. /\ t.status = "ViewChange" /\ t.view_number = v /\ t.id = q /\ t.last_normal_view = l
       /\ t.do_view_change_from = r.do_view_change_from /\ t.commit_number = b.commit_number
       /\ t.op_number = n /\ t.log = s.log /\ t.applied = s.applied /\ t.sm = s.sm
       /\ t.log_start = s.log_start /\ t.log_changed_from = s.log_changed_from
       /\ t.written = s.written /\ t.serving = s.serving /\ t.replies = s.replies /\ t.ok = s.ok
       /\ t.recovery_nonce = s.recovery_nonce /\ t.acked = s.acked /\ t.durable = s.durable
       /\ DOMAIN t = Fields
  BY <1>10, <1>11, <1>13 DEF SameBut, Fields
<1>17. Whole(t)
  <2>1. NumbersOK(t)
    BY <1>10, <1>13, <1>16 DEF Whole, NumbersOK
  <2> QED
    BY <1>10, <1>13, <1>16, <2>1 DEF Whole, Sound
<1>18. Marked(t, d)
  BY <1>10, <1>13, <1>16 DEF Marked
<1>19. Value(t) = g /\ \A i \in 1 .. n : EntryAt(t, i) = g[i]
  <2>1. \A i : EntryAt(t, i) = EntryAt(s, i)
    BY <1>16 DEF EntryAt
  <2>2. Value(t) = g
    BY <1>10, <1>16, <2>1 DEF Value
  <2> QED
    BY <1>16, <2>2 DEF Value
<1>20. Left(w, q, t)
  <2>1. Safe(w, l, g, n)
    BY <1>4, <1>7 DEF Safe
  <2>2. Own(w, q, l, g, n)
    <3>1. l \in 0 .. v - 1
      BY <1>4
    <3> QED
      BY <1>7, <3>1 DEF Safe, Own, Holds
  <2> QED
    BY <1>5, <1>7, <1>16, <1>19, <2>1, <2>2 DEF Left, Carried
<1>21. Stands(w, q, t)
  <2>1. t.commit_number <= t.op_number
    BY <1>8, <1>16
  <2>2. \A i \in 1 .. b.commit_number : Decided(w, v, i, EntryAt(t, i))
    <3>1. \A i \in 1 .. b.commit_number : i \in 1 .. n
      BY <1>4, <1>8
    <3> QED
      BY <1>8, <1>19, <3>1
  <2>3. \A u \in Nat : w.ack[u][q] > 0 => u <= l
    BY <1>1 DEF Stands
  <2> QED
    BY <1>4, <1>16, <1>20, <2>1, <2>2, <2>3 DEF Stands
<1>22. GoesOn(w, q, t, d)
  BY <1>3, <1>11, <1>12, <1>16, <1>17, <1>18, <1>21, InstalledMoves
<1>23. PICK z : At(z, q, t, d) /\ Later(w, z)
  BY <1>22 DEF GoesOn
<1>24. IsPrimary(t) /\ Cardinality(t.do_view_change_from) >= Quorum
  BY <1>2, <1>16 DEF IsPrimary
<1>25. GoesOn(z, q, TryStartView(t), d)
  BY <1>16, <1>23, <1>24, TryStartViewMoves
<1>26. GoesOn(w, q, TryStartView(t), d)
  BY <1>23, <1>25, GoesThrough
<1> QED
  BY <1>10, <1>15, <1>26 DEF Whole

-----------------------------------------------------------------------------
\* A replica that fills a gap takes over more of the log of its view.
LEMMA FilledStands ==
  ASSUME NEW w, NEW q \in ReplicaID, NEW r, NEW d, At(w, q, r, d), DiskOK(d),
         r.status = "StateTransfer", NEW v, v = r.view_number,
         NEW b, SameBut(r, b, RestoreFields \union {"fetch"}), Whole(b), Marked(b, d),
         r.commit_number <= b.commit_number, CommitOK(w, v, b.commit_number),
         b.op_number <= w.len[v], \A i \in 1 .. b.op_number : EntryAt(b, i) = w.log[v][i],
         NEW segment, SegmentOK(segment), segment.start <= b.op_number,
         SegmentOf(w, v, segment), r.op_number <= segment.end,
         NEW s, s = MergeLog(b, segment), NEW f, SameBut(s, f, {"fetch"})
  PROVE  /\ SameBut(r, f, InstallFields) /\ Whole(s) /\ Whole(f) /\ Marked(f, d) /\ Stands(w, q, f)
         /\ segment.end <= f.op_number /\ f.catching_up = Nobody
         /\ r.commit_number <= f.commit_number
<1> DEFINE keep == Higher(segment.start, b.commit_number)
<1>1. /\ Ready(r) /\ NumbersOK(r) /\ HistoryTyped(w) /\ HistoryInv(w) /\ Stands(w, q, r)
      /\ ReceivedInv(w, q, r)
  BY AtHolds
<1>2. r.id = q
  BY AtId
<1>3. InItsView(r) /\ ~IsPrimary(r) /\ r.last_normal_view = v
  BY <1>1 DEF Ready, Placed, InItsView
<1>4. Member(w, v, Value(r), r.op_number) /\ w.ack[v][q] = r.op_number
  BY <1>3, HoldsView
<1>5. v \in w.started /\ v \in Nat
  BY <1>1, <1>4 DEF Member, NumbersOK
<1>6. /\ b.commit_number \in Nat /\ b.op_number \in Nat /\ b.commit_number <= b.op_number
      /\ segment.start \in Nat /\ segment.end \in Nat /\ r.op_number \in Nat
      /\ r.commit_number \in Nat
  <2>1. b.commit_number \in Nat /\ b.op_number \in Nat /\ b.commit_number <= b.op_number
    BY DEF Whole, NumbersOK
  <2>2. segment.start \in Nat /\ segment.end \in Nat
    BY DEF SegmentOK
  <2>3. r.op_number \in Nat /\ r.commit_number \in Nat
    BY <1>1 DEF NumbersOK
  <2> QED
    BY <2>1, <2>2, <2>3
<1>7. w.len[v] \in Nat /\ w.base[v] \in Nat
  BY <1>1, <1>5, HistoryNumbers
<1>8. keep <= b.op_number /\ keep \in Nat /\ segment.start <= keep /\ keep = Higher(segment.start, b.commit_number)
  BY <1>6 DEF Higher
<1> HIDE DEF keep
<1>9. /\ SameBut(b, s, LogFields) /\ Whole(s) /\ s.op_number = Higher(keep, segment.end)
      /\ \A i \in 1 .. s.op_number :
           EntryAt(s, i) = IF i <= keep THEN EntryAt(b, i) ELSE segment.entries[i]
      /\ Marked(s, d)
  BY <1>8, MergeIs
<1>10. /\ w.base[v] <= segment.end /\ segment.end <= w.len[v]
       /\ \A i \in segment.start + 1 .. segment.end : segment.entries[i] = w.log[v][i]
  BY DEF SegmentOf
<1>11. /\ s.op_number \in Nat /\ segment.end <= s.op_number /\ s.op_number <= w.len[v]
       /\ \A i \in 1 .. s.op_number : i <= keep \/ i \in segment.start + 1 .. segment.end
  BY <1>6, <1>7, <1>8, <1>9, <1>10 DEF Higher
<1>12. \A i \in 1 .. s.op_number : EntryAt(s, i) = w.log[v][i]
  <2> SUFFICES ASSUME NEW i \in 1 .. s.op_number PROVE EntryAt(s, i) = w.log[v][i]
    OBVIOUS
  <2>1. CASE i <= keep
    <3>1. i \in 1 .. b.op_number
      BY <1>6, <1>8, <1>11, <2>1
    <3> QED
      BY <1>9, <2>1, <3>1
  <2>2. CASE ~(i <= keep)
    BY <1>9, <1>10, <1>11, <2>2
  <2> QED
    BY <2>1, <2>2
<1>13. SameBut(r, f, InstallFields)
  BY <1>9 DEF SameBut, InstallFields, RestoreFields, LogFields
<1>14. /\ f.op_number = s.op_number /\ f.applied = s.applied /\ f.sm = s.sm /\ f.log = s.log
       /\ f.commit_number = s.commit_number /\ f.log_start = s.log_start
       /\ f.log_changed_from = s.log_changed_from /\ f.written = s.written
       /\ f.replies = s.replies /\ f.serving = s.serving /\ f.ok = s.ok
       /\ DOMAIN f = Fields
       /\ f.view_number = s.view_number /\ f.last_normal_view = s.last_normal_view
       /\ f.durable = s.durable /\ f.recovery_nonce = s.recovery_nonce /\ f.acked = s.acked
  BY DEF SameBut, Fields
<1>15. Whole(f)
  BY <1>9, <1>14 DEF Whole, NumbersOK, Sound
<1>16. Marked(f, d)
  BY <1>9, <1>14 DEF Marked
<1>17. /\ f.view_number = v /\ f.id = q /\ f.status = "StateTransfer" /\ f.last_normal_view = v
       /\ f.catching_up = r.catching_up /\ ~IsPrimary(f)
  <2>1. /\ f.view_number = r.view_number /\ f.id = r.id /\ f.status = r.status
        /\ f.last_normal_view = r.last_normal_view
    BY <1>13 DEF SameBut, Fields, InstallFields, RestoreFields, LogFields
  <2>2. f.catching_up = r.catching_up
    BY <1>9 DEF SameBut, Fields, RestoreFields, LogFields
  <2> QED
    BY <1>2, <1>3, <2>1, <2>2 DEF IsPrimary
<1>18. f.catching_up = Nobody
  BY <1>1, <1>17 DEF ReceivedInv, CatchingInv
<1>19. \A i \in 1 .. f.op_number : EntryAt(f, i) = w.log[v][i] /\ Value(f)[i] = w.log[v][i]
  BY <1>12, <1>14 DEF EntryAt, Value
<1>20. f.commit_number = b.commit_number
  BY <1>9, <1>14 DEF SameBut, Fields, LogFields
<1>21. Member(w, v, Value(f), f.op_number)
  <2>1. w.base[v] <= f.op_number /\ f.op_number <= w.len[v]
    BY <1>6, <1>7, <1>10, <1>11, <1>14
  <2> QED
    BY <1>5, <1>19, <2>1 DEF Member
<1>22. w.ack[v][q] <= f.op_number
  BY <1>4, <1>6, <1>11, <1>14
<1>23. \A i \in 1 .. f.commit_number : Decided(w, v, i, EntryAt(f, i))
  <2> SUFFICES ASSUME NEW i \in 1 .. f.commit_number PROVE Decided(w, v, i, EntryAt(f, i))
    OBVIOUS
  <2>1. Decided(w, v, i, w.committed[i])
    BY <1>20 DEF CommitOK
  <2>2. w.log[v][i] = w.committed[i]
    BY <1>1, <1>5, <2>1, DecidedInView
  <2>3. i \in 1 .. f.op_number
    BY <1>15 DEF Whole, NumbersOK
  <2> QED
    BY <1>19, <2>1, <2>2, <2>3
<1>24. Stands(w, q, f)
  <2>1. InView(w, q, f)
    BY <1>17, <1>21, <1>22 DEF InView
  <2>2. \A x \in Nat : w.ack[x][q] > 0 => x <= f.last_normal_view
    BY <1>1, <1>3, <1>17 DEF Stands
  <2>3. f.commit_number <= f.op_number
    BY <1>15 DEF Whole
  <2> QED
    BY <1>5, <1>17, <1>23, <2>1, <2>2, <2>3 DEF Stands
<1> QED
  BY <1>9, <1>11, <1>13, <1>14, <1>15, <1>16, <1>18, <1>20, <1>24

\* A backup in state transfer goes on with the longer log.
LEMMA FilledMoves ==
  ASSUME NEW w, NEW q \in ReplicaID, NEW r, NEW d, At(w, q, r, d), DiskOK(d),
         r.status = "StateTransfer", NEW v, v = r.view_number,
         NEW b, SameBut(r, b, RestoreFields \union {"fetch"}), Whole(b), Marked(b, d),
         r.commit_number <= b.commit_number, CommitOK(w, v, b.commit_number),
         b.op_number <= w.len[v], \A i \in 1 .. b.op_number : EntryAt(b, i) = w.log[v][i],
         NEW segment, SegmentOK(segment), segment.start <= b.op_number,
         SegmentOf(w, v, segment), r.op_number <= segment.end,
         NEW k \in Nat, k <= segment.end, CommitOK(w, v, k),
         NEW s, s = MergeLog(b, segment)
  PROVE  s.ok /\ GoesOn(w, q, NewStateInstalled(s, k), d)
<1> DEFINE f == [s EXCEPT !.fetch = NoFetch]
           c == CommitUpTo(f, k, FALSE)
           t == [c EXCEPT !.status = "Normal"]
<1>1. Ready(r) /\ NumbersOK(r)
  BY AtHolds
<1>2. SameBut(b, s, LogFields \union {"ok"})
  BY MergeFrame
<1>3. SameBut(s, f, {"fetch"}) /\ f.fetch = NoFetch
  BY <1>2 DEF SameBut, Fields
<1>4. NewStateInstalled(s, k) = SendPrepareOk(t)
  <2>1. s.status = "StateTransfer"
    BY <1>2 DEF SameBut, Fields, RestoreFields, LogFields
  <2> QED
    BY <2>1 DEF NewStateInstalled
<1> HIDE DEF f
<1>5. /\ SameBut(r, f, InstallFields) /\ Whole(s) /\ Whole(f) /\ Marked(f, d) /\ Stands(w, q, f)
      /\ segment.end <= f.op_number /\ f.catching_up = Nobody
      /\ r.commit_number <= f.commit_number
  BY <1>3, FilledStands
<1>6. GoesOn(w, q, f, d)
  BY <1>3, <1>5, InstalledMoves
<1>7. PICK z : At(z, q, f, d) /\ Later(w, z)
  BY <1>6 DEF GoesOn
<1>8. f.view_number = v /\ f.status = "StateTransfer" /\ f.last_normal_view = v
  <2>1. r.last_normal_view = v
    BY <1>1 DEF Ready, Placed
  <2> QED
    BY <1>5, <2>1 DEF SameBut, Fields, InstallFields, RestoreFields, LogFields
<1>9. InItsView(f)
  BY <1>8 DEF InItsView
<1>10. CommitOK(z, v, k)
  BY <1>1, <1>7, CommitStays DEF NumbersOK
<1>11. k <= f.op_number
  BY <1>5 DEF Whole, NumbersOK, SegmentOK
<1>12. GoesOn(z, q, c, d)
  BY <1>7, <1>8, <1>9, <1>10, <1>11, CommitInView
<1>13. SameBut(f, c, CommitFields)
  BY <1>5, CommitUpToFrame DEF Whole
<1> HIDE DEF c
<1>14. PICK y : At(y, q, c, d) /\ Later(z, y)
  BY <1>12 DEF GoesOn
<1>15. /\ c.view_number = v /\ c.status = "StateTransfer" /\ c.last_normal_view = v
       /\ c.fetch = NoFetch
  BY <1>3, <1>8, <1>13 DEF SameBut, Fields, CommitFields, ApplyFields
<1>16. Ready(c)
  BY <1>14, AtHolds
<1>17. SameBut(c, t, SendingFields \union {"status", "fetch"}) /\ t.status = "Normal"
       /\ t.fetch = NoFetch /\ Out(t) = Out(c) /\ t.view_number = v /\ t.last_normal_view = v
       /\ SameBut(c, t, {"status"})
  BY <1>13, <1>15 DEF SameBut, Fields, Out
<1> HIDE DEF t
<1>18. Ready(t)
  <2>1. /\ t.id = c.id /\ NumbersOK(t) /\ ReceivedOK(t) /\ OutboxesOK(t) /\ DOMAIN t = Fields
    BY <1>16, <1>17 DEF SameBut, Fields, Ready, ReplicaOK, NumbersOK, ReceivedOK, OutboxesOK
  <2>2. Placed(t)
    BY <1>17 DEF Placed, NoFetch
  <2>3. t.status \in Status
    BY <1>17 DEF Status
  <2> QED
    BY <1>16, <2>1, <2>2, <2>3 DEF Ready, ReplicaOK
<1>19. ~IsPrimary(c)
  BY <1>15, <1>16 DEF Ready, Placed
<1>20. FetchInv(y, q, t)
  BY <1>17 DEF FetchInv, NoFetch
<1>21. GoesOn(y, q, t, d)
  BY <1>14, <1>15, <1>17, <1>18, <1>19, <1>20, TurnMoves
<1>22. PICK x : At(x, q, t, d) /\ Later(y, x)
  BY <1>21 DEF GoesOn
<1>23. InItsView(t)
  BY <1>17 DEF InItsView
<1>24. GoesOn(x, q, SendPrepareOk(t), d)
  BY <1>22, <1>23, SendPrepareOkMoves
<1>25. Later(w, x)
  BY <1>7, <1>14, <1>22, LaterThrough
<1>26. GoesOn(w, q, SendPrepareOk(t), d)
  BY <1>24, <1>25, GoesThrough
<1> QED
  BY <1>4, <1>5, <1>26 DEF Whole

\* With a checkpoint of what is committed, it has that.
BasisAt(w, r, b, v, d, op) ==
  Basis(w, r, b, v, d) /\ b.op_number = op /\ b.commit_number = op

\* A checkpoint of what committed is a basis for the log that follows it.
LEMMA RestoredBasis ==
  ASSUME NEW w, NEW q \in ReplicaID, NEW r, NEW d, At(w, q, r, d), DiskOK(d),
         NEW v \in Nat, NEW op \in Nat, op > r.commit_number, CommitOK(w, v, op),
         NEW chunk, chunk = [i \in 1 .. op |-> w.committed[i]],
         NEW b, b = RestoreCheckpoint([r EXCEPT !.fetch = NoFetch], op, chunk)
  PROVE  BasisAt(w, r, b, v, d, op)
<1> DEFINE f == [r EXCEPT !.fetch = NoFetch]
<1>1. NumbersOK(r) /\ Whole(r) /\ Marked(r, d) /\ DOMAIN r = Fields
  BY AtHolds
<1>2. SameBut(r, f, {"fetch"}) /\ f.fetch = NoFetch
  BY <1>1 DEF SameBut, Fields
<1> HIDE DEF f
<1>3. /\ f.op_number = r.op_number /\ f.applied = r.applied /\ f.sm = r.sm /\ f.log = r.log
      /\ f.commit_number = r.commit_number /\ f.log_start = r.log_start
      /\ f.log_changed_from = r.log_changed_from /\ f.written = r.written
      /\ f.replies = r.replies /\ f.serving = r.serving /\ f.ok = r.ok
      /\ DOMAIN f = Fields
      /\ f.view_number = r.view_number /\ f.last_normal_view = r.last_normal_view
      /\ f.durable = r.durable /\ f.recovery_nonce = r.recovery_nonce /\ f.acked = r.acked
  BY <1>2 DEF SameBut, Fields
<1>4. Whole(f)
  BY <1>1, <1>3 DEF Whole, NumbersOK, Sound
<1>5. Marked(f, d)
  BY <1>1, <1>3 DEF Marked
<1>6. b = RestoreCheckpoint(f, op, chunk)
  BY DEF f
<1>7. /\ SameBut(f, b, RestoreFields) /\ Whole(b)
      /\ b.op_number = op /\ b.commit_number = op /\ b.log_start = op
      /\ \A i \in 1 .. op : EntryAt(b, i) = chunk[i]
      /\ Marked(b, d)
  <2>1. op > f.commit_number
    BY <1>3
  <2>2. Restored(f, b, op, chunk, d)
    BY <1>4, <1>5, <1>6, <2>1, RestoreIs
  <2> QED
    BY <2>2 DEF Restored
<1>8. SameBut(r, b, RestoreFields \union {"fetch"}) /\ b.fetch = f.fetch
  BY SMTT(30), <1>2, <1>7 DEF SameBut, Fields, RestoreFields, LogFields
<1>9. r.log_start <= op /\ r.commit_number <= op
  BY SMTT(30), <1>1 DEF NumbersOK
<1> QED
  BY <1>2, <1>7, <1>8, <1>9 DEF Basis, BasisAt

-----------------------------------------------------------------------------
(* NewState *)

\* The same state, in a message or kept with a fetch.
LEMMA StateSame ==
  ASSUME NEW w, NEW b, NEW m, StateInv(w, b, m), NEW t, t.view_number = m.view_number,
         t.segment = m.segment, t.commit_number = m.commit_number
  PROVE  StateInv(w, b, t)
BY DEF StateInv

\* The segment of m continues the log of b: that of view v in state transfer,
\* or what is committed in a view change.
Continues(w, r, b, m, v) ==
  /\ r.status = "ViewChange" => m.segment.start <= b.commit_number
  /\ r.status = "StateTransfer" =>
       /\ m.segment.start <= b.op_number /\ r.op_number <= m.segment.end
       /\ b.op_number <= w.len[v] /\ \A i \in 1 .. b.op_number : EntryAt(b, i) = w.log[v][i]

\* A replica that waits for state takes it over.
LEMMA StateMoves ==
  ASSUME NEW w, NEW q \in ReplicaID, NEW r, NEW d, At(w, q, r, d), DiskOK(d),
         r.status = "StateTransfer" \/ (r.status = "ViewChange" /\ r.catching_up # Nobody),
         NEW m, StateOK(m), StateInv(w, q, m), NEW v, m.view_number = v, r.view_number = v,
         NEW b, Basis(w, r, b, v, d), Continues(w, r, b, m, v),
         NEW s, s = MergeLog(b, m.segment)
  PROVE  s.ok /\ GoesOn(w, q, NewStateInstalled(s, m.commit_number), d)
<1>1. /\ Ready(r) /\ NumbersOK(r) /\ Stands(w, q, r) /\ ReceivedInv(w, q, r)
  BY AtHolds
<1>2. r.id = q
  BY AtId
<1>3. /\ SegmentOK(m.segment) /\ m.commit_number \in Nat
  BY DEF StateOK
<1>4. /\ CommitOK(w, v, m.commit_number) /\ m.commit_number <= m.segment.end
      /\ q # PrimaryOf(v) => SegmentOf(w, v, m.segment)
      /\ q = PrimaryOf(v) =>
           \/ v \in w.started
           \/ /\ Safe(w, v, SegmentValue(w, m.segment), m.segment.end)
              /\ Copied(w, SegmentValue(w, m.segment), m.segment.end)
  BY DEF StateInv
<1> USE DEF Continues
<1>5. CASE r.status = "StateTransfer"
  <2>1. q # PrimaryOf(v)
    BY <1>1, <1>2, <1>5 DEF Ready, Placed, IsPrimary
  <2>2. /\ SameBut(r, b, RestoreFields \union {"fetch"}) /\ Whole(b) /\ Marked(b, d)
        /\ r.commit_number <= b.commit_number /\ CommitOK(w, v, b.commit_number)
    BY DEF Basis
  <2> QED
    BY <1>3, <1>4, <1>5, <2>1, <2>2, FilledMoves
<1>6. CASE r.status = "ViewChange" /\ q # PrimaryOf(v)
  <2>1. ~IsPrimary(r) /\ SegmentOf(w, v, m.segment)
    BY <1>2, <1>4, <1>6 DEF IsPrimary
  <2>2. v \in w.started
    BY <2>1 DEF SegmentOf
  <2> QED
    BY <1>3, <1>4, <1>6, <2>1, <2>2, CaughtUpMoves
<1>7. CASE r.status = "ViewChange" /\ q = PrimaryOf(v)
  <2>1. IsPrimary(r)
    BY <1>2, <1>7 DEF IsPrimary
  <2>2. v \notin w.started
    <3>1. r.last_normal_view < r.view_number
      BY <1>1, <1>7 DEF Ready, Placed
    <3> QED
      BY <1>1, <1>7, <2>1, <3>1 DEF Stands, Left
  <2>3. Cardinality(r.do_view_change_from) >= Quorum
    BY <1>1, <1>7, <2>1 DEF ReceivedInv, CatchingInv
  <2>4. /\ Safe(w, v, SegmentValue(w, m.segment), m.segment.end)
        /\ Copied(w, SegmentValue(w, m.segment), m.segment.end)
    BY <1>4, <1>7, <2>2
  <2> QED
    BY <1>3, <1>7, <2>1, <2>3, <2>4, ElectedMoves
<1> QED
  BY <1>5, <1>6, <1>7

\* on_new_state.
LEMMA OnNewStateMoves ==
  ASSUME NEW w, NEW q \in ReplicaID, NEW r, NEW d, At(w, q, r, d), DiskOK(d),
         NEW m, MessageOK(m), m.type = "NewState", MessageInv(w, q, m)
  PROVE  GoesOn(w, q, OnNewState(r, m), d)
<1> DEFINE waits == \/ r.status = "StateTransfer"
                    \/ r.status = "ViewChange" /\ r.catching_up # Nobody
           installs == IF r.status = "StateTransfer" THEN InstallsInView(r, m.segment)
                       ELSE InstallsFromCommit(r, m.segment)
           merged == MergeLog(r, m.segment)
           then == [type |-> "NewState", view_number |-> m.view_number,
                    segment |-> m.segment, commit_number |-> m.commit_number]
           n == NewStateInstalled(merged, m.commit_number)
           f == StartFetch(r, m.replica_id, then)
<1>1. \/ OnNewState(r, m) = r
      \/ /\ m.view_number = r.view_number /\ waits
         /\ \/ installs = "Checkpoint" /\ OnNewState(r, m) = f
            \/ /\ installs = "Log"
               /\ merged.ok => OnNewState(r, m) = n
  <2>1. installs \in {"Nothing", "Checkpoint", "Log"}
    BY DEF InstallsInView, InstallsFromCommit, Installs
  <2>2. CASE m.view_number # r.view_number \/ ~waits
    BY <2>2, Zenon DEF OnNewState
  <2>3. CASE ~(m.view_number # r.view_number \/ ~waits)
    <3> HIDE DEF installs
    <3>1. CASE installs = "Nothing"
      BY <2>3, <3>1, Zenon DEF OnNewState, installs
    <3>2. CASE installs = "Checkpoint"
      <4>1. "Nothing" # "Checkpoint" /\ "Checkpoint" # "Log"
        OBVIOUS
      <4> QED
        BY <2>3, <3>2, <4>1, Zenon DEF OnNewState, installs
    <3>3. CASE installs = "Log"
      <4>1. "Nothing" # "Log" /\ "Checkpoint" # "Log"
        OBVIOUS
      <4> QED
        BY <2>3, <3>3, <4>1, Zenon DEF OnNewState, installs
    <3> QED
      BY <2>1, <3>1, <3>2, <3>3
  <2> QED
    BY <2>2, <2>3
<1>2. /\ StateInv(w, q, m) /\ StateOK(m) /\ SegmentOK(m.segment) /\ m.view_number \in Nat
      /\ m.replica_id \in ReplicaID
  BY DEF MessageInv, MessageOK, StateOK
<1>3. NumbersOK(r) /\ Ready(r) /\ r.op_number \in Nat /\ r.commit_number \in Nat
  <2>1. NumbersOK(r) /\ Ready(r)
    BY AtHolds
  <2> QED
    BY <2>1 DEF NumbersOK
<1>4. m.segment.end \in Nat /\ m.segment.start \in Nat
  BY <1>2 DEF SegmentOK
<1>5. ASSUME m.view_number = r.view_number, waits, installs = "Checkpoint"
      PROVE  GoesOn(w, q, f, d)
  <2>1. m.segment.checkpoint /\ (r.status = "StateTransfer" => r.op_number <= m.segment.end)
    BY <1>3, <1>4, <1>5 DEF InstallsInView, InstallsFromCommit, Installs
  <2>2. Fits(r, then)
    BY <1>2, <1>5, <2>1 DEF Fits, StateOK
  <2>3. StateInv(w, q, then)
    BY <1>2, StateSame
  <2>4. Fetched(w, q, r, then)
    <3>1. m.segment.start <= m.commit_number
      BY <1>2, <2>1 DEF StateInv
    <3> QED
      BY <1>5, <2>1, <2>3, <3>1 DEF Fetched
  <2> HIDE DEF then
  <2> QED
    BY <1>2, <2>2, <2>4, StartFetchMoves
<1>6. ASSUME m.view_number = r.view_number, waits, installs = "Log"
      PROVE  merged.ok /\ GoesOn(w, q, n, d)
  <2>1. Basis(w, r, r, m.view_number, d)
    BY <1>2, <1>3, <1>6, BasisSelf
  <2>2. r.status = "ViewChange" => m.segment.start <= r.commit_number
    BY <1>3, <1>4, <1>6 DEF InstallsFromCommit, Installs
  <2>3. ASSUME r.status = "StateTransfer"
        PROVE  /\ m.segment.start <= r.op_number /\ r.op_number <= m.segment.end
               /\ r.op_number <= w.len[m.view_number]
               /\ \A i \in 1 .. r.op_number : EntryAt(r, i) = w.log[m.view_number][i]
    <3>1. m.segment.start <= r.op_number /\ r.op_number <= m.segment.end
      BY <1>3, <1>4, <1>6, <2>3 DEF InstallsInView, Installs
    <3>2. InItsView(r)
      BY <1>3, <2>3 DEF Ready, Placed, InItsView
    <3>3. Member(w, r.view_number, Value(r), r.op_number)
      BY <3>2, HoldsView
    <3> QED
      BY <1>6, <3>1, <3>3 DEF Member, Value
  <2>4. waits
    BY <1>6
  <2>5. Continues(w, r, r, m, m.view_number)
    BY <2>2, <2>3 DEF Continues
  <2> HIDE DEF installs
  <2> QED
    BY <1>2, <1>6, <2>1, <2>4, <2>5, StateMoves
<1> QED
  BY <1>1, <1>5, <1>6, StaysAt

-----------------------------------------------------------------------------
(* Recovery *)

\* The same log, in a message or kept with a fetch.
LEMMA OffersSame ==
  ASSUME NEW w, NEW to, NEW v, NEW m, Offers(w, to, v, m), NEW t,
         t.segment = m.segment, t.commit_number = m.commit_number
  PROVE  Offers(w, to, v, t)
BY DEF Offers, ViewLogInv

\* The log a recovering replica was offered takes it into its view.
LEMMA RecoveredMoves ==
  ASSUME NEW w, NEW q \in ReplicaID, NEW r, NEW d, At(w, q, r, d), DiskOK(d),
         r.status = "Recovering", NEW v \in Nat, r.view_number <= v,
         NEW state, StateOK(state), Offers(w, q, v, state), w.ack[v][q] <= state.segment.end,
         NEW b, Basis(w, r, b, v, d), state.segment.start <= b.commit_number
  PROVE  GoesOn(w, q, RecoverInto(b, v, state), d)
<1> DEFINE s == MergeLog(b, state.segment)
           t == [s EXCEPT !.view_number = v]
           e == EnterNormal(CommitUpTo(t, state.commit_number, FALSE))
<1>1. /\ SegmentOK(state.segment) /\ state.commit_number \in Nat /\ state.segment.start \in Nat
  BY DEF StateOK, SegmentOK
<1>2. /\ PrimaryOf(v) # q /\ SegmentOf(w, v, state.segment)
      /\ CommitOK(w, v, state.commit_number) /\ state.commit_number <= state.segment.end
      /\ v \in w.started
  BY DEF Offers, ViewLogInv, SegmentOf
<1>3. Whole(b) /\ b.commit_number \in Nat
  BY DEF Basis, Whole, NumbersOK
<1>4. DOMAIN s = Fields
  BY <1>1, <1>3, MergeFrame DEF SameBut
<1>5. InstallsFromCommit(b, state.segment) = "Log"
  BY <1>1, <1>3 DEF InstallsFromCommit, Installs
<1>6. s.ok => RecoverInto(b, v, state) = e
  <2>1. "Nothing" # "Log" /\ "Checkpoint" # "Log"
    OBVIOUS
  <2> QED
    BY <1>5, <2>1, Zenon DEF RecoverInto
<1> HIDE DEF s
<1>7. SameBut(s, t, {"view_number", "fetch", "catching_up"}) /\ t.view_number = v
  BY <1>4 DEF SameBut, Fields
<1> HIDE DEF t
<1>8. s = MergeLog(b, state.segment)
  BY DEF s
<1>9. s.ok /\ GoesOn(w, q, e, d)
  BY <1>1, <1>2, <1>7, <1>8, JoinMoves
<1> QED
  BY <1>6, <1>9

\* recover_into.
LEMMA RecoverIntoMoves ==
  ASSUME NEW w, NEW q \in ReplicaID, NEW r, NEW d, At(w, q, r, d), DiskOK(d),
         r.status = "Recovering", NEW v \in Nat, r.view_number <= v,
         NEW state, StateOK(state), Offers(w, q, v, state), w.ack[v][q] <= state.segment.end
  PROVE  GoesOn(w, q, RecoverInto(r, v, state), d)
<1> DEFINE then == [type |-> "RecoveryResponse", view_number |-> v,
                    segment |-> state.segment, commit_number |-> state.commit_number]
<1>1. NumbersOK(r) /\ Stands(w, q, r)
  BY AtHolds
<1>2. r.commit_number \in Nat
  BY <1>1 DEF NumbersOK
<1>3. /\ SegmentOK(state.segment) /\ state.segment.start \in Nat
  BY DEF StateOK, SegmentOK
<1>4. /\ state.segment.checkpoint \/ state.segment.start = 0
      /\ state.segment.start <= state.commit_number
  BY DEF Offers, ViewLogInv
<1>5. CASE state.segment.start <= r.commit_number
  <2>1. Basis(w, r, r, v, d)
    BY BasisSelf
  <2> QED
    BY <1>5, <2>1, RecoveredMoves
<1>6. CASE ~(state.segment.start <= r.commit_number)
  <2>1. state.segment.checkpoint
    BY <1>2, <1>3, <1>4, <1>6
  <2>2. InstallsFromCommit(r, state.segment) = "Checkpoint"
    BY <1>2, <1>3, <1>6, <2>1 DEF InstallsFromCommit, Installs
  <2>3. RecoverInto(r, v, state) = StartFetch(r, PrimaryOf(v), then)
    <3>1. "Nothing" # "Checkpoint" /\ "Checkpoint" # "Log"
      OBVIOUS
    <3> QED
      BY <2>2, <3>1, Zenon DEF RecoverInto
  <2>4. PrimaryOf(v) \in ReplicaID
    BY PrimaryIsReplica
  <2>5. Fits(r, then)
    BY <1>1 DEF Fits, StateOK, NumbersOK
  <2>6. Offers(w, q, v, then)
    BY OffersSame
  <2>7. Fetched(w, q, r, then)
    BY <1>4, <2>1, <2>6 DEF Fetched
  <2> HIDE DEF then
  <2> QED
    BY <2>3, <2>4, <2>5, <2>7, StartFetchMoves
<1> QED
  BY <1>5, <1>6

\* on_recovery_response.
LEMMA OnRecoveryResponseMoves ==
  ASSUME NEW w, NEW q \in ReplicaID, NEW r, NEW d, At(w, q, r, d), DiskOK(d),
         NEW m, MessageOK(m), m.type = "RecoveryResponse", MessageInv(w, q, m)
  PROVE  GoesOn(w, q, OnRecoveryResponse(r, m), d)
<1> DEFINE response == [replica_id |-> m.replica_id, view_number |-> m.view_number,
                        state |-> m.state]
           S == {x \in r.recovery_responses : x.replica_id # m.replica_id} \union {response}
           s == [r EXCEPT !.recovery_responses = S]
           u == [s EXCEPT !.recovery_responses = {}]
           latest == Max({x.view_number : x \in s.recovery_responses})
           primary == {x \in s.recovery_responses : /\ x.replica_id = PrimaryOf(latest)
                                                    /\ x.view_number = latest
                                                    /\ x.state.is}
           best == CHOOSE x \in primary : TRUE
<1>1. CASE r.status # "Recovering" \/ m.nonce # r.recovery_nonce
  <2>1. OnRecoveryResponse(r, m) = r
    BY <1>1, Zenon DEF OnRecoveryResponse
  <2> QED
    BY <2>1, StaysAt
<1>2. CASE r.status = "Recovering" /\ m.nonce = r.recovery_nonce
  <2>1. /\ Ready(r) /\ ReceivedOK(r) /\ ReceivedInv(w, q, r) /\ DOMAIN r = Fields /\ Sound(r)
        /\ NumbersOK(r)
    BY AtHolds
  <2>2. w.rep[q] = r
    BY AtIs
  <2>3. /\ m.view_number \in Nat
        /\ m.state.is => /\ StateOK(m.state) /\ Offers(w, q, m.view_number, m.state)
                         /\ w.ack[m.view_number][q] <= m.state.segment.end
    BY <1>2, <2>2 DEF MessageOK, MessageInv, ResponseInv
  <2>4. \A x \in S :
          /\ x.view_number \in Nat
          /\ x.state.is => /\ StateOK(x.state) /\ Offers(w, q, x.view_number, x.state)
                           /\ w.ack[x.view_number][q] <= x.state.segment.end
    BY <1>2, <2>1, <2>3 DEF ReceivedOK, ReceivedInv, ResponsesInv
  <2>5. IsFiniteSet(S)
    <3>1. IsFiniteSet(r.recovery_responses)
      BY <2>1 DEF ReceivedOK
    <3>2. IsFiniteSet({x \in r.recovery_responses : x.replica_id # m.replica_id})
      BY <3>1, FS_Subset
    <3> QED
      BY <3>2, FS_AddElement
  <2> HIDE DEF S
  <2>6. ASSUME NEW T, T \subseteq S, IsFiniteSet(T), NEW t, t = [r EXCEPT !.recovery_responses = T]
        PROVE  GoesOn(w, q, t, d)
    <3>1. SameBut(r, t, {"recovery_responses"}) /\ t.recovery_responses = T
      BY <2>1, <2>6 DEF SameBut, Fields
    <3>2. SameBut(r, t, StillFields)
      BY <3>1 DEF SameBut, StillFields, SendingFields
    <3>3. /\ t.id = r.id /\ t.status = r.status /\ t.view_number = r.view_number
          /\ t.last_normal_view = r.last_normal_view /\ t.fetch = r.fetch
          /\ t.catching_up = r.catching_up /\ t.do_view_change_from = r.do_view_change_from
          /\ t.op_number = r.op_number /\ t.commit_number = r.commit_number
          /\ t.early = r.early /\ t.outbox = r.outbox /\ t.outbox_waiting = r.outbox_waiting
          /\ t.outbox_ready = r.outbox_ready /\ t.replies = r.replies /\ t.log = r.log
          /\ t.sm = r.sm /\ t.applied = r.applied /\ t.log_start = r.log_start
          /\ t.serving = r.serving /\ DOMAIN t = Fields
      BY <3>1 DEF SameBut, Fields
    <3>4. NumbersOK(t)
      BY <2>1, <3>1 DEF SameBut, Fields, NumbersOK
    <3>5. ReceivedOK(t)
      BY <2>1, <2>4, <2>6, <3>1, <3>3 DEF ReceivedOK
    <3>6. OutboxesOK(t)
      BY <2>1, <3>3 DEF Ready, ReplicaOK, OutboxesOK
    <3>7. Placed(t)
      BY <2>1, <3>3 DEF Ready, Placed, IsPrimary
    <3>8. Ready(t)
      BY <2>1, <3>3, <3>4, <3>5, <3>6, <3>7 DEF Ready, ReplicaOK
    <3>9. Sound(t) /\ Out(t) = Out(r)
      BY <2>1, <3>3 DEF Sound, Out
    <3>10. ReceivedInv(w, q, t)
      <4>1. VotesInv(w, q, t) /\ CatchingInv(w, t)
        BY <2>1, <3>3 DEF ReceivedInv, VotesInv, CatchingInv, IsPrimary
      <4>2. FetchInv(w, q, t)
        BY <2>1, <3>3 DEF ReceivedInv, FetchInv
      <4>3. ResponsesInv(w, q, t)
        BY <2>4, <2>6, <3>1 DEF ResponsesInv
      <4> QED
        BY <4>1, <4>2, <4>3 DEF ReceivedInv
    <3> QED
      BY <3>2, <3>8, <3>9, <3>10, StillMoves
  <2>7. s.recovery_responses = S /\ u = [r EXCEPT !.recovery_responses = {}] /\ u.status = "Recovering"
        /\ u.recovery_nonce = r.recovery_nonce /\ u.view_number = r.view_number
    BY <1>2, <2>1 DEF Fields
  <2>8. GoesOn(w, q, s, d)
    BY <2>5, <2>6
  <2>9. GoesOn(w, q, u, d)
    <3>1. IsFiniteSet({}) /\ {} \subseteq S
      BY FS_EmptySet
    <3> QED
      BY <2>6, <2>7, <3>1
  <2>10. \/ OnRecoveryResponse(r, m) = s
         \/ /\ ~(latest < r.view_number) /\ primary # {}
            /\ OnRecoveryResponse(r, m) = RecoverInto(u, latest, best.state)
    <3>1. ~(r.status # "Recovering" \/ m.nonce # r.recovery_nonce)
      BY <1>2
    <3> QED
      BY <3>1, Zenon DEF OnRecoveryResponse, S
  <2>11. ASSUME ~(latest < r.view_number), primary # {}
         PROVE  GoesOn(w, q, RecoverInto(u, latest, best.state), d)
    <3>1. best \in S /\ best.view_number = latest /\ best.state.is
      BY <2>7, <2>11
    <3>2. /\ latest \in Nat /\ StateOK(best.state) /\ Offers(w, q, latest, best.state)
          /\ w.ack[latest][q] <= best.state.segment.end
      BY <2>4, <3>1
    <3>3. r.view_number <= latest
      BY <2>1, <2>11, <3>2 DEF NumbersOK
    <3>4. PICK z : At(z, q, u, d) /\ Later(w, z)
      BY <2>9 DEF GoesOn
    <3> HIDE DEF u, latest, best, primary, s
    <3>5. Offers(z, q, latest, best.state)
      BY <3>2, <3>4, OffersStays
    <3>6. z.rep[q] = u
      BY <3>4, AtIs
    <3>7. z.ack[latest][q] = w.ack[latest][q]
      BY <2>2, <2>7, <3>2, <3>4, <3>6 DEF Later, RepsGoOn
    <3>8. GoesOn(z, q, RecoverInto(u, latest, best.state), d)
      BY <2>7, <3>2, <3>3, <3>4, <3>5, <3>7, RecoverIntoMoves
    <3> QED
      BY <3>4, <3>8, GoesThrough
  <2> QED
    BY <2>8, <2>10, <2>11
<1> QED
  BY <1>1, <1>2

-----------------------------------------------------------------------------
(* Chunks *)

\* The checkpoint that a replica fetched is there.
LEMMA ChunkMoves ==
  ASSUME NEW w, NEW q \in ReplicaID, NEW r, NEW d, At(w, q, r, d), DiskOK(d), r.fetch.on,
         NEW then, then = r.fetch.then, NEW op \in Nat, op = then.segment.start,
         op > r.commit_number, op <= w.known,
         NEW chunk, chunk = [i \in 1 .. op |-> w.committed[i]],
         NEW b, b = RestoreCheckpoint([r EXCEPT !.fetch = NoFetch], op, chunk)
  PROVE  /\ then.type = "RecoveryResponse" =>
              GoesOn(w, q, RecoverInto(b, then.view_number, then), d)
         /\ then.type # "RecoveryResponse" =>
              /\ then.view_number = r.view_number
              /\ GoesOn(w, q, NewStateInstalled(MergeLog(b, then.segment), then.commit_number), d)
<1>1. /\ Ready(r) /\ NumbersOK(r) /\ ReceivedOK(r) /\ ReceivedInv(w, q, r) /\ HistoryTyped(w)
      /\ HistoryInv(w)
  BY AtHolds
<1>2. r.id = q
  BY AtId
<1>3. Fetched(w, q, r, then)
  BY <1>1, FetchIs DEF ReceivedInv
<1>4. StateOK(then) /\ then.view_number \in Nat
  BY <1>1 DEF ReceivedOK, FetchOK
<1>5. then.commit_number \in Nat /\ then.segment.start <= then.commit_number
  BY <1>3, <1>4 DEF Fetched, StateOK
<1>6. /\ r.status = "Recovering" => /\ then.type = "RecoveryResponse"
                                    /\ then.view_number >= r.view_number
      /\ r.status # "Recovering" => /\ then.type = "NewState"
                                    /\ then.view_number = r.view_number
      /\ r.status = "StateTransfer" => then.segment.end >= r.op_number
      /\ r.status # "Normal" /\ r.status \in Status
  BY <1>1 DEF Ready, Placed, ReplicaOK
<1>7. CommitOK(w, then.view_number, then.commit_number)
  BY <1>3 DEF Fetched, StateInv, Offers, ViewLogInv
<1>8. CommitOK(w, then.view_number, op)
  BY <1>1, <1>5, <1>7, CommitLess
<1>9. /\ Basis(w, r, b, then.view_number, d)
      /\ b.op_number = op /\ b.commit_number = op
  <2>1. BasisAt(w, r, b, then.view_number, d, op)
    BY <1>4, <1>8, RestoredBasis
  <2> QED
    BY <2>1 DEF BasisAt
<1>10. CASE r.status = "Recovering"
  <2>1. Offers(w, q, then.view_number, then) /\ w.ack[then.view_number][q] <= then.segment.end
    BY <1>3, <1>10 DEF Fetched
  <2>2. then.segment.start <= b.commit_number
    BY <1>9
  <2>3. r.view_number <= then.view_number
    BY <1>1, <1>4, <1>6, <1>10 DEF NumbersOK
  <2>4. GoesOn(w, q, RecoverInto(b, then.view_number, then), d)
    BY <1>4, <1>9, <1>10, <2>1, <2>2, <2>3, RecoveredMoves
  <2> QED
    BY <1>6, <1>10, <2>4
<1>11. CASE r.status # "Recovering"
  <2>1. StateInv(w, q, then) /\ (r.status = "ViewChange" => r.catching_up # Nobody)
    BY <1>3, <1>11 DEF Fetched
  <2>2. then.segment.start <= b.commit_number /\ then.segment.start <= b.op_number
    BY <1>9
  <2>3. r.status = "StateTransfer" \/ (r.status = "ViewChange" /\ r.catching_up # Nobody)
    BY <1>6, <1>11, <2>1 DEF Status
  <2>4. ASSUME r.status = "StateTransfer"
        PROVE  /\ r.op_number <= then.segment.end
               /\ b.op_number <= w.len[then.view_number]
               /\ \A i \in 1 .. b.op_number : EntryAt(b, i) = w.log[then.view_number][i]
    <3>1. InItsView(r)
      BY <1>1, <2>4 DEF Ready, Placed, InItsView
    <3>2. Member(w, r.view_number, Value(r), r.op_number)
      BY <3>1, HoldsView
    <3>3. then.view_number \in w.started
      BY <1>6, <1>11, <3>2 DEF Member
    <3>4. \A i \in 1 .. op : Decided(w, then.view_number, i, w.committed[i])
      BY <1>8 DEF CommitOK
    <3>5. \A i \in 1 .. op : i \in 1 .. w.len[then.view_number] /\ w.log[then.view_number][i] = w.committed[i]
      BY <1>1, <3>3, <3>4, DecidedInView
    <3>6. op \in 1 .. op
      BY SMTT(30), <1>1 DEF NumbersOK
    <3>7. op <= w.len[then.view_number]
      BY <3>5, <3>6
    <3>8. \A i \in 1 .. op : EntryAt(b, i) = w.committed[i]
      BY <1>9 DEF Basis
    <3>9. r.op_number <= then.segment.end
      BY <1>1, <1>4, <1>6, <2>4 DEF NumbersOK, StateOK, SegmentOK
    <3>10. \A i \in 1 .. op : EntryAt(b, i) = w.log[then.view_number][i]
      BY <3>5, <3>8
    <3> QED
      BY <1>9, <3>7, <3>9, <3>10
  <2>5. then.view_number = r.view_number /\ then.type # "RecoveryResponse"
    BY <1>6, <1>11
  <2>6. GoesOn(w, q, NewStateInstalled(MergeLog(b, then.segment), then.commit_number), d)
    <3> DEFINE s == MergeLog(b, then.segment)
    <3>1. s = MergeLog(b, then.segment)
      OBVIOUS
    <3> HIDE DEF s
    <3>2. Continues(w, r, b, then, then.view_number)
      BY <2>2, <2>4 DEF Continues
    <3>3. Basis(w, r, b, then.view_number, d)
      BY <1>9
    <3>4. GoesOn(w, q, NewStateInstalled(s, then.commit_number), d)
      BY <1>4, <2>1, <2>3, <2>5, <3>1, <3>2, <3>3, StateMoves
    <3> QED
      BY <3>1, <3>4
  <2> QED
    BY <2>5, <2>6
<1> QED
  BY <1>10, <1>11

\* on_new_chunk.
LEMMA OnNewChunkMoves ==
  ASSUME NEW w, NEW q \in ReplicaID, NEW r, NEW d, At(w, q, r, d), DiskOK(d),
         NEW m, MessageOK(m), m.type = "NewChunk", MessageInv(w, q, m)
  PROVE  GoesOn(w, q, OnNewChunk(r, m), d)
<1> DEFINE then == r.fetch.then
           b == RestoreCheckpoint([r EXCEPT !.fetch = NoFetch], m.op_number, m.chunk)
           g == [r EXCEPT !.fetch = [@ EXCEPT !.index = m.index + 1, !.stalled = FALSE]]
           n == [r EXCEPT !.fetch = NoFetch]
           useless == ~r.fetch.on \/ r.fetch.from # m.replica_id \/ r.fetch.index # m.index
                      \/ then.segment.start # m.op_number
           i == RecoverInto(b, then.view_number, then)
           j == NewStateInstalled(MergeLog(b, then.segment), then.commit_number)
<1>1. m.op_number \in Nat /\ m.op_number <= w.known
      /\ m.chunk = [x \in 1 .. m.op_number |-> w.committed[x]]
  BY DEF MessageOK, MessageInv, ChunkInv
<1>2. Ready(r) /\ NumbersOK(r) /\ DOMAIN r = Fields /\ ReceivedOK(r) /\ ReceivedInv(w, q, r)
  BY AtHolds
<1>3. CASE useless
  <2>1. OnNewChunk(r, m) = r
    BY <1>3, Zenon DEF OnNewChunk
  <2> QED
    BY <2>1, StaysAt
<1>4. CASE ~useless /\ ~m.last
  <2>1. OnNewChunk(r, m) = SendGetChunk(g)
    BY <1>4, Zenon DEF OnNewChunk
  <2>2. DOMAIN r.fetch = FetchFields /\ r.fetch.on
    BY <1>2, <1>4 DEF ReceivedOK, FetchOK
  <2>3. SameBut(r, g, {"fetch"}) /\ g.fetch = [r.fetch EXCEPT !.index = m.index + 1, !.stalled = FALSE]
    BY <1>2 DEF SameBut, Fields
  <2>4. /\ g.fetch.on /\ g.fetch.then = r.fetch.then /\ g.fetch.from = r.fetch.from
        /\ DOMAIN g.fetch = FetchFields
    BY <2>2, <2>3 DEF FetchFields
  <2> HIDE DEF g
  <2>5. FetchOK(g.fetch)
    BY <1>2, <2>2, <2>4 DEF ReceivedOK, FetchOK
  <2>6. Fits(r, g.fetch.then)
    BY <1>2, <2>2, <2>4, FetchFits
  <2>7. Fetched(w, q, r, g.fetch.then)
    BY <1>2, <2>2, <2>4, FetchIs DEF ReceivedInv
  <2>8. GoesOn(w, q, g, d)
    BY <2>3, <2>5, <2>6, <2>7, FetchMoves
  <2>9. PICK z : At(z, q, g, d) /\ Later(w, z)
    BY <2>8 DEF GoesOn
  <2>10. GoesOn(z, q, SendGetChunk(g), d)
    BY <2>4, <2>9, SendGetChunkMoves
  <2> QED
    BY <2>1, <2>9, <2>10, GoesThrough
<1>5. CASE ~useless /\ m.last /\ m.op_number <= r.commit_number
  <2>1. OnNewChunk(r, m) = n
    BY <1>5, Zenon DEF OnNewChunk
  <2>2. SameBut(r, n, {"fetch"}) /\ n.fetch = NoFetch
    BY <1>2 DEF SameBut, Fields
  <2> HIDE DEF n
  <2>3. FetchOK(n.fetch) /\ ~n.fetch.on
    BY <2>2 DEF FetchOK, NoFetch
  <2> QED
    BY <2>1, <2>2, <2>3, FetchMoves
<1>6. CASE ~useless /\ m.last /\ ~(m.op_number <= r.commit_number)
  <2>1. /\ then.type = "RecoveryResponse" => OnNewChunk(r, m) = i
        /\ then.type # "RecoveryResponse" /\ then.view_number = r.view_number =>
             OnNewChunk(r, m) = j
    <3>1. CASE then.type = "RecoveryResponse"
      BY <1>6, <3>1, Zenon DEF OnNewChunk
    <3>2. CASE then.type # "RecoveryResponse" /\ then.view_number = r.view_number
      BY <1>6, <3>2, Zenon DEF OnNewChunk
    <3> QED
      BY <3>1, <3>2
  <2>2. m.op_number > r.commit_number
    BY <1>1, <1>2, <1>6 DEF NumbersOK
  <2>3. r.fetch.on /\ m.op_number = then.segment.start
    BY <1>6
  <2>4. then = r.fetch.then /\ b = RestoreCheckpoint([r EXCEPT !.fetch = NoFetch], m.op_number, m.chunk)
    OBVIOUS
  <2> HIDE DEF then, b
  <2>5. /\ then.type = "RecoveryResponse" => GoesOn(w, q, i, d)
        /\ then.type # "RecoveryResponse" => then.view_number = r.view_number /\ GoesOn(w, q, j, d)
    BY SMTT(30), <1>1, <2>2, <2>3, <2>4, ChunkMoves
  <2> QED
    BY <2>1, <2>5
<1> QED
  BY <1>3, <1>4, <1>5, <1>6

-----------------------------------------------------------------------------
(* Serving state *)

\* A step that changes only which checkpoint is kept.
LEMMA ServingMoves ==
  ASSUME NEW w, NEW q \in ReplicaID, NEW r, NEW d, At(w, q, r, d), DiskOK(d),
         NEW s, SameBut(r, s, {"serving"}),
         s.serving = Nobody \/ s.serving \in r.log_start .. r.applied
  PROVE  GoesOn(w, q, s, d)
<1>1. /\ Ready(r) /\ NumbersOK(r) /\ Sound(r) /\ ReceivedInv(w, q, r) /\ DOMAIN r = Fields /\ ReceivedOK(r)
  BY AtHolds
<1>2. /\ s.id = r.id /\ s.status = r.status /\ s.view_number = r.view_number
      /\ s.commit_number = r.commit_number /\ s.applied = r.applied
      /\ s.sm = r.sm /\ s.log = r.log /\ s.log_start = r.log_start /\ s.replies = r.replies
      /\ s.do_view_change_from = r.do_view_change_from /\ s.catching_up = r.catching_up
      /\ s.fetch = r.fetch /\ s.recovery_responses = r.recovery_responses
      /\ s.early = r.early /\ s.outbox = r.outbox /\ s.outbox_waiting = r.outbox_waiting
      /\ s.outbox_ready = r.outbox_ready
  BY DEF SameBut, Fields
<1>3. s.serving \in Nat \union {Nobody}
  BY <1>1 DEF NumbersOK
<1>4. NumbersOK(s)
  BY <1>1, <1>3 DEF SameBut, Fields, NumbersOK
<1>5. Ready(s)
  <2>1. SameBut(r, s, QuietFields)
    BY DEF SameBut, QuietFields
  <2> QED
    BY <1>1, <1>4, <2>1, QuietFollows DEF Follows
<1>6. Sound(s)
  BY <1>1, <1>2 DEF Sound
<1>7. ReceivedInv(w, q, s)
  <2>1. r.commit_number \in Nat
    BY <1>1 DEF NumbersOK
  <2> QED
    BY <1>1, <1>2, <2>1, ReceivedSame
<1>8. SameBut(r, s, StillFields)
  BY DEF SameBut, StillFields
<1>9. Out(s) = Out(r)
  BY <1>2 DEF Out
<1> QED
  BY <1>5, <1>6, <1>7, <1>8, <1>9, StillMoves

\* s is r, or r with a checkpoint, and may send its log after op.
Serving(r, s, op) ==
  /\ SameBut(r, s, {"serving"}) /\ s.ok /\ s.log_start <= op /\ op \in Nat

\* keep_checkpoint.
LEMMA KeepMoves ==
  ASSUME NEW w, NEW q \in ReplicaID, NEW r, NEW d, At(w, q, r, d), DiskOK(d),
         NEW ck \in r.log_start .. r.applied, NEW s, s = KeepCheckpoint(r, ck)
  PROVE  /\ GoesOn(w, q, s, d) /\ Serving(r, s, s.serving) /\ s.serving <= s.applied
<1>1. /\ NumbersOK(r) /\ Sound(r) /\ DOMAIN r = Fields /\ r.ok
  BY AtHolds
<1>2. r.log_start \in Nat /\ r.applied \in Nat
  BY <1>1 DEF NumbersOK
<1>3. SameBut(r, s, {"serving"}) /\ s.serving \in r.log_start .. r.applied
  <2>1. CASE r.serving # Nobody
    BY <1>1, <2>1 DEF KeepCheckpoint, SameBut, Sound
  <2>2. CASE r.serving = Nobody
    BY <1>1, <2>2 DEF KeepCheckpoint, SameBut, Fields
  <2> QED
    BY <2>1, <2>2
<1>4. GoesOn(w, q, s, d)
  BY <1>3, ServingMoves
<1>5. s.ok = r.ok /\ s.log_start = r.log_start /\ s.applied = r.applied
  BY <1>3 DEF SameBut, Fields
<1> QED
  BY <1>1, <1>2, <1>3, <1>4, <1>5 DEF Serving

\* The log of a replica after ops that are decided is, with them, one that its
\* view may start with.
LEMMA SegmentIsSafe ==
  ASSUME NEW w, NEW q \in ReplicaID, NEW r, NEW d, At(w, q, r, d),
         r.view_number \notin w.started, Safe(w, r.view_number, Value(r), r.op_number),
         NEW op \in Nat, r.log_start <= op, CommitOK(w, r.view_number, op), NEW checkpoint
  PROVE  SegmentValue(w, Segment(r, op, checkpoint)) = Value(r)
<1> DEFINE g == Value(r)
           n == r.op_number
           v == r.view_number
           s == Segment(r, op, checkpoint)
<1>1. /\ NumbersOK(r) /\ HistoryInv(w) /\ DOMAIN r = Fields
      /\ \A i \in r.log_start + 1 .. r.op_number : r.log[i] = EntryAt(r, i)
  BY AtHolds
<1>2. n \in Nat /\ v \in Nat /\ r.log_start \in Nat
  BY <1>1 DEF NumbersOK
<1>3. g = [i \in 1 .. n |-> EntryAt(r, i)]
  BY DEF Value
<1>4. s.start = op /\ s.end = n /\ \A i \in op + 1 .. n : s.entries[i] = r.log[i]
  BY DEF Segment
<1> HIDE DEF g, s
<1>5. op <= n /\ \A i \in 1 .. op : g[i] = w.committed[i]
  BY <1>1, <1>2, CommitIsSafe DEF g
<1>6. \A i \in 1 .. n : (IF i <= s.start THEN w.committed[i] ELSE s.entries[i]) = g[i]
  <2> SUFFICES ASSUME NEW i \in 1 .. n
               PROVE  (IF i <= s.start THEN w.committed[i] ELSE s.entries[i]) = g[i]
    OBVIOUS
  <2>1. CASE i <= op
    BY <1>4, <1>5, <2>1
  <2>2. CASE ~(i <= op)
    <3>1. i \in op + 1 .. n /\ i \in r.log_start + 1 .. n
      BY <1>2, <2>2
    <3> QED
      BY <1>1, <1>3, <1>4, <2>2, <3>1
  <2> QED
    BY <2>1, <2>2
<1>7. SegmentValue(w, s) = [i \in 1 .. n |-> IF i <= s.start THEN w.committed[i] ELSE s.entries[i]]
  BY <1>4 DEF SegmentValue
<1>8. SegmentValue(w, s) = [i \in 1 .. n |-> g[i]]
  BY <1>6, <1>7
<1>9. g = [i \in 1 .. n |-> g[i]]
  BY <1>3
<1> QED
  BY <1>8, <1>9 DEF g, s

\* What a replica answers to a request for its log is true.
LEMMA ServedInv ==
  ASSUME NEW w, NEW q \in ReplicaID, NEW r, NEW d, At(w, q, r, d),
         r.status \in {"Normal", "ViewChange"}, NEW v, v = r.view_number,
         NEW to \in ReplicaID,
         NEW x, x.replica_id = to, x.view_number = v, GetStateInv(w, q, x),
         NEW op \in Nat, r.log_start <= op, op <= r.op_number, NEW checkpoint,
         checkpoint => op <= r.commit_number, op <= r.commit_number \/ op = x.op_number,
         NEW m, m.view_number = v, m.segment = Segment(r, op, checkpoint),
         m.commit_number = r.commit_number
  PROVE  StateInv(w, to, m)
<1> DEFINE s == Segment(r, op, checkpoint)
<1>1. /\ Ready(r) /\ NumbersOK(r) /\ Whole(r) /\ CommitOK(w, v, r.commit_number)
      /\ HistoryTyped(w) /\ HistoryInv(w) /\ Stands(w, q, r)
  BY AtHolds
<1>2. r.id = q
  BY AtId
<1>3. r.commit_number \in Nat /\ r.commit_number <= r.op_number /\ r.op_number \in Nat
  BY <1>1 DEF Whole, NumbersOK
<1>4. w.rep[q] = r
  BY AtIs
<1>5. s.start = op /\ s.end = r.op_number /\ s.checkpoint = checkpoint
  BY DEF Segment
<1>6. ASSUME r.status = "Normal"
      PROVE  v \in w.started /\ SegmentOf(w, v, s)
  <2>1. InItsView(r)
    BY <1>1, <1>6 DEF Ready, Placed, InItsView
  <2>2. SegmentOf(w, v, s)
    BY <2>1, SegmentInView
  <2> QED
    BY <2>2 DEF SegmentOf
<1>7. ASSUME to # PrimaryOf(v)
      PROVE  SegmentOf(w, v, s)
  <2>1. q = PrimaryOf(v) /\ v \in w.started
    BY <1>7 DEF GetStateInv
  <2>2. r.status # "ViewChange"
    <3> SUFFICES ASSUME r.status = "ViewChange" PROVE FALSE
      OBVIOUS
    <3>1. r.last_normal_view < r.view_number
      BY <1>1 DEF Ready, Placed
    <3> QED
      BY <1>1, <1>2, <2>1, <3>1 DEF Stands, Left, IsPrimary
  <2> QED
    BY <1>6, <2>2
<1>8. ASSUME to = PrimaryOf(v), v \notin w.started
      PROVE  /\ CommitOK(w, v, s.start)
             /\ Safe(w, v, SegmentValue(w, s), s.end) /\ Copied(w, SegmentValue(w, s), s.end)
  <2>1. r.status = "ViewChange"
    BY <1>6, <1>8
  <2>2. Target(w, v, q) /\ CommitOK(w, v, x.op_number)
    BY <1>8 DEF GetStateInv
  <2>3. Waits(w, v, q)
    BY <1>4, <2>1, <2>2 DEF Waits, Target
  <2>4. Safe(w, v, Value(r), r.op_number)
    BY <1>4, <2>2, <2>3 DEF Target
  <2>5. CommitOK(w, v, op)
    BY <1>1, <1>3, <2>2, CommitLess
  <2>6. Copied(w, Value(r), r.op_number)
    BY <2>1, AtCarries DEF Carried
  <2>7. SegmentValue(w, s) = Value(r)
    BY <1>8, <2>4, <2>5, SegmentIsSafe
  <2> QED
    BY <1>5, <2>4, <2>5, <2>6, <2>7
<1>9. m.segment = s
  OBVIOUS
<1> HIDE DEF s
<1> QED
  BY <1>1, <1>3, <1>5, <1>7, <1>8, <1>9 DEF StateInv

-----------------------------------------------------------------------------
\* A replica sends state to one that may ask for it.
LEMMA SendNewStateMoves ==
  ASSUME NEW w, NEW q \in ReplicaID, NEW r, NEW d, At(w, q, r, d), DiskOK(d),
         r.status \in {"Normal", "ViewChange"},
         NEW x, MessageOK(x), x.type = "GetState", MessageInv(w, q, x),
         x.view_number = r.view_number,
         NEW op \in Nat, r.log_start <= op, op <= r.op_number, NEW checkpoint,
         checkpoint => op <= r.commit_number, op <= r.commit_number \/ op = x.op_number
  PROVE  GoesOn(w, q, Send(r, x.replica_id,
                           [type |-> "NewState", replica_id |-> r.id,
                            view_number |-> r.view_number, segment |-> Segment(r, op, checkpoint),
                            commit_number |-> r.commit_number]), d)
<1> DEFINE m == [type |-> "NewState", replica_id |-> r.id,
                 view_number |-> r.view_number, segment |-> Segment(r, op, checkpoint),
                 commit_number |-> r.commit_number]
<1>1. x.replica_id \in ReplicaID /\ GetStateInv(w, q, x)
  BY DEF MessageOK, MessageInv
<1>2. NumbersOK(r) /\ r.id = q
  BY AtHolds, AtId
<1>3. MessageOK(m) /\ m.type \in EarlyTypes /\ m.type = "NewState"
  BY <1>2 DEF MessageOK, EarlyTypes, Votes, StateOK, SegmentOK, Segment, NumbersOK
<1>4. m.view_number = r.view_number /\ m.segment = Segment(r, op, checkpoint)
      /\ m.commit_number = r.commit_number
  OBVIOUS
<1> HIDE DEF m
<1>5. StateInv(w, x.replica_id, m)
  BY <1>1, <1>4, ServedInv
<1>6. MessageInv(w, x.replica_id, m)
  BY <1>3, <1>5 DEF MessageInv
<1>7. GoesOn(w, q, Send(r, x.replica_id, m), d)
  BY <1>1, <1>3, <1>6, SendOneMoves
<1> QED
  BY <1>7 DEF m

\* on_get_state.
LEMMA OnGetStateMoves ==
  ASSUME NEW w, NEW q \in ReplicaID, NEW r, NEW d, At(w, q, r, d), DiskOK(d),
         NEW m, MessageOK(m), m.type = "GetState", MessageInv(w, q, m),
         NEW ck \in r.log_start .. r.applied
  PROVE  GoesOn(w, q, OnGetState(r, m, ck), d)
<1> DEFINE settled == \/ r.status = "Normal"
                      \/ r.status = "ViewChange" /\ r.do_view_change_sent /\ r.catching_up = Nobody
           k == KeepCheckpoint(r, ck)
           kept == [type |-> "NewState", replica_id |-> r.id,
                    view_number |-> r.view_number, segment |-> Segment(k, k.serving, TRUE),
                    commit_number |-> r.commit_number]
           plain == [type |-> "NewState", replica_id |-> r.id,
                     view_number |-> r.view_number, segment |-> Segment(r, m.op_number, FALSE),
                     commit_number |-> r.commit_number]
<1>1. NumbersOK(r) /\ r.ok /\ Whole(r)
  BY AtHolds
<1>2. /\ m.op_number \in Nat /\ r.op_number \in Nat /\ r.log_start \in Nat
      /\ r.commit_number \in Nat /\ r.applied \in Nat /\ r.applied <= r.commit_number
      /\ r.commit_number <= r.op_number
  BY <1>1 DEF MessageOK, NumbersOK, Whole
<1>3. CASE m.view_number # r.view_number \/ m.op_number > r.op_number \/ ~settled
  <2>1. OnGetState(r, m, ck) = r
    BY <1>3, Zenon DEF OnGetState
  <2> QED
    BY <2>1, StaysAt
<1>4. CASE ~(m.view_number # r.view_number \/ m.op_number > r.op_number \/ ~settled)
  <2>1. m.view_number = r.view_number /\ m.op_number <= r.op_number
        /\ r.status \in {"Normal", "ViewChange"}
    BY <1>2, <1>4
  <2>2. CASE NeedsCheckpoint(r, m.op_number)
    <3>1. k = KeepCheckpoint(r, ck)
      OBVIOUS
    <3> HIDE DEF k
    <3>2. GoesOn(w, q, k, d) /\ Serving(r, k, k.serving) /\ k.serving <= k.applied
      BY <3>1, KeepMoves
    <3>3. SameBut(r, k, {"serving"}) /\ k.ok /\ k.log_start <= k.serving /\ k.serving \in Nat
      BY <3>2 DEF Serving
    <3>4. /\ k.status = r.status /\ k.view_number = r.view_number /\ k.id = r.id
          /\ k.commit_number = r.commit_number /\ k.op_number = r.op_number
          /\ k.applied = r.applied
      BY <3>3 DEF SameBut, Fields
    <3>5. OnGetState(r, m, ck) = Send(k, m.replica_id, kept)
      BY <1>4, <2>2, <3>1, <3>3, Zenon DEF OnGetState
    <3>6. PICK z : At(z, q, k, d) /\ Later(w, z)
      BY <3>2 DEF GoesOn
    <3>7. MessageInv(z, q, m)
      BY <3>6, MessageStays
    <3>8. kept = [type |-> "NewState", replica_id |-> k.id,
                  view_number |-> k.view_number, segment |-> Segment(k, k.serving, TRUE),
                  commit_number |-> k.commit_number]
      BY <3>4
    <3>9. k.serving <= k.commit_number /\ k.serving <= k.op_number
      BY <1>2, <3>2, <3>3, <3>4
    <3> HIDE DEF kept
    <3>10. GoesOn(z, q, Send(k, m.replica_id, kept), d)
      BY <2>1, <3>3, <3>4, <3>6, <3>7, <3>8, <3>9, SendNewStateMoves
    <3> QED
      BY <3>5, <3>6, <3>10, GoesThrough
  <2>3. CASE ~NeedsCheckpoint(r, m.op_number)
    <3>1. OnGetState(r, m, ck) = Send(r, m.replica_id, plain)
      BY <1>1, <1>4, <2>3, Zenon DEF OnGetState
    <3>2. r.log_start <= m.op_number
      BY <1>2, <2>3 DEF NeedsCheckpoint
    <3>3. GoesOn(w, q, Send(r, m.replica_id, plain), d)
      BY <1>2, <2>1, <3>2, SendNewStateMoves
    <3> QED
      BY <3>1, <3>3
  <2> QED
    BY <2>2, <2>3
<1> QED
  BY <1>3, <1>4

\* on_get_chunk.
LEMMA OnGetChunkMoves ==
  ASSUME NEW w, NEW q \in ReplicaID, NEW r, NEW d, At(w, q, r, d), DiskOK(d),
         NEW m, MessageOK(m), m.type = "GetChunk"
  PROVE  GoesOn(w, q, OnGetChunk(r, m), d)
<1> DEFINE new == [type |-> "NewChunk", replica_id |-> r.id, op_number |-> m.op_number,
                   index |-> m.index, last |-> m.index = ChunkCount - 1,
                   chunk |-> [i \in 1 .. m.op_number |-> r.sm[i]]]
<1>1. CASE r.serving = Nobody \/ r.serving # m.op_number
  <2>1. OnGetChunk(r, m) = r
    BY <1>1 DEF OnGetChunk
  <2> QED
    BY <2>1, StaysAt
<1>2. CASE ~(r.serving = Nobody \/ r.serving # m.op_number)
  <2>1. OnGetChunk(r, m) = Send(r, m.replica_id, new)
    BY <1>2 DEF OnGetChunk
  <2>2. /\ NumbersOK(r) /\ Sound(r) /\ CommitOK(w, r.view_number, r.commit_number) /\ HistoryTyped(w)
        /\ \A i \in 1 .. r.commit_number : EntryAt(r, i) = w.committed[i]
    BY AtHolds
  <2>3. r.id = q
    BY AtId
  <2>4. m.op_number \in Nat /\ m.replica_id \in ReplicaID
    BY DEF MessageOK
  <2>5. /\ r.applied \in Nat /\ r.commit_number \in Nat /\ r.applied <= r.commit_number
        /\ r.log_start \in Nat
    BY <2>2 DEF NumbersOK
  <2>6. m.op_number <= r.applied
    BY <1>2, <2>2, <2>5 DEF Sound
  <2>7. r.commit_number <= w.known /\ w.known \in Nat
    BY <2>2, HistoryNumbers DEF CommitOK
  <2>8. m.op_number <= w.known
    BY <2>4, <2>5, <2>6, <2>7
  <2>9. \A i \in 1 .. m.op_number : r.sm[i] = w.committed[i]
    <3>1. \A i \in 1 .. m.op_number : i \in 1 .. r.commit_number /\ i <= r.applied
      BY <2>4, <2>5, <2>6
    <3> QED
      BY <2>2, <3>1 DEF EntryAt
  <2>10. new.chunk = [i \in 1 .. m.op_number |-> w.committed[i]]
    BY <2>9
  <2>11. MessageOK(new) /\ new.type \in EarlyTypes /\ new.type = "NewChunk"
    BY <2>3, <2>4 DEF MessageOK, EarlyTypes, Votes
  <2>12. new.op_number = m.op_number
    OBVIOUS
  <2> HIDE DEF new
  <2>13. MessageInv(w, m.replica_id, new)
    BY <2>8, <2>10, <2>11, <2>12 DEF MessageInv, ChunkInv
  <2>14. GoesOn(w, q, Send(r, m.replica_id, new), d)
    BY <2>4, <2>11, <2>13, SendOneMoves
  <2> QED
    BY <2>1, <2>14
<1> QED
  BY <1>1, <1>2

-----------------------------------------------------------------------------
\* A replica in normal status answers a recovery; the primary offers its log.
LEMMA RespondMoves ==
  ASSUME NEW w, NEW q \in ReplicaID, NEW r, NEW d, At(w, q, r, d), DiskOK(d),
         r.status = "Normal",
         NEW x, MessageOK(x), x.type = "Recovery", MessageInv(w, q, x),
         NEW state,
         state.is =>
           /\ IsPrimary(r) /\ state.commit_number = r.commit_number
           /\ \E op \in Nat, checkpoint \in BOOLEAN :
                /\ state.segment = Segment(r, op, checkpoint) /\ r.log_start <= op
                /\ op <= r.commit_number /\ (checkpoint \/ op = 0)
  PROVE  GoesOn(w, q, Send(r, x.replica_id,
                           [type |-> "RecoveryResponse", view_number |-> r.view_number,
                            nonce |-> x.nonce, replica_id |-> r.id, state |-> state]), d)
<1> DEFINE m == [type |-> "RecoveryResponse", view_number |-> r.view_number,
                 nonce |-> x.nonce, replica_id |-> r.id, state |-> state]
           v == r.view_number
<1>1. /\ x.replica_id \in ReplicaID /\ x.nonce \in Nat /\ q # x.replica_id
      /\ x.nonce <= w.rep[x.replica_id].recovery_nonce
  BY DEF MessageOK, MessageInv
<1>2. /\ Ready(r) /\ NumbersOK(r) /\ Whole(r) /\ CommitOK(w, v, r.commit_number)
      /\ HistoryInv(w) /\ HistoryTyped(w) /\ Rests(w, q, r)
  BY AtHolds
<1>3. r.id = q
  BY AtId
<1>4. /\ v \in Nat /\ r.commit_number \in Nat /\ r.op_number \in Nat
      /\ r.commit_number <= r.op_number
  BY <1>2 DEF NumbersOK, Whole
<1>5. InItsView(r)
  BY <1>2 DEF Ready, Placed, InItsView
<1>6. ASSUME state.is
      PROVE  /\ StateOK(state) /\ Offers(w, x.replica_id, v, state)
             /\ w.ack[v][x.replica_id] <= state.segment.end
  <2>1. PICK op \in Nat, checkpoint \in BOOLEAN :
                /\ state.segment = Segment(r, op, checkpoint) /\ r.log_start <= op
                /\ op <= r.commit_number /\ (checkpoint \/ op = 0)
    BY <1>6
  <2>2. SegmentOf(w, v, state.segment)
    BY <1>5, <2>1, SegmentInView
  <2>3. /\ state.segment.start = op /\ state.segment.end = r.op_number
        /\ state.segment.checkpoint = checkpoint
    BY <2>1 DEF Segment
  <2>4. StateOK(state)
    BY <1>4, <1>6, <2>3 DEF StateOK, SegmentOK
  <2>5. PrimaryOf(v) # x.replica_id
    BY <1>1, <1>3, <1>6 DEF IsPrimary
  <2>6. Offers(w, x.replica_id, v, state)
    BY <1>2, <1>4, <1>6, <2>1, <2>2, <2>3, <2>5 DEF Offers, ViewLogInv
  <2>7. w.len[v] = r.op_number
    BY <1>2, <1>5, <1>6 DEF Rests, InItsView
  <2>8. w.ack[v][x.replica_id] <= w.len[v]
    BY <1>1, <1>2, <1>4 DEF HistoryInv
  <2> QED
    BY <2>3, <2>4, <2>6, <2>7, <2>8
<1>7. /\ m.type = "RecoveryResponse" /\ m.view_number = v /\ m.nonce = x.nonce
      /\ m.replica_id = q /\ m.state = state
  BY <1>3
<1> HIDE DEF m
<1>8. MessageOK(m)
  BY <1>1, <1>4, <1>6, <1>7 DEF MessageOK, EarlyTypes, Votes
<1>9. MessageInv(w, x.replica_id, m)
  <2>1. ResponseInv(w, x.replica_id, m)
    BY <1>1, <1>6, <1>7 DEF ResponseInv
  <2> QED
    BY <1>7, <2>1 DEF MessageInv
<1>10. Signed(r, m)
  BY <1>7 DEF Signed, IsPromise, Votes
<1>11. GoesOn(w, q, Send(r, x.replica_id, m), d)
  BY <1>1, <1>8, <1>9, <1>10, SendOneMoves
<1> QED
  BY <1>11 DEF m

\* on_recovery.
LEMMA OnRecoveryMoves ==
  ASSUME NEW w, NEW q \in ReplicaID, NEW r, NEW d, At(w, q, r, d), DiskOK(d),
         r.status # "Recovering",
         NEW m, MessageOK(m), m.type = "Recovery", MessageInv(w, q, m),
         NEW ck \in r.log_start .. r.applied
  PROVE  GoesOn(w, q, OnRecovery(r, m, ck), d)
<1> DEFINE k == KeepCheckpoint(r, ck)
           kept == [is |-> TRUE, segment |-> Segment(k, k.serving, TRUE),
                    commit_number |-> r.commit_number]
           plain == [is |-> TRUE, segment |-> Segment(r, 0, FALSE),
                     commit_number |-> r.commit_number]
           answer(state) == [type |-> "RecoveryResponse", view_number |-> r.view_number,
                             nonce |-> m.nonce, replica_id |-> r.id, state |-> state]
<1>1. NumbersOK(r) /\ r.ok /\ Ready(r)
  BY AtHolds
<1>2. /\ m.view_number \in Nat /\ r.view_number \in Nat /\ r.last_normal_view \in Nat
      /\ r.last_normal_view <= r.view_number /\ r.log_start \in Nat
      /\ r.commit_number \in Nat /\ r.applied \in Nat /\ r.applied <= r.commit_number
  BY <1>1 DEF MessageOK, NumbersOK
<1>3. CASE m.view_number > r.view_number
  <2>1. ~(m.view_number <= r.view_number)
    BY <1>2, <1>3
  <2>2. OnRecovery(r, m, ck) = StartViewChange(r, m.view_number)
    BY <1>3, <2>1, Zenon DEF OnRecovery
  <2>3. r.view_number <= m.view_number /\ r.last_normal_view < m.view_number
    BY <1>2, <1>3
  <2> QED
    BY <1>2, <2>2, <2>3, StartViewChangeMoves
<1>4. CASE ~(m.view_number > r.view_number) /\ r.status # "Normal"
  <2>1. m.view_number <= r.view_number
    BY <1>2, <1>4
  <2>2. OnRecovery(r, m, ck) = r
    BY <1>4, <2>1, Zenon DEF OnRecovery
  <2> QED
    BY <2>2, StaysAt
<1>5. CASE ~(m.view_number > r.view_number) /\ r.status = "Normal"
  <2>0. ~(m.view_number <= r.view_number /\ r.status # "Normal")
    BY <1>5
  <2>1. CASE IsPrimary(r) /\ NeedsCheckpoint(r, 0)
    <3>1. k = KeepCheckpoint(r, ck)
      OBVIOUS
    <3> HIDE DEF k
    <3>2. GoesOn(w, q, k, d) /\ Serving(r, k, k.serving) /\ k.serving <= k.applied
      BY <3>1, KeepMoves
    <3>3. SameBut(r, k, {"serving"}) /\ k.ok /\ k.log_start <= k.serving /\ k.serving \in Nat
      BY <3>2 DEF Serving
    <3>4. /\ k.status = "Normal" /\ k.view_number = r.view_number /\ k.id = r.id
          /\ k.commit_number = r.commit_number /\ k.applied = r.applied
      BY <1>5, <3>3 DEF SameBut, Fields
    <3>5. OnRecovery(r, m, ck) = Send(k, m.replica_id, answer(kept))
      BY <1>5, <2>0, <2>1, <3>1, <3>3, Zenon DEF OnRecovery
    <3>6. PICK z : At(z, q, k, d) /\ Later(w, z)
      BY <3>2 DEF GoesOn
    <3>7. MessageInv(z, q, m)
      BY <3>6, MessageStays
    <3>8. /\ IsPrimary(k) /\ kept.commit_number = k.commit_number
          /\ kept.segment = Segment(k, k.serving, TRUE) /\ k.serving <= k.commit_number
      BY <1>2, <2>1, <3>2, <3>3, <3>4 DEF IsPrimary
    <3>9. answer(kept) = [type |-> "RecoveryResponse", view_number |-> k.view_number,
                          nonce |-> m.nonce, replica_id |-> k.id, state |-> kept]
      BY <3>4
    <3> HIDE DEF kept, answer
    <3>10. \E op \in Nat, checkpoint \in BOOLEAN :
                /\ kept.segment = Segment(k, op, checkpoint) /\ k.log_start <= op
                /\ op <= k.commit_number /\ (checkpoint \/ op = 0)
      BY <3>3, <3>8
    <3>11. GoesOn(z, q, Send(k, m.replica_id, answer(kept)), d)
      BY <3>4, <3>6, <3>7, <3>8, <3>9, <3>10, RespondMoves
    <3> QED
      BY <3>5, <3>6, <3>11, GoesThrough
  <2>2. CASE IsPrimary(r) /\ ~NeedsCheckpoint(r, 0)
    <3>1. OnRecovery(r, m, ck) = Send(r, m.replica_id, answer(plain))
      BY <1>1, <1>5, <2>0, <2>2, Zenon DEF OnRecovery
    <3>2. r.log_start <= 0 /\ 0 \in Nat /\ 0 <= r.commit_number
      BY <1>2, <2>2 DEF NeedsCheckpoint
    <3>3. plain.segment = Segment(r, 0, FALSE) /\ plain.commit_number = r.commit_number
      OBVIOUS
    <3>4. answer(plain) = [type |-> "RecoveryResponse", view_number |-> r.view_number,
                           nonce |-> m.nonce, replica_id |-> r.id, state |-> plain]
      OBVIOUS
    <3> HIDE DEF plain, answer
    <3>5. \E op \in Nat, checkpoint \in BOOLEAN :
                /\ plain.segment = Segment(r, op, checkpoint) /\ r.log_start <= op
                /\ op <= r.commit_number /\ (checkpoint \/ op = 0)
      BY <3>2, <3>3
    <3>6. GoesOn(w, q, Send(r, m.replica_id, answer(plain)), d)
      BY <1>5, <2>2, <3>3, <3>4, <3>5, RespondMoves
    <3> QED
      BY <3>1, <3>6
  <2>3. CASE ~IsPrimary(r)
    <3>1. OnRecovery(r, m, ck) = Send(r, m.replica_id, answer(NoState))
      BY <1>1, <1>5, <2>0, <2>3, Zenon DEF OnRecovery
    <3>2. ~NoState.is
      BY DEF NoState
    <3>4. answer(NoState) = [type |-> "RecoveryResponse", view_number |-> r.view_number,
                             nonce |-> m.nonce, replica_id |-> r.id, state |-> NoState]
      OBVIOUS
    <3> HIDE DEF answer
    <3>5. GoesOn(w, q, Send(r, m.replica_id, answer(NoState)), d)
      BY <1>5, <3>2, <3>4, RespondMoves
    <3> QED
      BY <3>1, <3>5
  <2> QED
    BY <2>1, <2>2, <2>3
<1> QED
  BY <1>3, <1>4, <1>5

-----------------------------------------------------------------------------
(* Idle periods *)

\* A kept checkpoint is released.
LEMMA ServeOnIdleMoves ==
  ASSUME NEW w, NEW q \in ReplicaID, NEW r, NEW d, At(w, q, r, d), DiskOK(d), NEW release,
         NEW s, s = ServeOnIdle(r, release)
  PROVE  GoesOn(w, q, s, d) /\ SameBut(r, s, {"serving"})
<1>1. DOMAIN r = Fields
  BY AtHolds
<1>2. CASE release
  <2>1. SameBut(r, s, {"serving"}) /\ s.serving = Nobody
    BY <1>1, <1>2 DEF ServeOnIdle, SameBut, Fields
  <2> QED
    BY <2>1, ServingMoves
<1>3. CASE ~release
  <2>1. s = r
    BY <1>3 DEF ServeOnIdle
  <2> QED
    BY <1>1, <2>1, StaysAt DEF SameBut
<1> QED
  BY <1>2, <1>3

\* A fetch that stalls is given up, or asks again.
LEMMA FetchOnIdleMoves ==
  ASSUME NEW w, NEW q \in ReplicaID, NEW r, NEW d, At(w, q, r, d), DiskOK(d), r.fetch.on, NEW stall
  PROVE  GoesOn(w, q, FetchOnIdle(r, stall), d)
<1> DEFINE g == [r EXCEPT !.fetch = [@ EXCEPT !.stalled = TRUE]]
<1>1. Ready(r) /\ ReceivedOK(r) /\ ReceivedInv(w, q, r) /\ DOMAIN r = Fields
  BY AtHolds
<1>2. CASE stall
  <2>1. FetchOnIdle(r, stall) = g
    BY <1>2 DEF FetchOnIdle
  <2>2. DOMAIN r.fetch = FetchFields
    BY <1>1 DEF ReceivedOK, FetchOK
  <2>3. SameBut(r, g, {"fetch"}) /\ g.fetch = [r.fetch EXCEPT !.stalled = TRUE]
    BY <1>1 DEF SameBut, Fields
  <2>4. /\ g.fetch.on /\ g.fetch.then = r.fetch.then /\ g.fetch.from = r.fetch.from
        /\ DOMAIN g.fetch = FetchFields
    BY <2>2, <2>3 DEF FetchFields
  <2> HIDE DEF g
  <2>5. FetchOK(g.fetch)
    BY <1>1, <2>4 DEF ReceivedOK, FetchOK
  <2>6. Fits(r, g.fetch.then)
    BY <1>1, <2>4, FetchFits
  <2>7. Fetched(w, q, r, g.fetch.then)
    BY <1>1, <2>4, FetchIs DEF ReceivedInv
  <2> QED
    BY <2>1, <2>3, <2>5, <2>6, <2>7, FetchMoves
<1>3. CASE ~stall
  <2>1. FetchOnIdle(r, stall) = SendGetChunk(r)
    BY <1>3 DEF FetchOnIdle
  <2> QED
    BY <2>1, SendGetChunkMoves
<1> QED
  BY <1>2, <1>3

\* A recovering replica asks again.
LEMMA SendRecoveryMoves ==
  ASSUME NEW w, NEW q \in ReplicaID, NEW r, NEW d, At(w, q, r, d), DiskOK(d)
  PROVE  GoesOn(w, q, SendRecovery(r), d)
<1> DEFINE answered == {x.replica_id : x \in r.recovery_responses}
           asks == IF Cardinality(answered) >= Quorum THEN Others(r.id)
                   ELSE Others(r.id) \ answered
           m == [type |-> "Recovery", replica_id |-> r.id,
                 nonce |-> r.recovery_nonce, view_number |-> r.view_number]
<1>1. SendRecovery(r) = SendTo(r, asks, m)
  BY Zenon DEF SendRecovery
<1>2. NumbersOK(r) /\ Ready(r)
  BY AtHolds
<1>3. r.id = q
  BY AtId
<1>4. w.rep[q] = r
  BY AtIs
<1>5. \A x \in asks : x \in ReplicaID /\ x # q
  BY <1>3 DEF Others
<1>6. /\ MessageOK(m) /\ Signed(r, m) /\ m.type = "Recovery" /\ m.replica_id = q
      /\ m.nonce = r.recovery_nonce /\ m.nonce \in Nat
  BY <1>2, <1>3 DEF MessageOK, EarlyTypes, Votes, NumbersOK, Signed, IsPromise
<1> HIDE DEF m, asks
<1>7. \A x \in asks : MessageInv(w, x, m)
  BY <1>4, <1>5, <1>6 DEF MessageInv
<1>8. GoesOn(w, q, SendTo(r, asks, m), d)
  BY <1>5, <1>6, <1>7, SendMoves
<1> QED
  BY <1>1, <1>8

\* An idle period of a recovering replica,
LEMMA IdleRecoveringMoves ==
  ASSUME NEW w, NEW q \in ReplicaID, NEW r, NEW d, At(w, q, r, d), DiskOK(d), NEW stall
  PROVE  GoesOn(w, q, IdleRecovering(r, stall), d)
<1>1. CASE Fetching(r) /\ ~stall
  <2>1. IdleRecovering(r, stall) = FetchOnIdle(r, FALSE)
    BY <1>1 DEF IdleRecovering
  <2> QED
    BY <1>1, <2>1, FetchOnIdleMoves DEF Fetching
<1>2. CASE ~(Fetching(r) /\ ~stall)
  <2> DEFINE s == IF Fetching(r) THEN FetchOnIdle(r, TRUE) ELSE r
  <2>1. IdleRecovering(r, stall) = SendRecovery(s)
    BY <1>2, Zenon DEF IdleRecovering
  <2>2. GoesOn(w, q, s, d)
    BY FetchOnIdleMoves, StaysAt DEF Fetching
  <2> HIDE DEF s
  <2>3. PICK z : At(z, q, s, d) /\ Later(w, z)
    BY <2>2 DEF GoesOn
  <2>4. GoesOn(z, q, SendRecovery(s), d)
    BY <2>3, SendRecoveryMoves
  <2> QED
    BY <2>1, <2>3, <2>4, GoesThrough
<1> QED
  BY <1>1, <1>2

\* of a backup,
LEMMA IdleBackupMoves ==
  ASSUME NEW w, NEW q \in ReplicaID, NEW r, NEW d, At(w, q, r, d), DiskOK(d),
         r.status \in {"Normal", "StateTransfer"}, ~IsPrimary(r), NEW stall, NEW timeout
  PROVE  GoesOn(w, q, IdleBackup(r, stall, timeout), d)
<1> DEFINE f == IF Fetching(r) THEN FetchOnIdle(r, TRUE) ELSE r
           s == CASE r.status = "Normal" -> r
                  [] r.status = "StateTransfer" /\ Fetching(r) /\ ~stall -> FetchOnIdle(r, FALSE)
                  [] OTHER -> StateTransfer(f)
<1>1. IdleBackup(r, stall, timeout) = IF timeout THEN StartViewChange(s, r.view_number + 1) ELSE s
  BY DEF IdleBackup
<1>2. Ready(r) /\ NumbersOK(r) /\ DOMAIN r = Fields
  BY AtHolds
<1>3. \/ s = r
      \/ Fetching(r) /\ s = FetchOnIdle(r, FALSE)
      \/ s = StateTransfer(f)
  <2>1. CASE r.status = "Normal"
    BY <2>1
  <2>2. CASE r.status = "StateTransfer"
    <3>1. "Normal" # "StateTransfer"
      OBVIOUS
    <3> QED
      BY <2>2, <3>1, Zenon
  <2> QED
    BY <2>1, <2>2
<1>4. GoesOn(w, q, f, d) /\ SameBut(r, f, SendFields \union {"fetch"})
  <2>1. CASE Fetching(r)
    BY <1>2, <2>1, FetchOnIdleMoves, FetchOnIdleFollows DEF Fetching
  <2>2. CASE ~Fetching(r)
    BY <1>2, <2>2, StaysAt DEF SameBut
  <2> QED
    BY <2>1, <2>2
<1> HIDE DEF f, s
<1>5. GoesOn(w, q, s, d) /\ SameBut(r, s, SendFields \union {"fetch", "status"}) /\ s.status # "Recovering"
  <2>1. CASE s = r
    BY <1>2, <2>1, StaysAt DEF SameBut
  <2>2. CASE Fetching(r) /\ s = FetchOnIdle(r, FALSE)
    <3>1. GoesOn(w, q, s, d) /\ SameBut(r, s, SendFields \union {"fetch"})
      BY <1>2, <2>2, FetchOnIdleMoves, FetchOnIdleFollows DEF Fetching
    <3>2. SameBut(r, s, SendFields \union {"fetch", "status"}) /\ s.status = r.status
      BY <3>1 DEF SameBut, SendFields, Fields
    <3> QED
      BY <3>1, <3>2
  <2>3. CASE s = StateTransfer(f)
    <3>1. PICK z : At(z, q, f, d) /\ Later(w, z)
      BY <1>4 DEF GoesOn
    <3>2. f.status = r.status /\ f.view_number = r.view_number /\ f.id = r.id /\ DOMAIN f = Fields
      BY <1>4 DEF SameBut, SendFields, Fields
    <3>3. ~IsPrimary(f)
      BY <3>2 DEF IsPrimary
    <3>4. GoesOn(z, q, s, d)
      BY <2>3, <3>1, <3>2, <3>3, StateTransferMoves
    <3>5. GoesOn(w, q, s, d)
      BY <3>1, <3>4, GoesThrough
    <3>6. SameBut(f, s, SendFields \union {"status"}) /\ s.status = "StateTransfer"
      BY <2>3, <3>2, StateTransferFrame
    <3>7. SameBut(r, s, SendFields \union {"fetch", "status"})
      BY <1>4, <3>6 DEF SameBut
    <3> QED
      BY <3>5, <3>6, <3>7
  <2> QED
    BY <1>3, <2>1, <2>2, <2>3
<1>6. CASE timeout
  <2>1. IdleBackup(r, stall, timeout) = StartViewChange(s, r.view_number + 1)
    BY <1>1, <1>6
  <2>2. PICK z : At(z, q, s, d) /\ Later(w, z)
    BY <1>5 DEF GoesOn
  <2>3. s.view_number = r.view_number /\ s.last_normal_view = r.last_normal_view
    BY <1>5 DEF SameBut, Fields, SendFields
  <2>4. /\ r.view_number + 1 \in Nat /\ s.view_number <= r.view_number + 1
        /\ s.last_normal_view < r.view_number + 1
    BY <1>2, <2>3 DEF NumbersOK
  <2>5. GoesOn(z, q, StartViewChange(s, r.view_number + 1), d)
    BY <1>5, <2>2, <2>4, StartViewChangeMoves
  <2> QED
    BY <2>1, <2>2, <2>5, GoesThrough
<1>7. CASE ~timeout
  BY <1>1, <1>5, <1>7
<1> QED
  BY <1>6, <1>7

\* A replica that catches up asks again for what it lacks.
LEMMA AskAgainMoves ==
  ASSUME NEW w, NEW q \in ReplicaID, NEW r, NEW d, At(w, q, r, d), DiskOK(d), r.catching_up # Nobody
  PROVE  GoesOn(w, q, SendGetStateTo(r, r.catching_up, r.commit_number), d)
<1> DEFINE m == [type |-> "GetState", replica_id |-> r.id,
                 view_number |-> r.view_number, op_number |-> r.commit_number]
<1>1. SendGetStateTo(r, r.catching_up, r.commit_number) = Send(r, r.catching_up, m)
  BY DEF SendGetStateTo
<1>2. /\ NumbersOK(r) /\ ReceivedOK(r) /\ ReceivedInv(w, q, r)
      /\ CommitOK(w, r.view_number, r.commit_number)
  BY AtHolds
<1>3. r.id = q
  BY AtId
<1>4. r.catching_up \in ReplicaID
  BY <1>2 DEF ReceivedOK
<1>5. /\ MessageOK(m) /\ m.type \in EarlyTypes /\ m.type = "GetState" /\ m.replica_id = q
      /\ m.view_number = r.view_number /\ m.op_number = r.commit_number
  BY <1>2, <1>3 DEF MessageOK, EarlyTypes, Votes, NumbersOK
<1> HIDE DEF m
<1>6. GetStateInv(w, r.catching_up, m)
  BY <1>2, <1>3, <1>5 DEF GetStateInv, ReceivedInv, CatchingInv, IsPrimary
<1>7. MessageInv(w, r.catching_up, m)
  BY <1>5, <1>6 DEF MessageInv
<1> QED
  BY <1>1, <1>4, <1>5, <1>7, SendOneMoves

\* of a replica between views,
LEMMA IdleViewChangeMoves ==
  ASSUME NEW w, NEW q \in ReplicaID, NEW r, NEW d, At(w, q, r, d), DiskOK(d),
         r.status = "ViewChange", NEW stall, NEW timeout
  PROVE  GoesOn(w, q, IdleViewChange(r, stall, timeout), d)
<1> DEFINE f == IF Fetching(r) THEN FetchOnIdle(r, TRUE) ELSE r
           a == CASE r.catching_up = Nobody -> r
                  [] r.catching_up # Nobody /\ Fetching(r) /\ ~stall -> FetchOnIdle(r, FALSE)
                  [] OTHER -> SendGetStateTo(f, r.catching_up, r.commit_number)
           b == IF r.catching_up = Nobody \/ r.do_view_change_sent
                THEN SendStartViewChange(a) ELSE a
<1>1. Ready(r) /\ NumbersOK(r) /\ DOMAIN r = Fields
  BY AtHolds
<1>2. CASE timeout
  <2>1. IdleViewChange(r, stall, timeout) = StartViewChange(r, r.view_number + 1)
    BY <1>2, Zenon DEF IdleViewChange
  <2>2. /\ r.view_number + 1 \in Nat /\ r.view_number <= r.view_number + 1
        /\ r.last_normal_view < r.view_number + 1
    BY <1>1 DEF NumbersOK
  <2> QED
    BY <2>1, <2>2, StartViewChangeMoves
<1>3. CASE ~timeout
  <2>1. \/ IdleViewChange(r, stall, timeout) = b
        \/ IdleViewChange(r, stall, timeout) = SendDoViewChange(b)
    <3>1. CASE r.do_view_change_sent /\ r.catching_up = Nobody
      BY <1>3, <3>1, Zenon DEF IdleViewChange
    <3>2. CASE ~(r.do_view_change_sent /\ r.catching_up = Nobody)
      BY <1>3, <3>2, Zenon DEF IdleViewChange
    <3> QED
      BY <3>1, <3>2
  <2>2. \/ a = r
        \/ Fetching(r) /\ a = FetchOnIdle(r, FALSE)
        \/ r.catching_up # Nobody /\ a = SendGetStateTo(f, r.catching_up, r.commit_number)
    <3>1. CASE r.catching_up = Nobody
      BY <3>1, Zenon
    <3>2. CASE r.catching_up # Nobody /\ Fetching(r) /\ ~stall
      BY <3>2, Zenon
    <3>3. CASE r.catching_up # Nobody /\ ~(Fetching(r) /\ ~stall)
      BY <3>3, Zenon
    <3> QED
      BY <3>1, <3>2, <3>3
  <2>3. GoesOn(w, q, f, d) /\ SameBut(r, f, SendFields \union {"fetch"})
    <3>1. CASE Fetching(r)
      BY <1>1, <3>1, FetchOnIdleMoves, FetchOnIdleFollows DEF Fetching
    <3>2. CASE ~Fetching(r)
      BY <1>1, <3>2, StaysAt DEF SameBut
    <3> QED
      BY <3>1, <3>2
  <2> HIDE DEF f, a
  <2>4. GoesOn(w, q, a, d) /\ a.status = "ViewChange" /\ DOMAIN a = Fields
    <3>1. CASE a = r
      BY <1>1, <3>1, StaysAt
    <3>2. CASE Fetching(r) /\ a = FetchOnIdle(r, FALSE)
      <4>1. GoesOn(w, q, a, d) /\ SameBut(r, a, SendFields \union {"fetch"})
        BY <1>1, <3>2, FetchOnIdleMoves, FetchOnIdleFollows DEF Fetching
      <4> QED
        BY <4>1 DEF SameBut, SendFields, Fields
    <3>3. CASE r.catching_up # Nobody /\ a = SendGetStateTo(f, r.catching_up, r.commit_number)
      <4>1. PICK z : At(z, q, f, d) /\ Later(w, z)
        BY <2>3 DEF GoesOn
      <4>2. f.catching_up = r.catching_up /\ f.commit_number = r.commit_number /\ f.status = r.status
            /\ DOMAIN f = Fields
        BY <2>3 DEF SameBut, SendFields, Fields
      <4>3. GoesOn(z, q, a, d)
        BY <3>3, <4>1, <4>2, AskAgainMoves
      <4>4. GoesOn(w, q, a, d)
        BY <4>1, <4>3, GoesThrough
      <4>5. SameBut(f, a, SendFields)
        BY <3>3, <4>2, SendFrame DEF SendGetStateTo
      <4> QED
        BY <4>2, <4>4, <4>5 DEF SameBut, SendFields, Fields
    <3> QED
      BY <2>2, <3>1, <3>2, <3>3
  <2>5. GoesOn(w, q, b, d) /\ b.status = "ViewChange"
    <3>1. CASE b = a
      BY <2>4, <3>1
    <3>2. CASE b = SendStartViewChange(a)
      <4>1. PICK z : At(z, q, a, d) /\ Later(w, z)
        BY <2>4 DEF GoesOn
      <4>2. GoesOn(z, q, b, d)
        BY <3>2, <4>1, SendStartViewChangeMoves
      <4>3. GoesOn(w, q, b, d)
        BY <4>1, <4>2, GoesThrough
      <4>4. b.status = a.status
        BY <2>4, <3>2, SendStartViewChangeFrame DEF SameBut, Fields
      <4> QED
        BY <2>4, <4>3, <4>4
    <3> QED
      BY <3>1, <3>2
  <2> HIDE DEF b
  <2>6. GoesOn(w, q, SendDoViewChange(b), d)
    <3>1. PICK z : At(z, q, b, d) /\ Later(w, z)
      BY <2>5 DEF GoesOn
    <3>2. GoesOn(z, q, SendDoViewChange(b), d)
      BY <2>5, <3>1, SendDoViewChangeMoves
    <3> QED
      BY <3>1, <3>2, GoesThrough
  <2> QED
    BY <2>1, <2>5, <2>6
<1> QED
  BY <1>2, <1>3

-----------------------------------------------------------------------------
(* The primary's idle period, and compaction *)

\* What may be said may be said later.
LEMMA SendLater ==
  ASSUME NEW w, NEW q \in ReplicaID, NEW s, NEW d, GoesOn(w, q, s, d), DiskOK(d),
         NEW S, \A x \in S : x \in ReplicaID, NEW m, MessageOK(m), m.type \in EarlyTypes,
         \A x \in S : MessageInv(w, x, m)
  PROVE  GoesOn(w, q, SendTo(s, S, m), d)
<1>1. PICK z : At(z, q, s, d) /\ Later(w, z)
  BY DEF GoesOn
<1>2. \A x \in S : MessageInv(z, x, m)
  BY <1>1, MessageStays
<1>3. GoesOn(z, q, SendTo(s, S, m), d)
  BY <1>1, <1>2, SendMoves
<1> QED
  BY <1>1, <1>3, GoesThrough

\* of a primary.
LEMMA IdlePrimaryMoves ==
  ASSUME NEW w, NEW q \in ReplicaID, NEW r, NEW d, At(w, q, r, d), DiskOK(d), Serves(r),
         NEW due \in Nat, due # 0 => due \in r.commit_number + 1 .. r.op_number
  PROVE  GoesOn(w, q, IdlePrimary(r, due), d)
<1> DEFINE commit == [type |-> "Commit", view_number |-> r.view_number,
                      commit_number |-> r.commit_number]
           prepare == [type |-> "Prepare", view_number |-> r.view_number, op_number |-> due,
                       entry |-> r.log[due], commit_number |-> r.commit_number]
           confirm == [type |-> "ConfirmView", view_number |-> r.view_number,
                       round |-> r.round]
           s == SendTo(r, Others(r.id), commit)
           behind == {x \in Others(r.id) : r.acked[x] < due}
           t == IF due = 0 THEN s ELSE SendTo(s, behind, prepare)
           unsure == {x \in ReplicaID : r.confirmed[x] < r.round}
<1>1. IdlePrimary(r, due) = t \/ IdlePrimary(r, due) = SendTo(t, unsure, confirm)
  BY Zenon DEF IdlePrimary, SendToOthers
<1>2. /\ Ready(r) /\ NumbersOK(r) /\ CommitOK(w, r.view_number, r.commit_number)
      /\ \A i \in r.log_start + 1 .. r.op_number : r.log[i] = EntryAt(r, i)
  BY AtHolds
<1>3. Heads(w, q, r)
  BY PrimaryHolds
<1>4. /\ MessageOK(commit) /\ commit.type \in EarlyTypes
      /\ MessageOK(prepare) /\ prepare.type \in EarlyTypes
      /\ MessageOK(confirm) /\ confirm.type \in EarlyTypes
  BY <1>2 DEF MessageOK, EarlyTypes, Votes, NumbersOK
<1>5. /\ \A x \in Others(r.id) : x \in ReplicaID
      /\ \A x \in behind : x \in ReplicaID
      /\ \A x \in unsure : x \in ReplicaID
  BY DEF Others
<1>6. \A x : MessageInv(w, x, commit) /\ MessageInv(w, x, confirm)
  BY <1>2, <1>3 DEF MessageInv, Heads
<1>7. due # 0 => \A x : MessageInv(w, x, prepare)
  <2> SUFFICES ASSUME due # 0 PROVE \A x : MessageInv(w, x, prepare)
    OBVIOUS
  <2>1. due \in 1 .. r.op_number /\ due \in r.log_start + 1 .. r.op_number
    BY <1>2 DEF NumbersOK
  <2>2. r.log[due] = w.log[r.view_number][due]
    BY <1>2, <1>3, <2>1 DEF Heads
  <2>3. PrepareInv(w, prepare)
    BY <1>2, <1>3, <2>1, <2>2 DEF PrepareInv, Heads
  <2> QED
    BY <2>3 DEF MessageInv
<1> HIDE DEF commit, prepare, confirm, behind, unsure
<1>8. GoesOn(w, q, r, d)
  BY StaysAt
<1>9. GoesOn(w, q, s, d)
  BY <1>4, <1>5, <1>6, <1>8, SendLater
<1> HIDE DEF s
<1>10. GoesOn(w, q, t, d)
  <2>1. CASE due = 0
    BY <1>9, <2>1
  <2>2. CASE due # 0
    BY <1>4, <1>5, <1>7, <1>9, <2>2, SendLater
  <2> QED
    BY <2>1, <2>2
<1> HIDE DEF t
<1>11. GoesOn(w, q, SendTo(t, unsure, confirm), d)
  BY <1>4, <1>5, <1>6, <1>10, SendLater
<1> QED
  BY <1>1, <1>10, <1>11

\* on_idle.
LEMMA OnIdleMoves ==
  ASSUME NEW w, NEW q \in ReplicaID, NEW r, NEW d, At(w, q, r, d), DiskOK(d),
         NEW timeout, NEW stall, NEW release, NEW due \in Nat,
         due # 0 => due \in r.commit_number + 1 .. r.op_number
  PROVE  GoesOn(w, q, OnIdle(r, timeout, stall, release, due), d)
<1> DEFINE o == OnIdle(r, timeout, stall, release, due)
           s == ServeOnIdle(r, release)
<1>1. GoesOn(w, q, s, d) /\ SameBut(r, s, {"serving"})
  BY ServeOnIdleMoves
<1>2. /\ s.status = r.status /\ s.view_number = r.view_number /\ s.id = r.id
      /\ s.commit_number = r.commit_number /\ s.op_number = r.op_number
  BY <1>1 DEF SameBut, Fields
<1>3. PICK z : At(z, q, s, d) /\ Later(w, z)
  BY <1>1 DEF GoesOn
<1>4. Ready(r)
  BY AtHolds
<1>5. CASE Serves(r)
  <2>1. o = IdlePrimary(s, due)
    BY <1>5 DEF OnIdle, Serves
  <2> HIDE DEF s
  <2>2. Serves(s)
    BY <1>2, <1>5 DEF Serves, IsPrimary
  <2>3. GoesOn(z, q, IdlePrimary(s, due), d)
    BY <1>2, <1>3, <2>2, IdlePrimaryMoves
  <2> QED
    BY <1>3, <2>1, <2>3, GoesThrough
<1>6. CASE r.status = "Recovering"
  <2>1. o = IdleRecovering(s, stall)
    BY <1>6 DEF OnIdle, Serves
  <2> HIDE DEF s
  <2>2. GoesOn(z, q, IdleRecovering(s, stall), d)
    BY <1>3, IdleRecoveringMoves
  <2> QED
    BY <1>3, <2>1, <2>2, GoesThrough
<1>7. CASE r.status = "ViewChange"
  <2>1. o = IdleViewChange(s, stall, timeout)
    BY <1>7 DEF OnIdle, Serves
  <2> HIDE DEF s
  <2>2. GoesOn(z, q, IdleViewChange(s, stall, timeout), d)
    BY <1>2, <1>3, <1>7, IdleViewChangeMoves
  <2> QED
    BY <1>3, <2>1, <2>2, GoesThrough
<1>8. CASE ~Serves(r) /\ r.status \notin {"Recovering", "ViewChange"}
  <2>1. o = IdleBackup(s, stall, timeout)
    BY <1>8 DEF OnIdle
  <2>2. r.status \in {"Normal", "StateTransfer"} /\ ~IsPrimary(r)
    BY <1>4, <1>8 DEF Serves, Ready, ReplicaOK, Status, Placed
  <2> HIDE DEF s
  <2>3. ~IsPrimary(s)
    BY <1>2, <2>2 DEF IsPrimary
  <2>4. GoesOn(z, q, IdleBackup(s, stall, timeout), d)
    BY <1>2, <1>3, <2>2, <2>3, IdleBackupMoves
  <2> QED
    BY <1>3, <2>1, <2>4, GoesThrough
<1> QED
  BY <1>5, <1>6, <1>7, <1>8

\* What is compacted was flushed, and executed.
LEMMA CompactMoves ==
  ASSUME NEW w, NEW q \in ReplicaID, NEW r, NEW d, At(w, q, r, d), DiskOK(d), d.flushed \in Nat
  PROVE  GoesOn(w, q, Compact(r, d.flushed), d)
<1> DEFINE op == d.flushed
           z == Compact(r, op)
           served == IF r.serving = Nobody THEN {} ELSE {r.serving}
           S == {op, r.applied} \union served
           upto == Min(S)
           s == [r EXCEPT !.log_start = upto,
                          !.log = [i \in upto + 1 .. r.op_number |-> r.log[i]]]
<1>1. /\ Ready(r) /\ NumbersOK(r) /\ Whole(r) /\ Sound(r) /\ DOMAIN r = Fields /\ HistoryTyped(w)
      /\ Stands(w, q, r) /\ ReceivedInv(w, q, r) /\ ReceivedOK(r) /\ Marked(r, d) /\ r.ok
  BY AtHolds
<1>2. r.id = q
  BY AtId
<1>3. /\ r.applied \in Nat /\ r.serving \in Nat \union {Nobody} /\ r.log_start \in Nat
      /\ r.op_number \in Nat /\ r.applied <= r.op_number /\ r.log_start <= r.applied
      /\ r.commit_number \in Nat
  BY <1>1 DEF NumbersOK
<1>4. S \in SUBSET Nat /\ S # {} /\ r.applied \in S /\ op \in S /\ (r.serving # Nobody => r.serving \in S)
  BY <1>3
<1>5. /\ upto \in Nat /\ upto <= r.applied /\ upto <= op /\ (r.serving # Nobody => upto <= r.serving)
  <2> HIDE DEF S
  <2>1. Min(S) \in S /\ \A n \in S : Min(S) <= n
    BY <1>4, MinIsLeast
  <2> QED
    BY <1>4, <2>1
<1>6. z = r \/ (~ (upto <= r.log_start) /\ z = s)
  BY Zenon DEF Compact
<1>7. CASE z = r
  BY <1>7, StaysAt
<1>8. CASE ~ (upto <= r.log_start) /\ z = s
  <2>1. Ready(s)
    BY <1>1, <1>8, CompactFollows DEF Follows
  <2> HIDE DEF upto
  <2>2. /\ SameBut(r, s, {"log_start", "log"}) /\ s.log_start = upto
        /\ s.log = [i \in upto + 1 .. r.op_number |-> r.log[i]]
    BY <1>1 DEF SameBut, Fields
  <2> HIDE DEF s
  <2>3. /\ s.id = q /\ s.ok /\ s.status = r.status /\ s.view_number = r.view_number
        /\ s.last_normal_view = r.last_normal_view /\ s.acked = r.acked
        /\ s.commit_number = r.commit_number /\ s.op_number = r.op_number /\ s.applied = r.applied
        /\ s.sm = r.sm /\ s.serving = r.serving /\ s.replies = r.replies
        /\ s.log_changed_from = r.log_changed_from /\ s.written = r.written
        /\ s.recovery_nonce = r.recovery_nonce /\ DOMAIN s = Fields
        /\ s.do_view_change_from = r.do_view_change_from /\ s.catching_up = r.catching_up
        /\ s.fetch = r.fetch /\ s.recovery_responses = r.recovery_responses
        /\ s.early = r.early /\ s.outbox = r.outbox /\ s.outbox_waiting = r.outbox_waiting
        /\ s.outbox_ready = r.outbox_ready
    BY <1>1, <1>2, <2>2 DEF SameBut, Fields
  <2>4. NumbersOK(s)
    BY <2>1 DEF Ready, ReplicaOK
  <2>5. \A i \in upto + 1 .. r.op_number : s.log[i] = r.log[i] /\ i \in r.log_start + 1 .. r.op_number
    BY <1>3, <1>5, <1>8, <2>2
  <2>6. \A i \in 1 .. r.op_number : EntryAt(s, i) = EntryAt(r, i)
    BY <1>3, <1>5, <2>3, <2>5 DEF EntryAt
  <2>7. Sound(s)
    <3>1. \A x \in s.replies : Answers(x)
      BY <1>1, <2>3 DEF Sound
    <3>2. \A i \in s.log_start + 1 .. s.applied : s.log[i] = s.sm[i]
      BY <1>1, <1>3, <1>5, <1>8, <2>2, <2>3, <2>5 DEF Sound
    <3>3. s.serving # Nobody => s.serving \in s.log_start .. s.applied
      BY <1>1, <1>3, <1>5, <2>2, <2>3 DEF Sound
    <3> QED
      BY <3>1, <3>2, <3>3 DEF Sound
  <2>8. SameLog(r, s)
    BY <1>1, <2>3, <2>4, <2>6, <2>7 DEF SameLog, Whole
  <2>9. Stands(w, q, s)
    <3>1. \A i \in 1 .. s.commit_number : Decided(w, r.view_number, i, EntryAt(r, i))
      BY <1>1, <2>3 DEF Stands
    <3> QED
      BY <1>1, <1>2, <2>1, <2>3, <2>8, <3>1, StandsSame
  <2>10. Succeeds(r, s)
    <3>1. Value(s) = Value(r)
      BY <2>8, SameValue
    <3> QED
      BY <2>3, <2>4, <3>1 DEF Succeeds, NumbersOK
  <2>11. ReceivedInv(w, q, s)
    BY <1>1, <1>2, <1>3, <2>3, ReceivedSame
  <2>12. Marked(s, d)
    <3>1. d.op_number \in Nat /\ d.log_start \in Nat /\ d.log_start <= s.log_start
      BY <1>1, <1>3, <1>5, <1>8, <2>2 DEF Marked, DiskOK
    <3>2. s.log_changed_from <= Higher(d.op_number, s.log_start) + 1
      <4>1. r.log_changed_from <= Higher(d.op_number, r.log_start) + 1
        BY <1>1 DEF Marked
      <4>2. r.log_changed_from \in Nat /\ r.log_start \in Nat
        BY <1>1 DEF Ready, ReplicaOK, NumbersOK
      <4>3. upto \in Nat /\ r.log_start <= upto /\ s.log_start = upto
        BY <1>3, <1>5, <1>8, <2>2
      <4> QED
        BY <2>3, <3>1, <4>1, <4>2, <4>3 DEF Higher
    <3>3. \A i \in s.log_start + 1 .. s.op_number :
            s.log_changed_from = 0 \/ i < s.log_changed_from => d.log[i] = s.log[i]
      BY <1>1, <2>2, <2>3, <2>5 DEF Marked
    <3> QED
      BY <1>1, <1>5, <2>2, <2>3, <3>1, <3>2, <3>3 DEF Marked
  <2>13. Out(s) = Out(r)
    BY <2>3 DEF Out
  <2>14. GoesOn(w, q, s, d)
    BY <2>1, <2>3, <2>7, <2>9, <2>10, <2>11, <2>12, <2>13, Moves
  <2> QED
    BY <1>8, <2>14
<1> QED
  BY <1>6, <1>7, <1>8

-----------------------------------------------------------------------------
(* Writes *)

\* The fields that say what was written and what leaves.
BookFields ==
  {"outstanding", "durable", "written", "log_changed_from", "outbox", "outbox_waiting",
   "outbox_ready", "early", "replies", "round_unsent"}

\* A step of the owner, with another disk.
LEMMA BookMoves ==
  ASSUME NEW w, NEW q \in ReplicaID, NEW r, NEW d, At(w, q, r, d),
         NEW s, Ready(s), SameBut(r, s, BookFields), NEW e, Marked(s, e),
         \A x \in s.replies : x \in r.replies, \A m \in Out(s) : m \in Out(r)
  PROVE  GoesOn(w, q, s, e)
<1>1. /\ Ready(r) /\ NumbersOK(r) /\ Whole(r) /\ Sound(r) /\ HistoryTyped(w)
      /\ Stands(w, q, r) /\ ReceivedInv(w, q, r) /\ ReceivedOK(r) /\ r.ok
  BY AtHolds
<1>2. r.id = q
  BY AtId
<1>3. /\ s.id = q /\ s.ok /\ s.status = r.status /\ s.view_number = r.view_number
      /\ s.last_normal_view = r.last_normal_view /\ s.acked = r.acked
      /\ s.commit_number = r.commit_number /\ s.op_number = r.op_number /\ s.applied = r.applied
      /\ s.sm = r.sm /\ s.serving = r.serving /\ s.log = r.log /\ s.log_start = r.log_start
      /\ s.recovery_nonce = r.recovery_nonce /\ DOMAIN s = Fields
      /\ s.do_view_change_from = r.do_view_change_from /\ s.catching_up = r.catching_up
      /\ s.fetch = r.fetch /\ s.recovery_responses = r.recovery_responses
  BY <1>1, <1>2 DEF SameBut, Fields, BookFields
<1>4. NumbersOK(s)
  BY DEF Ready, ReplicaOK
<1>5. \A i : EntryAt(s, i) = EntryAt(r, i)
  BY <1>3 DEF EntryAt
<1>6. Sound(s)
  BY <1>1, <1>3 DEF Sound
<1>7. SameLog(r, s)
  BY <1>1, <1>3, <1>4, <1>5, <1>6 DEF SameLog, Whole
<1>8. Stands(w, q, s)
  <2>1. \A i \in 1 .. s.commit_number : Decided(w, r.view_number, i, EntryAt(r, i))
    BY <1>1, <1>3 DEF Stands
  <2> QED
    BY <1>1, <1>2, <1>3, <1>7, <2>1, StandsSame
<1>9. Succeeds(r, s)
  <2>1. Value(s) = Value(r)
    BY <1>7, SameValue
  <2> QED
    BY <1>3, <1>4, <2>1 DEF Succeeds, NumbersOK
<1>10. ReceivedInv(w, q, s)
  <2>1. r.commit_number \in Nat
    BY <1>1 DEF NumbersOK
  <2> QED
    BY <1>1, <1>2, <1>3, <2>1, ReceivedSame
<1> DEFINE rp == [rep EXCEPT ![q] = r]
<1>11. World(w, rp, msgs, committed)
  BY DEF At
<1>12. rp[q] = r /\ [rp EXCEPT ![q] = s] = [rep EXCEPT ![q] = s]
  <2>1. DOMAIN rp = ReplicaID
    BY <1>11 DEF World
  <2> QED
    BY <2>1
<1> HIDE DEF rp
<1>13. \E z : World(z, [rp EXCEPT ![q] = s], msgs, committed) /\ Later(w, z)
  BY <1>3, <1>6, <1>8, <1>9, <1>10, <1>11, <1>12, WorldGoesOn
<1> QED
  BY <1>12, <1>13 DEF GoesOn, At

\* The disk d of a replica that had executed k ops, f of them durably.
Before(d, f, k) ==
  [view_number |-> d.view_number, last_normal_view |-> d.last_normal_view,
   commit_number |-> d.commit_number, log_start |-> d.log_start, op_number |-> d.op_number,
   log |-> d.log, recovering |-> d.recovering, flushed |-> f, applied |-> k]

\* Before is a disk.
LEMMA BeforeIs ==
  ASSUME NEW d, DiskOK(d), NEW f, NEW k
  PROVE  DiskOK(Before(d, f, k))
  BY DEF DiskOK, Before

\* The disk holds what the replica is.
Stored(s, d) ==
  /\ d.view_number = s.view_number /\ d.last_normal_view = s.last_normal_view
  /\ d.recovering <=> s.status = "Recovering"
  /\ d.log_start = s.log_start /\ d.op_number = s.op_number
  /\ \A i \in s.log_start + 1 .. s.op_number : d.log[i] = s.log[i]
  /\ s.log_changed_from = 0 /\ d.commit_number <= s.commit_number
  /\ s.written.is => s.written.log_start = d.log_start

\* A replica whose disk holds what it is has nothing to mark.
LEMMA StoredMarked ==
  ASSUME NEW s, NumbersOK(s), NEW d, Stored(s, d), NEW f, NEW k \in Nat, k <= s.applied,
         s.log_start <= f \/ s.log_start > k
  PROVE  Marked(s, Before(d, f, k))
<1> DEFINE e == Before(d, f, k)
<1>1. /\ e.op_number = d.op_number /\ e.log_start = d.log_start /\ e.log = d.log
      /\ e.commit_number = d.commit_number /\ e.flushed = f /\ e.applied = k
  BY DEF Before
<1> HIDE DEF e
<1>2. s.log_start \in Nat /\ s.op_number \in Nat /\ s.log_start <= s.op_number
  BY DEF NumbersOK
<1>3. Marked(s, e)
  BY <1>1, <1>2 DEF Stored, Marked, Higher
<1> QED
  BY <1>3 DEF e

\* The write that is taken makes the disk what the replica is.
Lands(r, t, d) ==
  /\ ~(t.outstanding.sync /\ ~WriteFits(d, t.outstanding))
  /\ Stored(t, Landed(d, t.outstanding))

\* What take_write takes fits the disk, and leaves it holding what the replica is.
LEMMA TakeWriteLands ==
  ASSUME NEW id, NEW r, NEW d, Owned(id, r, d), r.ok, ~r.outstanding.out, Sound(r),
         NEW f, NEW k, Marked(r, Before(d, f, k)), NEW t, t = TakeWrite(r)
  PROVE  Lands(r, t, d)
<1> DEFINE from == IF r.log_changed_from = 0 THEN r.op_number + 1
                   ELSE Higher(r.log_changed_from, r.log_start + 1)
           recovers == r.status = "Recovering"
           written == [is |-> TRUE, view_number |-> r.view_number,
                       last_normal_view |-> r.last_normal_view,
                       recovering |-> recovers, log_start |-> r.log_start]
           entries == [i \in from .. r.op_number |-> r.log[i]]
           sync == r.log_changed_from # 0 \/ written # r.written
           w == [out |-> TRUE, view_number |-> r.view_number,
                 last_normal_view |-> r.last_normal_view,
                 recovering |-> written.recovering, commit_number |-> r.commit_number,
                 log_start |-> r.log_start, entries_from |-> from,
                 op_number |-> r.op_number, entries |-> entries, sync |-> sync]
           y == [r EXCEPT !.durable = DurableOp(r), !.log_changed_from = 0,
                     !.written = written, !.outstanding = w,
                     !.outbox = r.outbox_waiting, !.outbox_waiting = r.outbox]
<1>1. t = y
  BY Zenon DEF TakeWrite
<1>2. ReplicaInv(r, d) /\ Ready(r) /\ DOMAIN r = Fields
  BY DEF Owned, ReplicaInv, Ready, ReplicaOK
<1>3. /\ r.log_changed_from \in Nat /\ r.log_start \in Nat /\ r.op_number \in Nat
      /\ r.commit_number \in Nat
      /\ r.log_start <= r.op_number /\ r.log_changed_from <= r.op_number + 1
  BY <1>2 DEF Ready, ReplicaOK, NumbersOK
<1>4. d.log_start \in Nat /\ d.op_number \in Nat
  BY <1>2 DEF ReplicaInv, DiskOK
<1>5. /\ r.log_changed_from = 0 => d.op_number = r.op_number
      /\ d.log_start <= r.log_start
      /\ \A i \in r.log_start + 1 .. r.op_number :
           r.log_changed_from = 0 \/ i < r.log_changed_from => d.log[i] = r.log[i]
      /\ r.log_changed_from <= Higher(d.op_number, r.log_start) + 1
      /\ r.written.is => r.written.log_start = d.log_start
      /\ d.commit_number <= r.commit_number
  BY DEF Marked, Before
<1>6. from \in r.log_start + 1 .. Higher(d.op_number, r.log_start) + 1
  BY <1>3, <1>4, <1>5 DEF Higher
<1>7. \A i \in from .. r.op_number : entries[i] = r.log[i]
  OBVIOUS
<1>8. \A i \in r.log_start + 1 .. r.op_number : i < from => d.log[i] = r.log[i]
  BY <1>3, <1>5 DEF Higher
<1> HIDE DEF from, entries, recovers
<1>9. /\ written.is /\ written.view_number = r.view_number
      /\ written.last_normal_view = r.last_normal_view
      /\ written.recovering = recovers /\ written.log_start = r.log_start
  OBVIOUS
<1> HIDE DEF written, sync
<1>10. /\ w.out /\ w.view_number = r.view_number /\ w.last_normal_view = r.last_normal_view
       /\ w.recovering = recovers /\ w.commit_number = r.commit_number
       /\ w.log_start = r.log_start /\ w.entries_from = from /\ w.op_number = r.op_number
       /\ w.sync = sync /\ w.entries = entries
  BY <1>9
<1> HIDE DEF w
<1>11. /\ SameBut(r, t, {"durable", "log_changed_from", "written", "outstanding", "outbox",
                         "outbox_waiting"})
       /\ t.log_changed_from = 0 /\ t.written = written /\ t.outstanding = w
  BY <1>1, <1>2 DEF SameBut, Fields
<1> HIDE DEF y
<1>12. /\ t.status = r.status /\ t.view_number = r.view_number /\ t.log = r.log
       /\ t.last_normal_view = r.last_normal_view /\ t.commit_number = r.commit_number
       /\ t.log_start = r.log_start /\ t.op_number = r.op_number
  BY <1>11 DEF SameBut, Fields
<1>13. Higher(d.log_start, w.log_start) = r.log_start
  BY <1>3, <1>4, <1>5, <1>10 DEF Higher
<1>14. WriteFits(d, w)
  BY <1>6, <1>10, <1>13 DEF WriteFits
<1> DEFINE landed == Landed(d, w)
<1>15. CASE sync
  <2>1. landed = ApplyWrite(d, w)
    BY <1>10, <1>14, <1>15 DEF Landed
  <2>2. /\ landed.view_number = r.view_number /\ landed.last_normal_view = r.last_normal_view
        /\ landed.recovering = recovers /\ landed.op_number = r.op_number
        /\ landed.commit_number = r.commit_number /\ landed.log_start = r.log_start
        /\ landed.log = [i \in r.log_start + 1 .. r.op_number |->
                           IF i < from THEN d.log[i] ELSE entries[i]]
    BY <1>10, <1>13, <2>1 DEF ApplyWrite
  <2> HIDE DEF landed
  <2>3. \A i \in r.log_start + 1 .. r.op_number : landed.log[i] = r.log[i]
    BY <1>3, <1>6, <1>7, <1>8, <2>2
  <2>4. landed.recovering <=> t.status = "Recovering"
    BY <1>12, <2>2, Zenon DEF recovers
  <2>5. Stored(t, landed)
    <3>1. t.written.log_start = landed.log_start /\ landed.commit_number <= t.commit_number
      BY <1>3, <1>9, <1>11, <1>12, <2>2
    <3>2. \A i \in t.log_start + 1 .. t.op_number : landed.log[i] = t.log[i]
      BY <1>12, <2>3
    <3>3. /\ landed.view_number = t.view_number /\ landed.last_normal_view = t.last_normal_view
          /\ landed.log_start = t.log_start /\ landed.op_number = t.op_number
      BY <1>12, <2>2
    <3> QED
      BY <1>11, <2>4, <3>1, <3>2, <3>3 DEF Stored
  <2> QED
    BY <1>11, <1>14, <2>5 DEF Lands, landed
<1>16. CASE ~sync
  <2>1. landed = d
    BY <1>10, <1>16 DEF Landed
  <2>2. r.log_changed_from = 0 /\ r.written = written
    BY <1>16 DEF sync
  <2>3. /\ r.written.view_number = d.view_number
        /\ r.written.last_normal_view = d.last_normal_view
        /\ r.written.recovering = d.recovering
    BY <1>2, <1>9, <2>2 DEF ReplicaInv, WrittenInv
  <2>4. d.recovering <=> t.status = "Recovering"
    BY <1>9, <1>12, <2>2, <2>3, Zenon DEF recovers
  <2>5. Stored(t, d)
    BY <1>3, <1>5, <1>9, <1>11, <1>12, <2>2, <2>3, <2>4 DEF Stored
  <2> QED
    BY <1>11, <1>14, <2>1, <2>5 DEF Lands
<1> QED
  BY <1>15, <1>16

\* A replica executes what is committed.
LEMMA ApplyMoves ==
  ASSUME NEW w, NEW q \in ReplicaID, NEW r, NEW d, At(w, q, r, d), DiskOK(d), NEW op \in Nat
  PROVE  GoesOn(w, q, ApplyCommitted(r, op), d)
<1> DEFINE s == ApplyCommitted(r, op)
<1>1. /\ Ready(r) /\ NumbersOK(r) /\ Whole(r) /\ OrderedLog(Value(r), r.op_number) /\ Stands(w, q, r)
      /\ DOMAIN r = Fields
  BY AtHolds
<1>2. SameLog(r, s) /\ SameBut(r, s, ApplyFields)
  BY <1>1, ApplyKeeps
<1>3. r.applied <= s.applied
  BY <1>1, ApplyCommittedFrame
<1> HIDE DEF s
<1>4. NumbersOK(s)
  BY <1>2 DEF SameLog, Whole
<1>5. SameBut(r, s, QuietFields) /\ SameBut(r, s, CommitFields \union {"acked"})
  BY <1>2 DEF SameBut, QuietFields, CommitFields
<1>6. Ready(s)
  BY <1>1, <1>4, <1>5, QuietFollows DEF Follows
<1>7. s.commit_number = r.commit_number /\ s.acked = r.acked
  BY <1>2 DEF SameBut, ApplyFields, Fields
<1>8. \A i \in 1 .. s.commit_number : Decided(w, r.view_number, i, EntryAt(r, i))
  BY <1>1, <1>7 DEF Stands
<1>9. r.commit_number <= s.commit_number
  BY <1>1, <1>7 DEF NumbersOK
<1>10. GoesOn(w, q, s, d)
  BY <1>2, <1>3, <1>5, <1>6, <1>7, <1>8, <1>9, QuietMoves
<1> QED
  BY <1>10 DEF s

\* The fields take_write touches.
TakeFields == {"durable", "log_changed_from", "written", "outstanding", "outbox", "outbox_waiting"}

\* take_write.
LEMMA TakeWriteMoves ==
  ASSUME NEW w, NEW q \in ReplicaID, NEW r, NEW d, NEW f, NEW k, At(w, q, r, Before(d, f, k)),
         Owned(q, r, d), ~r.outstanding.out,
         NEW t, t = TakeWrite(r), NEW landed, landed = Landed(d, t.outstanding)
  PROVE  /\ GoesOn(w, q, t, Before(landed, f, k)) /\ Stored(t, landed)
         /\ ~(t.outstanding.sync /\ ~WriteFits(d, t.outstanding))
         /\ t.outstanding.op_number = t.op_number
         /\ k \in Nat /\ DiskOK(landed) /\ Owned(q, t, d) /\ t.ok /\ t.outstanding.out
         /\ t.outbox_ready = r.outbox_ready
<1>1. /\ Ready(r) /\ NumbersOK(r) /\ Sound(r) /\ Marked(r, Before(d, f, k)) /\ r.ok /\ DOMAIN r = Fields
  BY AtHolds
<1>2. Owned(q, t, d) /\ t.ok /\ t.outstanding.out /\ t.outbox_ready = r.outbox_ready
  BY <1>1, TakeWriteOwned
<1>3. Lands(r, t, d)
  BY <1>1, TakeWriteLands
<1>4. Stored(t, landed) /\ ~(t.outstanding.sync /\ ~WriteFits(d, t.outstanding))
  BY <1>3 DEF Lands
<1>5. Ready(t) /\ NumbersOK(t) /\ ReplicaInv(t, d)
  BY <1>2 DEF Owned, ReplicaInv, Ready, ReplicaOK
<1>6. /\ SameBut(r, t, TakeFields) /\ t.outbox = r.outbox_waiting /\ t.outbox_waiting = r.outbox
      /\ t.outstanding.op_number = r.op_number
  BY <1>1 DEF TakeWrite, SameBut, Fields, TakeFields
<1>7. /\ t.applied = r.applied /\ t.log_start = r.log_start /\ t.replies = r.replies
      /\ t.early = r.early /\ t.op_number = r.op_number
  BY <1>6 DEF SameBut, Fields, TakeFields
<1>8. k \in Nat /\ k <= t.applied /\ (t.log_start <= f \/ t.log_start > k)
  BY <1>1, <1>7 DEF Marked, Before
<1>9. Marked(t, Before(landed, f, k))
  BY <1>4, <1>5, <1>8, StoredMarked
<1>10. SameBut(r, t, BookFields)
  BY <1>6 DEF SameBut, TakeFields, BookFields
<1>11. \A m \in Out(t) : m \in Out(r)
  BY <1>2, <1>6, <1>7 DEF Out
<1>12. GoesOn(w, q, t, Before(landed, f, k))
  BY <1>5, <1>7, <1>9, <1>10, <1>11, BookMoves
<1>13. DiskOK(landed)
  BY <1>2, <1>5, LandedIs
<1> QED
  BY <1>2, <1>4, <1>6, <1>7, <1>8, <1>12, <1>13

\* The replica is handed back its write.
LEMMA PersistedMoves ==
  ASSUME NEW w, NEW q \in ReplicaID, NEW r, NEW d, NEW f, NEW k, At(w, q, r, Before(d, f, k)),
         Stored(r, d), DiskOK(d), r.outstanding.out, r.outstanding.op_number = r.op_number,
         WriteOK(r.outstanding), NEW p, p = Persisted(r)
  PROVE  GoesOn(w, q, p, Before(d, f, k)) /\ Stored(p, d) /\ p.outbox_waiting = {}
<1> DEFINE e == Before(d, f, k)
           op == r.outstanding.op_number
           a == [r EXCEPT !.outstanding = NoWrite, !.durable = op]
           op_a == DurableOp(a)
           b == IF Serves(a) /\ r.outstanding.last_normal_view = a.view_number
                THEN RegisterAck(a, a.id, op_a) ELSE a
           c == ApplyCommitted(b, op_a)
           y == [c EXCEPT !.outbox_ready = @ \union r.outbox_waiting, !.outbox_waiting = {}]
<1>1. p = y
  BY Zenon DEF Persisted
<1>2. /\ Ready(r) /\ NumbersOK(r) /\ DOMAIN r = Fields /\ Marked(r, e)
  BY AtHolds
<1>3. DiskOK(e)
  BY BeforeIs
<1> HIDE DEF e
<1>4. op \in Nat
  BY <1>2 DEF NumbersOK
<1> HIDE DEF op
<1>5. SameBut(r, a, {"outstanding", "durable"}) /\ a.outstanding = NoWrite /\ a.durable = op
  BY <1>2 DEF SameBut, Fields
<1> HIDE DEF a
<1>6. /\ a.log_changed_from = r.log_changed_from /\ a.op_number = r.op_number /\ a.log = r.log
      /\ a.log_start = r.log_start /\ a.written = r.written /\ a.commit_number = r.commit_number
      /\ a.applied = r.applied /\ a.replies = r.replies /\ a.id = r.id
      /\ a.early = r.early /\ a.outbox = r.outbox /\ a.outbox_waiting = r.outbox_waiting
      /\ a.outbox_ready = r.outbox_ready
  BY <1>5 DEF SameBut, Fields
<1>7. NumbersOK(a)
  BY <1>2, <1>4, <1>5 DEF SameBut, Fields, NumbersOK
<1>8. Ready(a)
  <2>1. ReceivedOK(a) /\ OutboxesOK(a) /\ Placed(a)
    BY <1>2, <1>5 DEF SameBut, Fields, Ready, ReplicaOK, ReceivedOK, OutboxesOK, Placed, IsPrimary
  <2> QED
    BY <1>2, <1>5, <1>7, <2>1 DEF SameBut, Fields, Ready, ReplicaOK
<1>9. Marked(a, e)
  <2>1. r.commit_number <= a.commit_number /\ r.applied <= a.applied
    BY <1>6, <1>7 DEF NumbersOK
  <2> QED
    BY <1>2, <1>3, <1>6, <1>7, <2>1, MarkedStays
<1>10. GoesOn(w, q, a, e)
  <2>1. SameBut(r, a, BookFields)
    BY <1>5 DEF SameBut, BookFields
  <2>2. Out(a) = Out(r)
    BY <1>6 DEF Out
  <2>3. At(w, q, r, e)
    BY DEF e
  <2> QED
    BY <1>6, <1>8, <1>9, <2>1, <2>2, <2>3, BookMoves
<1>11. PICK x : At(x, q, a, e) /\ Later(w, x)
  BY <1>10 DEF GoesOn
<1>12. op_a = a.op_number /\ op_a \in Nat
  BY <1>2, <1>5, <1>6 DEF DurableOp, Stored, NumbersOK, op
<1> HIDE DEF op_a
<1>13. GoesOn(x, q, b, e)
  <2>1. CASE b = a
    BY <1>11, <2>1, StaysAt
  <2>2. CASE Serves(a) /\ b = RegisterAck(a, a.id, op_a)
    <3>1. Heads(x, q, a)
      BY <1>11, <2>2, PrimaryHolds
    <3>2. a.id = q
      BY <1>11, AtId
    <3>3. op_a <= x.ack[a.view_number][q]
      BY <1>12, <3>1 DEF Heads
    <3> QED
      BY <1>3, <1>11, <1>12, <2>2, <3>2, <3>3, RegisterAckMoves
  <2> QED
    BY <2>1, <2>2
<1> HIDE DEF b
<1>14. PICK y2 : At(y2, q, b, e) /\ Later(x, y2)
  BY <1>13 DEF GoesOn
<1>15. GoesOn(y2, q, c, e)
  BY <1>3, <1>12, <1>14, ApplyMoves
<1> HIDE DEF c
<1>16. PICK z : At(z, q, c, e) /\ Later(y2, z)
  BY <1>15 DEF GoesOn
<1>17. Ready(c) /\ NumbersOK(c) /\ DOMAIN c = Fields /\ Marked(c, e)
  BY <1>16, AtHolds
<1>18. /\ SameBut(r, p, PersistedFields) /\ NumbersOK(p)
       /\ ~p.outstanding.out /\ p.outbox_waiting = {}
       /\ p.outbox_ready = r.outbox_ready \union r.outbox_waiting
  BY <1>2, PersistedFrame
<1>19. /\ SameBut(c, p, {"outbox_ready", "outbox_waiting"})
       /\ p.outbox_ready = c.outbox_ready \union r.outbox_waiting
  BY <1>1, <1>17 DEF SameBut, Fields
<1> HIDE DEF y
<1>20. c.outbox_waiting = r.outbox_waiting
  <2>1. SameBut(a, b, CommitFields \union {"acked"}) /\ DOMAIN b = Fields /\ NumbersOK(b)
    <3>1. Ready(b) /\ DOMAIN b = Fields /\ NumbersOK(b)
      BY <1>14, AtHolds
    <3>2. a.id \in ReplicaID
      BY <1>8 DEF Ready, ReplicaOK
    <3>3. SameBut(a, RegisterAck(a, a.id, op_a), CommitFields \union {"acked"})
      BY <1>8, <1>12, <3>2, RegisterAckFollows
    <3>4. SameBut(a, a, CommitFields \union {"acked"})
      BY <1>5 DEF SameBut
    <3> QED
      BY <3>1, <3>3, <3>4 DEF b
  <2>2. SameBut(b, c, ApplyFields)
    BY <1>12, <2>1, ApplyCommittedFrame DEF c
  <2> QED
    BY <1>6, <2>1, <2>2 DEF SameBut, CommitFields, ApplyFields, Fields
<1>21. /\ p.log_changed_from = c.log_changed_from /\ p.op_number = c.op_number /\ p.log = c.log
       /\ p.log_start = c.log_start /\ p.written = c.written /\ p.commit_number = c.commit_number
       /\ p.applied = c.applied /\ p.replies = c.replies /\ p.early = c.early /\ p.outbox = c.outbox
       /\ DOMAIN p = Fields
  BY <1>19 DEF SameBut, Fields
<1>22. Ready(p)
  <2>1. ReceivedOK(p) /\ OutboxesOK(p) /\ Placed(p)
    BY <1>17, <1>18, <1>19, <1>20 DEF SameBut, Fields, Ready, ReplicaOK, ReceivedOK, OutboxesOK, Placed, IsPrimary
  <2> QED
    BY <1>17, <1>18, <1>19, <2>1 DEF SameBut, Fields, Ready, ReplicaOK
<1>23. Marked(p, e)
  <2>1. c.commit_number <= p.commit_number /\ c.applied <= p.applied
    BY <1>17, <1>21 DEF NumbersOK
  <2> QED
    BY <1>3, <1>17, <1>18, <1>21, <2>1, MarkedStays
<1>24. GoesOn(z, q, p, e)
  <2>1. SameBut(c, p, BookFields)
    BY <1>19 DEF SameBut, BookFields
  <2>2. \A m \in Out(p) : m \in Out(c)
    BY <1>18, <1>19, <1>20, <1>21 DEF Out
  <2> QED
    BY <1>16, <1>21, <1>22, <1>23, <2>1, <2>2, BookMoves
<1>25. Later(w, z)
  BY <1>11, <1>14, <1>16, LaterThrough
<1>26. GoesOn(w, q, p, e)
  BY <1>24, <1>25, GoesThrough
<1>27. Stored(p, d)
  <2>1. /\ p.status = r.status /\ p.view_number = r.view_number /\ p.log = r.log
        /\ p.last_normal_view = r.last_normal_view /\ p.log_changed_from = r.log_changed_from
        /\ p.log_start = r.log_start /\ p.op_number = r.op_number /\ p.written = r.written
    BY <1>18 DEF SameBut, PersistedFields, CommitFields, ApplyFields, Fields
  <2>2. d.commit_number <= p.commit_number
    BY <1>23 DEF Marked, Before, e
  <2> QED
    BY <2>1, <2>2 DEF Stored
<1> QED
  BY <1>18, <1>26, <1>27 DEF e

-----------------------------------------------------------------------------
(* The end of a step *)

\* What the cluster keeps between steps.
AInv ==
  /\ rep = [q \in ReplicaID |-> rep[q]]
  /\ \E w : World(w, rep, msgs, committed)
  /\ \A q \in ReplicaID :
       /\ Stored(rep[q], disk[q])
       /\ rep[q].log_start <= flushed[q] /\ flushed[q] <= rep[q].applied
       /\ rep[q].commit_number <= Cardinality(DOMAIN committed)
  /\ \A x \in replies : Answers(x)

\* A step leaves replica id as it left r, as far as recovering goes.
LeftAs(id, r) ==
  \A q \in ReplicaID : rep'[q].status = IF q = id THEN r.status ELSE rep[q].status

\* The committed ops are as many as the last of them.
LEMMA CommittedMany ==
  ASSUME NEW c, NEW k \in Nat, DOMAIN c = 1 .. k
  PROVE  Cardinality(DOMAIN c) = k
<1>1. IsFiniteSet(1 .. k) /\ Cardinality(1 .. k) = IF 1 > k THEN 0 ELSE k - 1 + 1
  BY FS_Interval
<1> QED
  BY <1>1

\* What a replica adds to the committed entries is decided.
LEMMA RecordedAgrees ==
  ASSUME NEW w, Agreed(w, committed), NEW p, NumbersOK(p), p.commit_number <= p.op_number,
         \A i \in 1 .. p.commit_number : Decided(w, p.view_number, i, EntryAt(p, i))
  PROVE  /\ Agreed(w, Recorded(p))
         /\ Cardinality(DOMAIN committed) \in Nat /\ Cardinality(DOMAIN Recorded(p)) \in Nat
         /\ Cardinality(DOMAIN committed) <= Cardinality(DOMAIN Recorded(p))
         /\ p.commit_number <= Cardinality(DOMAIN Recorded(p))
<1>1. PICK k \in Nat : DOMAIN committed = 1 .. k
                       /\ \A i \in 1 .. k : \E v \in Nat : Decided(w, v, i, committed[i])
  BY DEF Agreed
<1>2. Cardinality(DOMAIN committed) = k
  BY <1>1, CommittedMany
<1>3. p.commit_number \in Nat /\ p.op_number \in Nat /\ p.view_number \in Nat
  BY DEF NumbersOK
<1> DEFINE now == Higher(k, p.commit_number)
           c == [i \in 1 .. now |-> IF i <= k THEN committed[i] ELSE EntryAt(p, i)]
<1>4. Lower(p.commit_number, p.op_number) = p.commit_number
  BY <1>3 DEF Lower
<1>5. Recorded(p) = c
  BY <1>2, <1>4 DEF Recorded
<1>6. now \in Nat /\ k <= now /\ p.commit_number <= now /\ (now = k \/ now = p.commit_number)
  BY <1>3 DEF Higher
<1> HIDE DEF now
<1>7. DOMAIN c = 1 .. now /\ \A i \in 1 .. now : c[i] = IF i <= k THEN committed[i] ELSE EntryAt(p, i)
  OBVIOUS
<1> HIDE DEF c
<1>8. \A i \in 1 .. now : \E v \in Nat : Decided(w, v, i, c[i])
  <2> SUFFICES ASSUME NEW i \in 1 .. now PROVE \E v \in Nat : Decided(w, v, i, c[i])
    OBVIOUS
  <2>1. CASE i <= k
    BY <1>1, <1>6, <1>7, <2>1
  <2>2. CASE ~(i <= k)
    <3>1. i \in 1 .. p.commit_number /\ c[i] = EntryAt(p, i)
      BY <1>3, <1>6, <1>7, <2>2
    <3> QED
      BY <1>3, <3>1
  <2> QED
    BY <2>1, <2>2
<1>9. Agreed(w, c)
  BY <1>6, <1>7, <1>8 DEF Agreed
<1>10. Cardinality(DOMAIN c) = now
  BY <1>6, <1>7, CommittedMany
<1> QED
  BY <1>2, <1>5, <1>6, <1>9, <1>10

\* What leaves leaves, and the entries committed are recorded.
LEMMA DrainedMoves ==
  ASSUME NEW w, NEW id \in ReplicaID, NEW p, NEW e, At(w, id, p, e), DiskOK(e),
         NEW s, s = Drained(p), NEW M, M \subseteq msgs \union (p.early \union p.outbox_ready)
  PROVE  /\ \E z : World(z, [rep EXCEPT ![id] = s], M, Recorded(p))
         /\ SameBut(p, s, {"early", "outbox_ready", "replies", "round_unsent"})
         /\ \A x \in p.replies : Answers(x)
         /\ Cardinality(DOMAIN committed) \in Nat /\ Cardinality(DOMAIN Recorded(p)) \in Nat
         /\ Cardinality(DOMAIN committed) <= Cardinality(DOMAIN Recorded(p))
         /\ p.commit_number <= Cardinality(DOMAIN Recorded(p))
<1>1. /\ Ready(p) /\ NumbersOK(p) /\ DOMAIN p = Fields /\ Marked(p, e) /\ Sound(p)
  BY AtHolds
<1>2. /\ SameBut(p, s, {"early", "outbox_ready", "replies", "round_unsent"})
      /\ s.early = {} /\ s.outbox_ready = {} /\ s.replies = {}
  BY <1>1 DEF Drained, SameBut, Fields
<1>3. /\ s.log_changed_from = p.log_changed_from /\ s.op_number = p.op_number /\ s.log = p.log
      /\ s.log_start = p.log_start /\ s.written = p.written /\ s.commit_number = p.commit_number
      /\ s.applied = p.applied /\ s.outbox = p.outbox /\ s.outbox_waiting = p.outbox_waiting
      /\ DOMAIN s = Fields /\ s.sm = p.sm /\ s.view_number = p.view_number
  BY <1>2 DEF SameBut, Fields
<1>4. NumbersOK(s)
  BY <1>1, <1>2 DEF SameBut, Fields, NumbersOK
<1>5. Ready(s)
  <2>1. ReceivedOK(s) /\ OutboxesOK(s) /\ Placed(s)
    BY <1>1, <1>2 DEF SameBut, Fields, Ready, ReplicaOK, ReceivedOK, OutboxesOK, Placed, IsPrimary
  <2> QED
    BY <1>1, <1>2, <1>4, <2>1 DEF SameBut, Fields, Ready, ReplicaOK
<1>6. Marked(s, e)
  <2>1. p.commit_number <= s.commit_number /\ p.applied <= s.applied
    BY <1>1, <1>3 DEF NumbersOK
  <2> QED
    BY <1>1, <1>3, <1>4, <2>1, MarkedStays
<1>7. GoesOn(w, id, s, e)
  <2>1. SameBut(p, s, BookFields)
    BY <1>2 DEF SameBut, BookFields
  <2>2. \A m \in Out(s) : m \in Out(p)
    BY <1>2, <1>3 DEF Out
  <2> QED
    BY <1>2, <1>5, <1>6, <2>1, <2>2, BookMoves
<1>8. PICK z : At(z, id, s, e) /\ Later(w, z)
  BY <1>7 DEF GoesOn
<1>9. ASSUME NEW m \in M
      PROVE  Addressed(m) /\ MessageInv(z, m[1], m[2])
  <2>1. CASE m \in msgs
    BY <1>8, <2>1, AtIs
  <2>2. CASE m \in p.early \union p.outbox_ready
    <3>1. Addressed(m)
      BY <1>1, <2>2 DEF Ready, ReplicaOK, OutboxesOK
    <3>2. Known(w, id, p)
      BY AtIs
    <3>3. MessageInv(w, m[1], m[2])
      BY <2>2, <3>2 DEF Known, Out
    <3> QED
      BY <1>8, <3>1, <3>3, MessageStays DEF Addressed
  <2> QED
    BY <1>9, <2>1, <2>2
<1>10. World(z, [rep EXCEPT ![id] = s], msgs, committed)
  BY <1>8 DEF At
<1>11. Agreed(z, committed)
  BY <1>10 DEF World
<1>12. p.commit_number <= p.op_number /\ \A i \in 1 .. p.commit_number : Decided(z, p.view_number, i, EntryAt(p, i))
  <2>1. Stands(z, id, s)
    BY <1>8, AtHolds
  <2> QED
    BY <1>3, <2>1 DEF Stands, EntryAt
<1>13. /\ Agreed(z, Recorded(p))
       /\ Cardinality(DOMAIN committed) \in Nat /\ Cardinality(DOMAIN Recorded(p)) \in Nat
       /\ Cardinality(DOMAIN committed) <= Cardinality(DOMAIN Recorded(p))
       /\ p.commit_number <= Cardinality(DOMAIN Recorded(p))
  BY <1>1, <1>11, <1>12, RecordedAgrees
<1>14. World(z, [rep EXCEPT ![id] = s], M, Recorded(p))
  BY <1>9, <1>10, <1>13 DEF World
<1>15. \A x \in p.replies : Answers(x)
  BY <1>1 DEF Sound
<1> QED
  BY <1>2, <1>13, <1>14, <1>15

\* A replica leaves a step.
LEMMA StepEnds ==
  ASSUME IInv, SteppingOn = {}, AInv, NEW id \in ReplicaID, NEW w, NEW r, NEW d, NEW f, NEW a,
         NEW k \in Nat, At(w, id, r, Before(d, f, a)), Owned(id, r, d), ~r.outstanding.out,
         r.log_start <= k, k <= a \/ k <= r.log_start, LeaveWith(id, r, d, k)
  PROVE  AInv' /\ LeftAs(id, r)
<1> DEFINE t == TakeWrite(r)
           landed == Landed(d, t.outstanding)
           p == Persisted(t)
           s == Drained(p)
           e == Before(landed, f, a)
<1>1. Ready(r) /\ NumbersOK(r) /\ r.ok /\ DOMAIN r = Fields
  BY AtHolds
<1>2. /\ GoesOn(w, id, t, e) /\ Stored(t, landed)
      /\ ~(t.outstanding.sync /\ ~WriteFits(d, t.outstanding))
      /\ t.outstanding.op_number = t.op_number
      /\ a \in Nat /\ DiskOK(landed) /\ Owned(id, t, d) /\ t.ok /\ t.outstanding.out
  BY TakeWriteMoves
<1>3. r.id = id
  BY AtId
<1>4. Written(r, d) = p /\ WrittenDisk(r, d) = landed
  BY <1>1, <1>2 DEF Written, WrittenDisk
<1>5. /\ rep' = [rep EXCEPT ![id] = s] /\ disk' = [disk EXCEPT ![id] = landed]
      /\ msgs' = Sent(id, p, landed) /\ replies' = replies \union p.replies
      /\ committed' = Recorded(p) /\ flushed' = [flushed EXCEPT ![id] = k]
  BY <1>4 DEF LeaveWith
<1>6. SameBut(r, t, TakeFields)
  BY <1>1, <1>2 DEF TakeWrite, SameBut, Fields, TakeFields
<1> HIDE DEF t, landed
<1>7. PICK y : At(y, id, t, e) /\ Later(w, y)
  BY <1>2 DEF GoesOn
<1>8. WriteOK(t.outstanding) /\ Ready(t)
  BY <1>2 DEF Owned, ReplicaInv, Ready
<1>9. GoesOn(y, id, p, e) /\ Stored(p, landed)
  BY <1>2, <1>7, <1>8, PersistedMoves
<1>10. SameBut(t, p, PersistedFields)
  BY <1>2, <1>8, PersistedFrame
<1> HIDE DEF p
<1>11. PICK z : At(z, id, p, e) /\ Later(y, z)
  BY <1>9 DEF GoesOn
<1>12. NumbersOK(p) /\ Marked(p, e)
  BY <1>11, AtHolds
<1>13. DiskOK(e)
  BY <1>2, BeforeIs
<1>14. msgs' \subseteq msgs \union (p.early \union p.outbox_ready)
  BY <1>5, SentIs
<1>15. /\ \E x : World(x, [rep EXCEPT ![id] = s], msgs', Recorded(p))
       /\ SameBut(p, s, {"early", "outbox_ready", "replies", "round_unsent"})
       /\ \A x \in p.replies : Answers(x)
       /\ Cardinality(DOMAIN committed) \in Nat /\ Cardinality(DOMAIN Recorded(p)) \in Nat
       /\ Cardinality(DOMAIN committed) <= Cardinality(DOMAIN Recorded(p))
       /\ p.commit_number <= Cardinality(DOMAIN Recorded(p))
  BY <1>11, <1>13, <1>14, DrainedMoves
<1> HIDE DEF s
<1>16. /\ s.status = p.status /\ s.view_number = p.view_number /\ s.log = p.log
       /\ s.last_normal_view = p.last_normal_view /\ s.log_changed_from = p.log_changed_from
       /\ s.log_start = p.log_start /\ s.op_number = p.op_number /\ s.written = p.written
       /\ s.commit_number = p.commit_number /\ s.applied = p.applied
  BY <1>15 DEF SameBut, Fields
<1>17. Stored(s, landed)
  BY <1>9, <1>16 DEF Stored
<1>18. p.log_start = r.log_start
  BY <1>6, <1>10 DEF SameBut, TakeFields, PersistedFields, CommitFields, ApplyFields, Fields
<1>19. s.log_start <= k /\ k <= s.applied
  <2>1. a <= p.applied
    BY <1>12 DEF Marked, Before, e
  <2>2. p.applied \in Nat /\ p.log_start \in Nat /\ p.log_start <= p.applied
    BY <1>12 DEF NumbersOK
  <2> QED
    BY <1>2, <1>16, <1>18, <2>1, <2>2
<1>20. \A q \in ReplicaID : rep[q].commit_number \in Nat
  BY DEF IInv, ReplicaInv, ReplicaOK, NumbersOK
<1>21. DOMAIN rep = ReplicaID /\ DOMAIN disk = ReplicaID /\ DOMAIN flushed = ReplicaID
  BY DEF IInv
<1>22. ASSUME NEW q \in ReplicaID
       PROVE  /\ Stored(rep'[q], disk'[q])
              /\ rep'[q].log_start <= flushed'[q] /\ flushed'[q] <= rep'[q].applied
              /\ rep'[q].commit_number <= Cardinality(DOMAIN committed')
  <2>1. CASE q = id
    <3>1. rep'[q] = s /\ disk'[q] = landed /\ flushed'[q] = k
      BY <1>5, <1>21, <2>1
    <3> QED
      BY <1>5, <1>15, <1>16, <1>17, <1>19, <3>1
  <2>2. CASE q # id
    <3>1. rep'[q] = rep[q] /\ disk'[q] = disk[q] /\ flushed'[q] = flushed[q]
      BY <1>5, <1>21, <2>2
    <3>2. /\ Stored(rep[q], disk[q]) /\ rep[q].log_start <= flushed[q] /\ flushed[q] <= rep[q].applied
          /\ rep[q].commit_number <= Cardinality(DOMAIN committed)
      BY DEF AInv
    <3> QED
      BY <1>5, <1>15, <1>20, <3>1, <3>2
  <2> QED
    BY <2>1, <2>2
<1>23. \E x : World(x, rep', msgs', committed')
  BY <1>5, <1>15
<1>24. \A x \in replies' : Answers(x)
  BY <1>5, <1>15 DEF AInv
<1>25. rep' = [q \in ReplicaID |-> rep'[q]]
  BY <1>5, <1>21
<1>26. s.status = r.status
  BY <1>6, <1>10, <1>16 DEF SameBut, TakeFields, PersistedFields, CommitFields, ApplyFields, Fields
<1>27. LeftAs(id, r)
  BY <1>5, <1>21, <1>26 DEF LeftAs
<1> QED
  BY <1>22, <1>23, <1>24, <1>25, <1>27 DEF AInv

-----------------------------------------------------------------------------
(* The steps of the cluster *)

\* The disk of replica q before a step.
DiskOf(q) == Before(disk[q], flushed[q], rep[q].applied)

\* A replica begins a step.
LEMMA StepBegins ==
  ASSUME IInv, AInv, NEW id \in ReplicaID
  PROVE  /\ \E w : At(w, id, rep[id], DiskOf(id))
         /\ DiskOK(DiskOf(id)) /\ DiskOf(id).flushed = flushed[id]
         /\ Ready(rep[id]) /\ rep[id].ok
<1>1. PICK w : World(w, rep, msgs, committed)
  BY DEF AInv
<1>2. [rep EXCEPT ![id] = rep[id]] = rep
  BY DEF AInv
<1>3. Known(w, id, rep[id])
  BY <1>1 DEF World
<1>4. Ready(rep[id]) /\ rep[id].ok /\ NumbersOK(rep[id])
  BY <1>3 DEF Known, Ready, ReplicaOK
<1>5. Stored(rep[id], disk[id]) /\ rep[id].log_start <= flushed[id] /\ rep[id].applied \in Nat
      /\ rep[id].applied <= rep[id].applied
  BY <1>4 DEF AInv, NumbersOK
<1>6. Marked(rep[id], DiskOf(id))
  BY <1>4, <1>5, StoredMarked DEF DiskOf
<1>7. DiskOK(DiskOf(id))
  <2>1. DiskOK(disk[id])
    BY DEF IInv, ReplicaInv
  <2> QED
    BY <2>1, BeforeIs DEF DiskOf
<1>8. At(w, id, rep[id], DiskOf(id))
  BY <1>1, <1>2, <1>6 DEF At
<1>9. DiskOf(id).flushed = flushed[id]
  BY DEF DiskOf, Before
<1> QED
  BY <1>4, <1>7, <1>8, <1>9

\* No replica loses its disk.
NoneRecovers ==
  \A q \in ReplicaID : rep'[q].status = "Recovering" => rep[q].status = "Recovering"

\* It ends the step as s, which a handler made of it.
LEMMA HandlerEnds ==
  ASSUME IInv, SteppingOn = {}, AInv, NEW id \in ReplicaID, NEW w, NEW s,
         GoesOn(w, id, s, DiskOf(id)), Follows(rep[id], s), Leave(id, s)
  PROVE  AInv' /\ NoneRecovers
<1> DEFINE k == IF s.log_start > rep[id].applied THEN s.log_start ELSE flushed[id]
<1>1. LeaveWith(id, s, disk[id], k)
  BY DEF Leave
<1>2. rep[id].ok
  BY StepBegins
<1>3. PICK z : At(z, id, s, DiskOf(id)) /\ Later(w, z)
  BY DEF GoesOn
<1>4. NumbersOK(s) /\ Marked(s, DiskOf(id)) /\ s.ok
  BY <1>3, AtHolds
<1>5. Owned(id, s, disk[id]) /\ ~s.outstanding.out
  BY <1>2, <1>4, FollowsOwned
<1>6. /\ s.log_start \in Nat /\ flushed[id] \in Nat /\ rep[id].applied \in Nat
      /\ flushed[id] <= rep[id].applied
      /\ s.log_start <= flushed[id] \/ s.log_start > rep[id].applied
  <2>1. s.log_start \in Nat /\ flushed[id] \in Nat /\ rep[id].applied \in Nat
    BY <1>4 DEF NumbersOK, IInv, ReplicaInv, ReplicaOK
  <2>2. flushed[id] <= rep[id].applied
    BY DEF AInv
  <2>3. s.log_start <= flushed[id] \/ s.log_start > rep[id].applied
    BY <1>4 DEF Marked, DiskOf, Before
  <2> QED
    BY <2>1, <2>2, <2>3
<1>7. k \in Nat /\ s.log_start <= k /\ (k <= rep[id].applied \/ k <= s.log_start)
  BY <1>6
<1>8. At(z, id, s, Before(disk[id], flushed[id], rep[id].applied))
  BY <1>3 DEF DiskOf
<1> HIDE DEF k
<1>9. AInv' /\ LeftAs(id, s)
  BY <1>1, <1>4, <1>5, <1>7, <1>8, StepEnds
<1>10. s.status = "Recovering" => rep[id].status = "Recovering"
  BY DEF Follows, Grows
<1> QED
  BY <1>9, <1>10 DEF NoneRecovers, LeftAs

\* A message arrives.
LEMMA OnMessageEnds ==
  ASSUME IInv, SteppingOn = {}, AInv, NEW e \in msgs, OnMessage(e[1], e[2])
  PROVE  AInv' /\ NoneRecovers
<1> DEFINE id == e[1]
           m == e[2]
           r == rep[id]
           d == DiskOf(id)
<1>1. id \in ReplicaID /\ MessageOK(m)
  BY DEF IInv, Addressed
<1>2. OnMessage(id, m)
  OBVIOUS
<1>3. PICK w : At(w, id, r, d)
  BY <1>1, StepBegins
<1>4. DiskOK(d) /\ Ready(r) /\ r.ok
  BY <1>1, StepBegins
<1>5. MessageInv(w, id, m)
  BY <1>1, <1>3, AtIs
<1> HIDE DEF id, m, d
<1>6. ASSUME NEW s, GoesOn(w, id, s, d), Follows(r, s), Step(id, s)
      PROVE  AInv' /\ NoneRecovers
  <2>1. Leave(id, s)
    BY <1>6 DEF Step
  <2> QED
    BY <1>1, <1>6, <2>1, HandlerEnds DEF d
<1>7. CASE DeliverPrepare(id, m)
  <2>1. r.status # "Recovering" /\ m.type = "Prepare"
    BY <1>7 DEF DeliverPrepare, Receive
  <2>2. Step(id, OnPrepare(r, m))
    BY <1>7 DEF DeliverPrepare
  <2>3. Follows(r, OnPrepare(r, m))
    BY <1>1, <1>4, <2>1, OnPrepareFollows
  <2>4. GoesOn(w, id, OnPrepare(r, m), d)
    BY <1>1, <1>3, <1>4, <1>5, <2>1, OnPrepareMoves
  <2> QED
    BY <1>6, <2>2, <2>3, <2>4
<1>8. CASE DeliverPrepareOk(id, m)
  <2>1. m.type = "PrepareOk"
    BY <1>8 DEF DeliverPrepareOk, Receive
  <2>2. Step(id, OnPrepareOk(r, m))
    BY <1>8 DEF DeliverPrepareOk
  <2>3. Follows(r, OnPrepareOk(r, m))
    BY <1>1, <1>4, <2>1, OnPrepareOkFollows
  <2>4. GoesOn(w, id, OnPrepareOk(r, m), d)
    BY <1>1, <1>3, <1>4, <1>5, <2>1, OnPrepareOkMoves
  <2> QED
    BY <1>6, <2>2, <2>3, <2>4
<1>9. CASE DeliverCommit(id, m)
  <2>1. r.status # "Recovering" /\ m.type = "Commit"
    BY <1>9 DEF DeliverCommit, Receive
  <2>2. Step(id, OnCommit(r, m))
    BY <1>9 DEF DeliverCommit
  <2>3. Follows(r, OnCommit(r, m))
    BY <1>1, <1>4, <2>1, OnCommitFollows
  <2>4. GoesOn(w, id, OnCommit(r, m), d)
    BY <1>1, <1>3, <1>4, <1>5, <2>1, OnCommitMoves
  <2> QED
    BY <1>6, <2>2, <2>3, <2>4
<1>10. CASE DeliverConfirmView(id, m)
  <2>1. m.type = "ConfirmView"
    BY <1>10 DEF DeliverConfirmView, Receive
  <2>2. Step(id, OnConfirmView(r, m))
    BY <1>10 DEF DeliverConfirmView
  <2>3. Follows(r, OnConfirmView(r, m))
    BY <1>1, <1>4, <2>1, OnConfirmViewFollows
  <2>4. GoesOn(w, id, OnConfirmView(r, m), d)
    BY <1>1, <1>3, <1>4, <1>5, <2>1, OnConfirmViewMoves
  <2> QED
    BY <1>6, <2>2, <2>3, <2>4
<1>11. CASE DeliverConfirmViewOk(id, m)
  <2>1. m.type = "ConfirmViewOk"
    BY <1>11 DEF DeliverConfirmViewOk, Receive
  <2>2. Step(id, OnConfirmViewOk(r, m))
    BY <1>11 DEF DeliverConfirmViewOk
  <2>3. Follows(r, OnConfirmViewOk(r, m))
    BY <1>1, <1>4, <2>1, OnConfirmViewOkFollows
  <2>4. GoesOn(w, id, OnConfirmViewOk(r, m), d)
    BY <1>1, <1>3, <1>4, <1>5, <2>1, OnConfirmViewOkMoves
  <2> QED
    BY <1>6, <2>2, <2>3, <2>4
<1>12. CASE DeliverGetState(id, m)
  <2>1. m.type = "GetState"
    BY <1>12 DEF DeliverGetState, Receive
  <2>2. PICK ck \in r.log_start .. r.applied : Step(id, OnGetState(r, m, ck))
    BY <1>12 DEF DeliverGetState
  <2>3. Follows(r, OnGetState(r, m, ck))
    BY <1>1, <1>4, <2>1, OnGetStateFollows
  <2>4. GoesOn(w, id, OnGetState(r, m, ck), d)
    BY <1>1, <1>3, <1>4, <1>5, <2>1, OnGetStateMoves
  <2> QED
    BY <1>6, <2>2, <2>3, <2>4
<1>13. CASE DeliverNewState(id, m)
  <2>1. m.type = "NewState"
    BY <1>13 DEF DeliverNewState, Receive
  <2>2. Step(id, OnNewState(r, m))
    BY <1>13 DEF DeliverNewState
  <2>3. Follows(r, OnNewState(r, m))
    BY <1>1, <1>4, <2>1, OnNewStateFollows
  <2>4. GoesOn(w, id, OnNewState(r, m), d)
    BY <1>1, <1>3, <1>4, <1>5, <2>1, OnNewStateMoves
  <2> QED
    BY <1>6, <2>2, <2>3, <2>4
<1>14. CASE DeliverGetChunk(id, m)
  <2>1. m.type = "GetChunk"
    BY <1>14 DEF DeliverGetChunk, Receive
  <2>2. Step(id, OnGetChunk(r, m))
    BY <1>14 DEF DeliverGetChunk
  <2>3. Follows(r, OnGetChunk(r, m))
    BY <1>1, <1>4, <2>1, OnGetChunkFollows
  <2>4. GoesOn(w, id, OnGetChunk(r, m), d)
    BY <1>1, <1>3, <1>4, <1>5, <2>1, OnGetChunkMoves
  <2> QED
    BY <1>6, <2>2, <2>3, <2>4
<1>15. CASE DeliverNewChunk(id, m)
  <2>1. m.type = "NewChunk"
    BY <1>15 DEF DeliverNewChunk, Receive
  <2>2. Step(id, OnNewChunk(r, m))
    BY <1>15 DEF DeliverNewChunk
  <2>3. Follows(r, OnNewChunk(r, m))
    BY <1>1, <1>4, <2>1, OnNewChunkFollows
  <2>4. GoesOn(w, id, OnNewChunk(r, m), d)
    BY <1>1, <1>3, <1>4, <1>5, <2>1, OnNewChunkMoves
  <2> QED
    BY <1>6, <2>2, <2>3, <2>4
<1>16. CASE DeliverStartViewChange(id, m)
  <2>1. r.status # "Recovering" /\ m.type = "StartViewChange"
    BY <1>16 DEF DeliverStartViewChange, Receive
  <2>2. Step(id, OnStartViewChange(r, m))
    BY <1>16 DEF DeliverStartViewChange
  <2>3. Follows(r, OnStartViewChange(r, m))
    BY <1>1, <1>4, <2>1, OnStartViewChangeFollows
  <2>4. GoesOn(w, id, OnStartViewChange(r, m), d)
    BY <1>1, <1>3, <1>4, <1>5, <2>1, OnStartViewChangeMoves
  <2> QED
    BY <1>6, <2>2, <2>3, <2>4
<1>17. CASE DeliverDoViewChange(id, m)
  <2>1. r.status # "Recovering" /\ m.type = "DoViewChange"
    BY <1>17 DEF DeliverDoViewChange, Receive
  <2>2. Step(id, OnDoViewChange(r, m))
    BY <1>17 DEF DeliverDoViewChange
  <2>3. Follows(r, OnDoViewChange(r, m))
    BY <1>1, <1>4, <2>1, OnDoViewChangeFollows
  <2>4. GoesOn(w, id, OnDoViewChange(r, m), d)
    BY <1>1, <1>3, <1>4, <1>5, <2>1, OnDoViewChangeMoves
  <2> QED
    BY <1>6, <2>2, <2>3, <2>4
<1>18. CASE DeliverStartView(id, m)
  <2>1. r.status # "Recovering" /\ m.type = "StartView"
    BY <1>18 DEF DeliverStartView, Receive
  <2>2. Step(id, OnStartView(r, m))
    BY <1>18 DEF DeliverStartView
  <2>3. Follows(r, OnStartView(r, m))
    BY <1>1, <1>4, <2>1, OnStartViewFollows
  <2>4. GoesOn(w, id, OnStartView(r, m), d)
    BY <1>1, <1>3, <1>4, <1>5, <2>1, OnStartViewMoves
  <2> QED
    BY <1>6, <2>2, <2>3, <2>4
<1>19. CASE DeliverRecovery(id, m)
  <2>1. r.status # "Recovering" /\ m.type = "Recovery"
    BY <1>19 DEF DeliverRecovery, Receive
  <2>2. PICK ck \in r.log_start .. r.applied : Step(id, OnRecovery(r, m, ck))
    BY <1>19 DEF DeliverRecovery
  <2>3. Follows(r, OnRecovery(r, m, ck))
    BY <1>1, <1>4, <2>1, OnRecoveryFollows
  <2>4. GoesOn(w, id, OnRecovery(r, m, ck), d)
    BY <1>1, <1>3, <1>4, <1>5, <2>1, OnRecoveryMoves
  <2> QED
    BY <1>6, <2>2, <2>3, <2>4
<1>20. CASE DeliverRecoveryResponse(id, m)
  <2>1. m.type = "RecoveryResponse"
    BY <1>20 DEF DeliverRecoveryResponse, Receive
  <2>2. Step(id, OnRecoveryResponse(r, m))
    BY <1>20 DEF DeliverRecoveryResponse
  <2>3. Follows(r, OnRecoveryResponse(r, m))
    BY <1>1, <1>4, <2>1, OnRecoveryResponseFollows
  <2>4. GoesOn(w, id, OnRecoveryResponse(r, m), d)
    BY <1>1, <1>3, <1>4, <1>5, <2>1, OnRecoveryResponseMoves
  <2> QED
    BY <1>6, <2>2, <2>3, <2>4
<1> QED
  BY <1>2, <1>7, <1>8, <1>9, <1>10, <1>11, <1>12, <1>13, <1>14, <1>15, <1>16, <1>17, <1>18, <1>19, <1>20 DEF OnMessage

\* An idle period passes.
LEMMA IdleEnds ==
  ASSUME IInv, SteppingOn = {}, AInv, NEW id \in ReplicaID, NEW timeout, IdlePeriod(id, timeout)
  PROVE  AInv' /\ NoneRecovers
<1> DEFINE r == rep[id]
           d == DiskOf(id)
<1>1. PICK stall, release \in BOOLEAN, due \in {0} \union r.commit_number + 1 .. r.op_number :
        Leave(id, OnIdle(r, timeout, stall, release, due))
  BY DEF IdlePeriod
<1>2. PICK w : At(w, id, r, d)
  BY StepBegins
<1>3. DiskOK(d) /\ Ready(r) /\ r.ok
  BY StepBegins
<1>4. due \in Nat /\ (due # 0 => due \in r.commit_number + 1 .. r.op_number)
  BY <1>3 DEF Ready, ReplicaOK, NumbersOK
<1> HIDE DEF d
<1> DEFINE s == OnIdle(r, timeout, stall, release, due)
<1>5. Follows(r, s)
  BY <1>3, <1>4, OnIdleFollows
<1>6. GoesOn(w, id, s, d)
  BY <1>2, <1>3, <1>4, OnIdleMoves
<1>7. Leave(id, s)
  BY <1>1
<1> HIDE DEF s
<1> QED
  BY <1>5, <1>6, <1>7, HandlerEnds DEF d

\* A query changes nothing of what is kept on disk.
LEMMA OnQueryFrame ==
  ASSUME NEW r, DOMAIN r = Fields, NEW c, NEW number
  PROVE  SameBut(r, OnQuery(r, c, number), SendingFields)
<1> DEFINE query == [client |-> c, number |-> number, round |-> RoundFor(r),
                     op_number |-> Higher(r.commit_number, r.view_start_op)]
           u == [r EXCEPT !.round = @ + 1, !.round_unsent = TRUE,
                         !.confirmed = [@ EXCEPT ![r.id] = r.round + 1]]
           m == [type |-> "ConfirmView", view_number |-> r.view_number, round |-> r.round + 1]
           s == OnQuery(r, c, number)
<1>1. PICK t \in {r, StartRound(r)} : s = r \/ s = [t EXCEPT !.queries = Append(@, query)]
  BY Zenon DEF OnQuery
<1>2. SameBut(r, u, RoundFields)
  BY DEF SameBut, Fields, RoundFields
<1>3. StartRound(r) = SendToOthers(u, m)
  BY DEF StartRound
<1> HIDE DEF u, m, query, s
<1>4. SameBut(u, SendToOthers(u, m), {"early", "outbox"})
  BY <1>2 DEF SendToOthers, SendTo, SameBut, Fields
<1>5. SameBut(r, StartRound(r), SendingFields)
  BY <1>2, <1>3, <1>4 DEF SameBut, RoundFields, SendingFields
<1>6. SameBut(r, r, SendingFields)
  BY DEF SameBut
<1>7. SameBut(r, t, SendingFields)
  BY <1>1, <1>5, <1>6
<1>8. CASE s = r
  BY <1>6, <1>8 DEF s
<1>9. CASE s = [t EXCEPT !.queries = Append(@, query)]
  <2>1. SameBut(t, s, {"queries"})
    BY <1>7, <1>9 DEF SameBut, Fields
  <2>2. SameBut(r, s, SendingFields)
    BY <1>7, <2>1 DEF SameBut, SendingFields
  <2> QED
    BY <2>2 DEF s
<1> QED
  BY <1>1, <1>8, <1>9

\* The step of a client.
LEMMA RegisterEnds ==
  ASSUME IInv, SteppingOn = {}, AInv, NEW id \in ReplicaID, NEW c \in Client, Register(id, c)
  PROVE  AInv' /\ NoneRecovers
<1> DEFINE r == rep[id]
           s == OnRegister(r, c)
<1>1. Serves(r) /\ Leave(id, s)
  BY DEF Register
<1>2. PICK w : At(w, id, r, DiskOf(id))
  BY StepBegins
<1>3. DiskOK(DiskOf(id)) /\ Ready(r) /\ r.ok
  BY StepBegins
<1>4. Follows(r, s)
  BY <1>3, OnRegisterFollows
<1>5. GoesOn(w, id, s, DiskOf(id))
  BY <1>1, <1>2, <1>3, OnRegisterMoves
<1> HIDE DEF s
<1> QED
  BY <1>1, <1>4, <1>5, HandlerEnds

\* A request arrives.
LEMMA RequestEnds ==
  ASSUME IInv, SteppingOn = {}, AInv, NEW id \in ReplicaID, NEW c \in Client, ClientRequest(id, c)
  PROVE  AInv' /\ NoneRecovers
<1> DEFINE r == rep[id]
<1>1. Serves(r)
  BY DEF ClientRequest
<1>2. PICK x \in replies :
        /\ x.type = "Registered"
        /\ LET done == {y.number : y \in {z \in replies : z.type = "Executed" /\ z.client = c
                                                          /\ z.session = x.session}}
           IN  \E a \in {0} \union done : \E n \in a + 1 .. a + InFlightMax :
                 Leave(id, OnRequest(r, c, x.session, n, a))
  BY DEF ClientRequest
<1> DEFINE done == {y.number : y \in {z \in replies : z.type = "Executed" /\ z.client = c
                                                      /\ z.session = x.session}}
<1>3. PICK a \in {0} \union done : \E n \in a + 1 .. a + InFlightMax :
                 Leave(id, OnRequest(r, c, x.session, n, a))
  BY <1>2
<1>4. \A y \in replies : Answers(y)
  BY DEF AInv
<1>5. a \in Nat
  BY <1>4 DEF Answers
<1>6. x.session \in Nat \ {0}
  BY <1>2, <1>4 DEF Answers
<1>7. PICK n \in a + 1 .. a + InFlightMax : Leave(id, OnRequest(r, c, x.session, n, a))
  BY <1>3
<1>8. n \in Nat \ {0}
  BY <1>5, <1>7, ConfigAssumption
<1>9. PICK w : At(w, id, r, DiskOf(id))
  BY StepBegins
<1>10. DiskOK(DiskOf(id)) /\ Ready(r) /\ r.ok
  BY StepBegins
<1> DEFINE session == x.session
           s == OnRequest(r, c, session, n, a)
<1>11. session \in Nat \ {0} /\ Leave(id, s)
  BY <1>6, <1>7
<1> HIDE DEF session
<1>12. Follows(r, s)
  BY <1>10, OnRequestFollows
<1>13. GoesOn(w, id, s, DiskOf(id))
  BY <1>1, <1>5, <1>8, <1>9, <1>10, <1>11, OnRequestMoves
<1> HIDE DEF s
<1> QED
  BY <1>11, <1>12, <1>13, HandlerEnds

\* A query arrives.
LEMMA QueryEnds ==
  ASSUME IInv, SteppingOn = {}, AInv, NEW id \in ReplicaID, NEW c, ClientQuery(id, c)
  PROVE  AInv' /\ NoneRecovers
<1> DEFINE r == rep[id]
<1>1. PICK n : LET s == OnQuery(r, c, n) IN
               \/ LeaveWith(id, s, disk[id], flushed[id])
               \/ /\ rep' = [rep EXCEPT ![id] = s]
                  /\ UNCHANGED <<disk, flushed, msgs, replies, committed>>
  BY DEF ClientQuery
<1> DEFINE s == OnQuery(r, c, n)
<1>2. PICK w : At(w, id, r, DiskOf(id))
  BY StepBegins
<1>3. DiskOK(DiskOf(id)) /\ Ready(r) /\ r.ok /\ DOMAIN r = Fields
  BY StepBegins DEF Ready, ReplicaOK
<1>4. Follows(r, s)
  BY <1>3, OnQueryFollows
<1>5. SameBut(r, s, SendingFields)
  BY <1>3, OnQueryFrame
<1>6. PICK z : At(z, id, s, DiskOf(id)) /\ Later(w, z)
  BY <1>2, <1>3, OnQueryMoves DEF GoesOn
<1>7. \/ LeaveWith(id, s, disk[id], flushed[id])
      \/ /\ rep' = [rep EXCEPT ![id] = s]
         /\ UNCHANGED <<disk, flushed, msgs, replies, committed>>
  BY <1>1
<1> HIDE DEF s
<1>8. /\ s.log_start = r.log_start /\ s.applied = r.applied /\ s.commit_number = r.commit_number
      /\ s.view_number = r.view_number /\ s.last_normal_view = r.last_normal_view
      /\ s.status = r.status /\ s.op_number = r.op_number /\ s.log = r.log
      /\ s.log_changed_from = r.log_changed_from /\ s.written = r.written /\ s.ok
  BY <1>3, <1>5 DEF SameBut, SendingFields, Fields
<1>9. CASE LeaveWith(id, s, disk[id], flushed[id])
  <2>1. Owned(id, s, disk[id]) /\ ~s.outstanding.out
    BY <1>3, <1>4, <1>8, FollowsOwned
  <2>2. At(z, id, s, Before(disk[id], flushed[id], r.applied))
    BY <1>6 DEF DiskOf
  <2>3. flushed[id] \in Nat /\ s.log_start <= flushed[id] /\ flushed[id] <= r.applied
    BY <1>8 DEF AInv, IInv
  <2>4. AInv' /\ LeftAs(id, s)
    BY <1>9, <2>1, <2>2, <2>3, StepEnds
  <2> QED
    BY <1>8, <2>4 DEF NoneRecovers, LeftAs
<1>10. CASE /\ rep' = [rep EXCEPT ![id] = s]
            /\ UNCHANGED <<disk, flushed, msgs, replies, committed>>
  <2>1. Stored(s, disk[id])
    <3>1. Stored(r, disk[id])
      BY DEF AInv
    <3> QED
      BY <1>8, <3>1 DEF Stored
  <2>2. World(z, rep', msgs', committed')
    BY <1>6, <1>10 DEF At
  <2>3. ASSUME NEW q \in ReplicaID
        PROVE  /\ Stored(rep'[q], disk'[q])
               /\ rep'[q].log_start <= flushed'[q] /\ flushed'[q] <= rep'[q].applied
               /\ rep'[q].commit_number <= Cardinality(DOMAIN committed')
    <3>1. /\ Stored(rep[q], disk[q]) /\ rep[q].log_start <= flushed[q]
          /\ flushed[q] <= rep[q].applied
          /\ rep[q].commit_number <= Cardinality(DOMAIN committed)
      BY DEF AInv
    <3>2. CASE q = id
      <4>1. rep'[q] = s
        BY <1>10, <3>2 DEF IInv
      <4> QED
        BY <1>8, <1>10, <2>1, <3>1, <3>2, <4>1
    <3>3. CASE q # id
      <4>1. rep'[q] = rep[q]
        BY <1>10, <3>3 DEF IInv
      <4> QED
        BY <1>10, <3>1, <4>1
    <3> QED
      BY <3>2, <3>3
  <2>4. rep' = [q \in ReplicaID |-> rep'[q]]
    BY <1>10 DEF IInv
  <2>5. \A x \in replies' : Answers(x)
    BY <1>10 DEF AInv
  <2>6. NoneRecovers
    BY <1>8, <1>10 DEF NoneRecovers, IInv
  <2> QED
    BY <2>2, <2>3, <2>4, <2>5, <2>6 DEF AInv
<1> QED
  BY <1>7, <1>9, <1>10

\* The step of an owner.
LEMMA OwnerEnds ==
  ASSUME IInv, SteppingOn = {}, AInv, NEW id \in ReplicaID,
         \/ OwnerDrains(id) \/ OwnerTakesWrite(id) \/ OwnerHandsBack(id)
         \/ OwnerFlushes(id) \/ OwnerCompacts(id)
  PROVE  AInv' /\ NoneRecovers
<1> DEFINE r == rep[id]
           d == DiskOf(id)
<1>1. PICK w : At(w, id, r, d)
  BY StepBegins
<1>2. DiskOK(d) /\ Ready(r) /\ r.ok /\ d.flushed = flushed[id]
  BY StepBegins
<1>3. flushed[id] \in Nat /\ ~r.outstanding.out
  BY <1>2 DEF IInv
<1>4. CASE OwnerDrains(id)
  <2>1. Leave(id, r)
    BY <1>4 DEF OwnerDrains
  <2>2. Follows(r, r) /\ GoesOn(w, id, r, d)
    BY <1>1, <1>2, FollowsSelf, StaysAt
  <2> QED
    BY <2>1, <2>2, HandlerEnds
<1>5. CASE OwnerTakesWrite(id) \/ OwnerHandsBack(id)
  BY <1>3, <1>5 DEF OwnerTakesWrite, OwnerHandsBack
<1>6. CASE OwnerFlushes(id)
  <2>1. /\ flushed' = [flushed EXCEPT ![id] = r.applied]
        /\ UNCHANGED <<rep, disk, msgs, replies, committed>>
    BY <1>6 DEF OwnerFlushes
  <2>2. r.log_start <= r.applied /\ r.applied <= r.applied
    BY <1>2 DEF Ready, ReplicaOK, NumbersOK
  <2>3. ASSUME NEW q \in ReplicaID
        PROVE  rep'[q].log_start <= flushed'[q] /\ flushed'[q] <= rep'[q].applied
    <3>1. CASE q = id
      <4>1. flushed'[q] = r.applied /\ rep'[q] = r
        BY <2>1, <3>1 DEF IInv
      <4> QED
        BY <2>2, <4>1
    <3>2. CASE q # id
      <4>1. flushed'[q] = flushed[q] /\ rep'[q] = rep[q]
        BY <2>1, <3>2 DEF IInv
      <4> QED
        BY <4>1 DEF AInv
    <3> QED
      BY <3>1, <3>2
  <2> QED
    BY <2>1, <2>3 DEF AInv, NoneRecovers
<1>7. CASE OwnerCompacts(id)
  <2> DEFINE s == Compact(r, flushed[id])
  <2>1. Leave(id, s)
    BY <1>7 DEF OwnerCompacts
  <2>2. Follows(r, s)
    BY <1>2, <1>3, CompactFollows
  <2>3. GoesOn(w, id, s, d)
    BY <1>1, <1>2, <1>3, CompactMoves
  <2> HIDE DEF s
  <2> QED
    BY <2>1, <2>2, <2>3, HandlerEnds
<1> QED
  BY <1>4, <1>5, <1>6, <1>7

\* Losing messages and standing still.
LEMMA StillEnds ==
  ASSUME AInv, msgs' \subseteq msgs, UNCHANGED <<rep, disk, flushed, replies, committed>>
  PROVE  AInv' /\ NoneRecovers
<1>1. PICK w : World(w, rep, msgs, committed)
  BY DEF AInv
<1>2. World(w, rep, msgs', committed)
  BY <1>1 DEF World
<1>3. \E x : World(x, rep', msgs', committed')
  BY <1>2
<1> QED
  BY <1>3 DEF AInv, NoneRecovers

-----------------------------------------------------------------------------
(* Replicas that start again *)

\* s has received nothing, and has nothing to send but asks for its recovery.
Fresh(s) ==
  /\ s.do_view_change_from = {} /\ s.catching_up = Nobody /\ s.fetch = NoFetch
  /\ s.recovery_responses = {} /\ s.serving = Nobody /\ s.acked = [q \in ReplicaID |-> 0]
  /\ s.early = {} /\ s.outbox_waiting = {} /\ s.outbox_ready = {}
  /\ s.status # "Recovering" => s.outbox = {}
  /\ \A e \in s.outbox : /\ e[2].type = "Recovery" /\ e[1] # s.id /\ e[2].replica_id = s.id
                         /\ e[2].nonce = s.recovery_nonce

\* A new replica.
LEMMA NewIsFresh ==
  ASSUME NEW id \in ReplicaID
  PROVE  LET r == New(id) IN
         /\ DOMAIN r = Fields /\ r.id = id /\ r.ok /\ r.replies = {} /\ r.status = "Normal"
         /\ r.do_view_change_from = {} /\ r.catching_up = Nobody /\ r.fetch = NoFetch
         /\ r.recovery_responses = {} /\ r.serving = Nobody /\ r.acked = [q \in ReplicaID |-> 0]
         /\ r.early = {} /\ r.outbox = {} /\ r.outbox_waiting = {} /\ r.outbox_ready = {}
         /\ r.op_number = 0 /\ r.commit_number = 0 /\ r.applied = 0 /\ r.log_start = 0
         /\ r.log_changed_from = 0 /\ ~r.written.is
  BY DEF New, Fields

\* One that lost its disk.
LEMMA RecoverIsFresh ==
  ASSUME NEW id \in ReplicaID, NEW view \in Nat, NEW nonce \in Nat
  PROVE  LET r == Recover(id, view, nonce) IN
         /\ DOMAIN r = Fields /\ Fresh(r) /\ r.id = id /\ r.ok /\ r.replies = {}
         /\ r.status = "Recovering" /\ r.view_number = view /\ r.recovery_nonce = nonce
         /\ r.op_number = 0 /\ r.commit_number = 0 /\ r.applied = 0 /\ r.log_start = 0
         /\ r.log_changed_from = 0 /\ ~r.written.is
<1> DEFINE n == New(id)
           s == [n EXCEPT !.status = "Recovering", !.view_number = view, !.recovery_nonce = nonce]
           answered == {q.replica_id : q \in s.recovery_responses}
           asks == IF Cardinality(answered) >= Quorum THEN Others(s.id)
                   ELSE Others(s.id) \ answered
           m == [type |-> "Recovery", replica_id |-> s.id,
                 nonce |-> s.recovery_nonce, view_number |-> s.view_number]
           r == SendTo(s, asks, m)
<1>1. Recover(id, view, nonce) = r
  BY DEF Recover, SendRecovery
<1>2. /\ DOMAIN n = Fields /\ n.id = id /\ n.ok /\ n.replies = {}
      /\ n.do_view_change_from = {} /\ n.catching_up = Nobody /\ n.fetch = NoFetch
      /\ n.recovery_responses = {} /\ n.serving = Nobody /\ n.acked = [q \in ReplicaID |-> 0]
      /\ n.early = {} /\ n.outbox = {} /\ n.outbox_waiting = {} /\ n.outbox_ready = {}
      /\ n.op_number = 0 /\ n.commit_number = 0 /\ n.applied = 0 /\ n.log_start = 0
      /\ n.log_changed_from = 0 /\ ~n.written.is
  BY NewIsFresh
<1> HIDE DEF n
<1>3. /\ SameBut(n, s, {"status", "view_number", "recovery_nonce"})
      /\ s.status = "Recovering" /\ s.view_number = view /\ s.recovery_nonce = nonce
  BY <1>2 DEF SameBut, Fields
<1> HIDE DEF s
<1>4. m.type = "Recovery" /\ m.type \notin EarlyTypes /\ m.replica_id = s.id
      /\ m.nonce = s.recovery_nonce
  BY DEF EarlyTypes
<1>5. asks \subseteq Others(s.id)
  OBVIOUS
<1> HIDE DEF m, asks
<1>6. SameBut(s, r, {"outbox"}) /\ r.outbox = s.outbox \union {<<q, m>> : q \in asks}
  BY <1>3, <1>4 DEF SendTo, SameBut, Fields
<1> HIDE DEF r
<1>7. s.outbox = {} /\ s.id = id
  BY <1>2, <1>3 DEF SameBut, Fields
<1>8. \A e \in r.outbox : e[1] # id /\ e[2] = m
  BY <1>5, <1>6, <1>7 DEF Others
<1>9. /\ r.id = id /\ r.recovery_nonce = nonce /\ r.status = "Recovering" /\ r.view_number = view
      /\ DOMAIN r = Fields /\ r.ok /\ r.replies = {}
      /\ r.do_view_change_from = {} /\ r.catching_up = Nobody /\ r.fetch = NoFetch
      /\ r.recovery_responses = {} /\ r.serving = Nobody /\ r.acked = [q \in ReplicaID |-> 0]
      /\ r.early = {} /\ r.outbox_waiting = {} /\ r.outbox_ready = {}
      /\ r.op_number = 0 /\ r.commit_number = 0 /\ r.applied = 0 /\ r.log_start = 0
      /\ r.log_changed_from = 0 /\ ~r.written.is
  BY <1>2, <1>3, <1>6 DEF SameBut, Fields
<1>10. Fresh(r)
  BY <1>3, <1>4, <1>7, <1>8, <1>9 DEF Fresh
<1> QED
  BY <1>1, <1>9, <1>10

\* One that starts again, before it loads its log.
LEMMA RestartedIsFresh ==
  ASSUME NEW id \in ReplicaID, NEW d, DiskOK(d), NEW nonce \in Nat
  PROVE  LET r == Restarted(id, d, nonce) IN
         /\ DOMAIN r = Fields /\ Fresh(r) /\ r.id = id /\ r.ok /\ r.replies = {}
         /\ r.recovery_nonce = nonce
<1> DEFINE r == Restarted(id, d, nonce)
<1>1. CASE d.recovering
  <2>1. r = Recover(id, d.view_number, nonce) /\ d.view_number \in Nat
    BY <1>1 DEF Restarted, DiskOK
  <2> HIDE DEF r
  <2> QED
    BY <2>1, RecoverIsFresh DEF r
<1>2. CASE ~d.recovering
  <2> DEFINE n == New(id)
  <2>1. r = [n EXCEPT !.view_number = d.view_number,
                      !.last_normal_view = d.last_normal_view, !.recovery_nonce = nonce]
    BY <1>2 DEF Restarted
  <2>2. /\ DOMAIN n = Fields /\ n.id = id /\ n.ok /\ n.replies = {}
        /\ n.do_view_change_from = {} /\ n.catching_up = Nobody /\ n.fetch = NoFetch
        /\ n.recovery_responses = {} /\ n.serving = Nobody /\ n.acked = [q \in ReplicaID |-> 0]
        /\ n.early = {} /\ n.outbox = {} /\ n.outbox_waiting = {} /\ n.outbox_ready = {}
    BY NewIsFresh
  <2> HIDE DEF n, r
  <2>3. /\ SameBut(n, r, {"view_number", "last_normal_view", "recovery_nonce"})
        /\ r.recovery_nonce = nonce
    BY <2>1, <2>2 DEF SameBut, Fields
  <2>4. /\ r.id = id /\ DOMAIN r = Fields /\ r.ok /\ r.replies = {}
        /\ r.do_view_change_from = {} /\ r.catching_up = Nobody /\ r.fetch = NoFetch
        /\ r.recovery_responses = {} /\ r.serving = Nobody /\ r.acked = [q \in ReplicaID |-> 0]
        /\ r.early = {} /\ r.outbox = {} /\ r.outbox_waiting = {} /\ r.outbox_ready = {}
    BY <2>2, <2>3 DEF SameBut, Fields
  <2>5. Fresh(r)
    BY <2>4 DEF Fresh
  <2> QED
    BY <2>3, <2>4, <2>5 DEF r
<1> QED
  BY <1>1, <1>2

\* A replica that received nothing received nothing wrong.
LEMMA FreshReceived ==
  ASSUME NEW s, Fresh(s), NEW w, NEW q
  PROVE  ReceivedInv(w, q, s)
  BY DEF Fresh, ReceivedInv, VotesInv, CatchingInv, FetchInv, ResponsesInv, NoFetch

\* s is r started again from what the disk d and k executed ops hold.
Runs(r, s, d, k) ==
  /\ SameLog(r, s) /\ s.commit_number <= r.commit_number
  /\ Marked(s, Before(d, k, k)) /\ s.log_start <= k

\* z is how it goes on.
GoesOnAs(d, ran, z) == (d.recovering => z = ran) /\ (~d.recovering => z = Resumed(ran, d))

\* What restart loads and executes is the log the replica had.
LEMMA RestartKeeps ==
  ASSUME NEW id \in ReplicaID, NEW r, Whole(r), OrderedLog(Value(r), r.op_number),
         NEW d, DiskOK(d), Stored(r, d), NEW k \in Nat, r.log_start <= k, k <= r.applied,
         r.status = "Recovering" => r.op_number = 0, NEW nonce \in Nat,
         NEW sm, sm = [i \in 1 .. k |-> r.sm[i]]
  PROVE  \E ran : /\ Runs(r, ran, d, k)
                  /\ SameBut(Restarted(id, d, nonce), ran, LoadedFields \union ApplyFields)
                  /\ GoesOnAs(d, ran, Restart(id, d, sm, k, nonce))
<1> DEFINE ahead == d.recovering \/ k > d.commit_number
           start == IF ahead THEN k ELSE d.log_start
           end == IF d.recovering THEN k
                  ELSE IF ahead THEN Higher(k, d.op_number) ELSE d.op_number
           commit == IF ahead THEN k ELSE d.commit_number
           base == Restarted(id, d, nonce)
           log == [i \in start + 1 .. end |-> d.log[i]]
           written == [is |-> TRUE, view_number |-> d.view_number,
                       last_normal_view |-> d.last_normal_view,
                       recovering |-> d.recovering, log_start |-> d.log_start]
           loaded == [base EXCEPT
                        !.log_start = start, !.op_number = end, !.log = log,
                        !.commit_number = commit,
                        !.applied = k, !.sm = sm, !.durable = end, !.written = written]
           ran == ApplyCommitted(loaded, end)
           z == Restart(id, d, sm, k, nonce)
<1>1. z = (IF (~d.recovering /\ d.log_start > k) \/ loaded.commit_number > end THEN Fail(base)
           ELSE IF ~ran.ok \/ d.recovering THEN ran ELSE Resumed(ran, d))
  BY Zenon DEF Restart
<1>2. /\ DOMAIN base = Fields /\ Fresh(base) /\ base.id = id /\ base.ok /\ base.replies = {}
      /\ base.recovery_nonce = nonce
  BY RestartedIsFresh
<1>3. ReplicaOK(base) /\ base.log_changed_from = 0
  BY RestartedIs
<1>4. /\ r.op_number \in Nat /\ r.commit_number \in Nat /\ r.applied \in Nat /\ r.log_start \in Nat
      /\ r.applied <= r.op_number /\ r.applied <= r.commit_number /\ r.log_start <= r.applied
      /\ r.commit_number <= r.op_number
  BY DEF Whole, NumbersOK
<1>5. /\ d.op_number = r.op_number /\ d.log_start = r.log_start
      /\ d.commit_number <= r.commit_number /\ d.commit_number \in Nat
      /\ d.recovering => r.op_number = 0
      /\ \A i \in r.log_start + 1 .. r.op_number : d.log[i] = r.log[i]
  BY DEF Stored, DiskOK
<1>6. /\ end = r.op_number /\ start \in Nat /\ commit \in Nat
      /\ r.log_start <= start /\ start <= k /\ k <= commit /\ commit <= r.commit_number
      /\ d.commit_number <= commit
  BY <1>4, <1>5 DEF Higher
<1>8. k <= end /\ commit <= end /\ end \in Nat /\ ~(d.log_start > k)
  BY <1>4, <1>5, <1>6
<1> HIDE DEF base, start, end, commit
<1>9. \A i \in start + 1 .. end : log[i] = r.log[i]
  BY <1>4, <1>5, <1>6
<1> HIDE DEF log
<1>10. /\ SameBut(base, loaded, LoadedFields)
       /\ loaded.log_start = start /\ loaded.op_number = end /\ loaded.commit_number = commit
       /\ loaded.applied = k /\ loaded.durable = end /\ loaded.written = written
       /\ loaded.log = log /\ loaded.sm = sm
  BY <1>2 DEF SameBut, Fields, LoadedFields
<1> HIDE DEF loaded
<1>11. /\ loaded.ok /\ loaded.replies = {} /\ loaded.serving = Nobody
       /\ loaded.log_changed_from = 0 /\ loaded.reply_ops = base.reply_ops
  BY <1>2, <1>3, <1>10 DEF SameBut, Fields, LoadedFields, Fresh
<1>12. NumbersOK(loaded)
  <2>1. /\ loaded.view_number = base.view_number /\ loaded.acked = base.acked
        /\ loaded.last_normal_view = base.last_normal_view
        /\ loaded.recovery_nonce = base.recovery_nonce
    BY <1>10 DEF SameBut, LoadedFields, Fields
  <2>2. /\ base.view_number \in Nat /\ base.last_normal_view \in Nat
        /\ base.last_normal_view <= base.view_number
        /\ base.acked \in [ReplicaID -> Nat] /\ base.recovery_nonce \in Nat
    BY <1>3 DEF NumbersOK, ReplicaOK
  <2>3. /\ loaded.log_start <= loaded.applied /\ loaded.applied <= loaded.commit_number
        /\ loaded.applied <= loaded.op_number /\ 0 <= loaded.op_number + 1
        /\ loaded.log_start \in Nat /\ loaded.applied \in Nat /\ loaded.commit_number \in Nat
        /\ loaded.op_number \in Nat /\ loaded.durable \in Nat /\ 0 \in Nat
    BY <1>6, <1>8, <1>10
  <2> QED
    BY <1>11, <2>1, <2>2, <2>3 DEF NumbersOK
<1>13. \A i \in r.log_start + 1 .. r.applied : r.log[i] = r.sm[i]
  BY DEF Whole, Sound
<1>14. Sound(loaded)
  <2>1. \A i \in start + 1 .. k : log[i] = sm[i]
    <3> SUFFICES ASSUME NEW i \in start + 1 .. k PROVE log[i] = sm[i]
      OBVIOUS
    <3>1. i \in start + 1 .. end /\ i \in r.log_start + 1 .. r.applied /\ i \in 1 .. k
      BY <1>4, <1>6, <1>8
    <3> QED
      BY <1>9, <1>13, <3>1
  <2> QED
    BY <1>10, <1>11, <2>1 DEF Sound
<1>15. Whole(loaded)
  BY <1>8, <1>10, <1>11, <1>12, <1>14 DEF Whole, SameBut
<1>16. SameLog(r, loaded)
  <2>1. ASSUME NEW i \in 1 .. r.op_number PROVE EntryAt(loaded, i) = EntryAt(r, i)
    <3>1. CASE i <= k
      <4>1. i \in 1 .. k /\ i <= r.applied
        BY <1>4, <3>1
      <4> QED
        BY <1>10, <3>1, <4>1 DEF EntryAt
    <3>2. CASE ~(i <= k)
      <4>1. i \in start + 1 .. end /\ EntryAt(loaded, i) = r.log[i]
        BY <1>6, <1>9, <1>10, <3>2 DEF EntryAt
      <4>2. CASE i <= r.applied
        <5>1. i \in r.log_start + 1 .. r.applied
          BY <1>4, <3>2, <4>2
        <5> QED
          BY <1>13, <4>1, <4>2, <5>1 DEF EntryAt
      <4>3. CASE ~(i <= r.applied)
        BY <4>1, <4>3 DEF EntryAt
      <4> QED
        BY <4>2, <4>3
    <3> QED
      BY <3>1, <3>2
  <2> QED
    BY <1>6, <1>10, <1>15, <2>1 DEF SameLog
<1>17. OrderedLog(Value(loaded), loaded.op_number)
  <2>1. Value(loaded) = Value(r)
    BY <1>16, SameValue
  <2> QED
    BY <1>6, <1>10, <2>1
<1>18. SameLog(loaded, ran) /\ SameBut(loaded, ran, ApplyFields)
  BY <1>8, <1>15, <1>17, ApplyKeeps
<1>19. k <= ran.applied
  BY <1>8, <1>10, <1>12, ApplyCommittedFrame DEF SameBut
<1> HIDE DEF ran
<1>21. SameLog(r, ran)
  BY <1>16, <1>18 DEF SameLog
<1>22. SameBut(base, ran, LoadedFields \union ApplyFields)
  BY <1>10, <1>18 DEF SameBut
<1>23. /\ ran.commit_number = commit /\ ran.log_start = start /\ ran.log = log
       /\ ran.written = written /\ ran.log_changed_from = 0 /\ ran.op_number = end
  BY <1>10, <1>11, <1>18 DEF SameBut, ApplyFields, Fields
<1>24. ran.applied \in Nat /\ ran.ok
  BY <1>21 DEF SameLog, Whole, NumbersOK
<1>25. Marked(ran, Before(d, k, k))
  <2> DEFINE e == Before(d, k, k)
  <2>1. /\ e.op_number = d.op_number /\ e.log_start = d.log_start /\ e.log = d.log
        /\ e.commit_number = d.commit_number /\ e.flushed = k /\ e.applied = k
    BY DEF Before
  <2> HIDE DEF e
  <2>2. \A i \in ran.log_start + 1 .. ran.op_number : e.log[i] = ran.log[i]
    <3> SUFFICES ASSUME NEW i \in start + 1 .. end PROVE d.log[i] = log[i]
      BY <1>23, <2>1
    <3>1. i \in r.log_start + 1 .. r.op_number
      BY <1>4, <1>6
    <3> QED
      BY <1>5, <1>9, <3>1
  <2>3. 0 <= Higher(e.op_number, ran.log_start) + 1
    BY <1>4, <1>5, <1>6, <1>23, <2>1 DEF Higher
  <2>4. e.log_start <= ran.log_start /\ e.commit_number <= ran.commit_number
    BY <1>5, <1>6, <1>23, <2>1
  <2>5. e.op_number = ran.op_number /\ ran.log_start <= e.flushed
    BY <1>5, <1>6, <1>23, <2>1
  <2>6. ran.written.log_start = e.log_start
    BY <1>23, <2>1
  <2>7. Marked(ran, e)
    BY <1>19, <1>23, <2>1, <2>2, <2>3, <2>4, <2>5, <2>6 DEF Marked
  <2> QED
    BY <2>7 DEF e
<1>26. Runs(r, ran, d, k)
  BY <1>6, <1>21, <1>23, <1>25 DEF Runs
<1>27. GoesOnAs(d, ran, z)
  <2>1. ~((~d.recovering /\ d.log_start > k) \/ loaded.commit_number > end)
    BY <1>6, <1>8, <1>10
  <2> QED
    BY <1>1, <1>24, <2>1, Zenon DEF GoesOnAs
<1> QED
  BY <1>22, <1>26, <1>27 DEF base

\* A replica that starts again with its log goes on in the history.
LEMMA StartsAgain ==
  ASSUME NEW w, World(w, rep, msgs, committed), NEW id \in ReplicaID, NEW s, Ready(s), s.id = id,
         s.ok, Sound(s), Fresh(s), s.outbox = {}, Succeeds(rep[id], s), Stands(w, id, s),
         NEW d, Marked(s, d)
  PROVE  \E z : At(z, id, s, d) /\ Later(w, z)
<1>1. ReceivedInv(w, id, s)
  BY FreshReceived
<1>2. Out(s) = {}
  BY DEF Out, Fresh
<1>3. \E z : World(z, [rep EXCEPT ![id] = s], msgs, committed) /\ Later(w, z)
  BY <1>1, <1>2, WorldGoesOn
<1> QED
  BY <1>3 DEF At

\* So does one without its log, as long as it recovers.
LEMMA RecoversAgain ==
  ASSUME NEW w, World(w, rep, msgs, committed), NEW id \in ReplicaID, NEW s, Ready(s), s.id = id,
         s.ok, Sound(s), Fresh(s), s.status = "Recovering", s.op_number = 0, s.commit_number = 0,
         rep[id].view_number <= s.view_number, rep[id].recovery_nonce < s.recovery_nonce,
         rep[id].recovery_nonce \in Nat, NEW d, Marked(s, d)
  PROVE  \E z : At(z, id, s, d)
<1> DEFINE u == [s EXCEPT !.outbox = {}]
<1>1. SameBut(s, u, {"outbox"}) /\ u.outbox = {}
  BY DEF SameBut, Fields, Ready, ReplicaOK
<1> HIDE DEF u
<1>2. /\ u.id = s.id /\ u.ok /\ u.replies = s.replies /\ u.log = s.log /\ u.log_start = s.log_start
      /\ u.applied = s.applied /\ u.sm = s.sm /\ u.serving = s.serving /\ u.status = s.status
      /\ u.op_number = s.op_number /\ u.commit_number = s.commit_number
      /\ u.view_number = s.view_number /\ u.recovery_nonce = s.recovery_nonce
      /\ u.log_changed_from = s.log_changed_from /\ u.written = s.written
      /\ u.do_view_change_from = s.do_view_change_from /\ u.catching_up = s.catching_up
      /\ u.fetch = s.fetch /\ u.recovery_responses = s.recovery_responses /\ u.acked = s.acked
      /\ u.early = s.early /\ u.outbox_waiting = s.outbox_waiting
      /\ u.outbox_ready = s.outbox_ready /\ DOMAIN u = Fields
  BY <1>1 DEF SameBut, Fields
<1>3. NumbersOK(s) /\ NumbersOK(u)
  BY <1>1 DEF SameBut, Fields, NumbersOK, Ready, ReplicaOK
<1>4. Ready(u)
  <2>1. ReceivedOK(u) /\ OutboxesOK(u) /\ Placed(u)
    BY <1>1, <1>2 DEF Ready, ReplicaOK, ReceivedOK, OutboxesOK, Placed, IsPrimary
  <2> QED
    BY <1>2, <1>3, <2>1 DEF Ready, ReplicaOK
<1>5. Sound(u) /\ Fresh(u) /\ Marked(u, d)
  BY <1>1, <1>2 DEF Sound, Fresh, Marked
<1>6. Succeeds(rep[id], u)
  BY <1>2, <1>3 DEF Succeeds, NumbersOK
<1>7. ASSUME NEW y, NEW t, t.op_number = 0, t.commit_number = 0, t.status = "Recovering"
      PROVE  Stands(y, id, t)
  BY <1>7 DEF Stands
<1>8. PICK y : At(y, id, u, d)
  BY <1>1, <1>2, <1>4, <1>5, <1>6, <1>7, StartsAgain
<1>9. Succeeds(u, s)
  BY <1>2, <1>3 DEF Succeeds, NumbersOK
<1>10. ReceivedInv(y, id, s)
  BY FreshReceived
<1>11. ASSUME NEW e \in Out(s) PROVE MessageInv(y, e[1], e[2])
  <2>1. e \in s.outbox
    BY DEF Out, Fresh
  <2>2. /\ e[2].type = "Recovery" /\ e[1] # s.id /\ e[2].replica_id = s.id
        /\ e[2].nonce = s.recovery_nonce
    BY <2>1 DEF Fresh
  <2>3. y.rep[id].recovery_nonce = s.recovery_nonce /\ s.recovery_nonce \in Nat
    BY <1>2, <1>3, <1>8, AtIs DEF NumbersOK
  <2> QED
    BY <2>2, <2>3 DEF MessageInv
<1>12. Stands(y, id, s)
  BY <1>7
<1>13. GoesOn(y, id, s, d)
  BY <1>8, <1>9, <1>10, <1>11, <1>12, Moves
<1> QED
  BY <1>13 DEF GoesOn

\* A replica that starts again knows the log it had, and what it is to do.
LEMMA AgainStands ==
  ASSUME NEW w, HistoryInv(w), NEW id \in ReplicaID, NEW r, Ready(r), r.id = id,
         Stands(w, id, r), r.status # "Recovering",
         NEW s, SameLog(r, s), s.id = id, s.commit_number <= r.commit_number,
         s.view_number = r.view_number, s.last_normal_view = r.last_normal_view,
         s.status \notin {"Recovering"}, s.acked = [q \in ReplicaID |-> 0]
  PROVE  Stands(w, id, s)
<1>1. NumbersOK(r) /\ NumbersOK(s) /\ s.op_number = r.op_number /\ s.commit_number <= s.op_number
      /\ Value(s) = Value(r) /\ \A i \in 1 .. r.op_number : EntryAt(s, i) = EntryAt(r, i)
  BY SameValue DEF SameLog, Whole, Ready, ReplicaOK
<1>2. OrderedLog(Value(s), s.op_number)
  BY <1>1, StandsOrdered
<1>3. \A i \in 1 .. s.commit_number : Decided(w, s.view_number, i, EntryAt(s, i))
  <2> SUFFICES ASSUME NEW i \in 1 .. s.commit_number
               PROVE  Decided(w, s.view_number, i, EntryAt(s, i))
    OBVIOUS
  <2>1. i \in 1 .. r.commit_number /\ i \in 1 .. r.op_number
    BY <1>1 DEF NumbersOK
  <2> QED
    BY <1>1, <2>1 DEF Stands
<1>4. IsPrimary(s) <=> IsPrimary(r)
  BY DEF IsPrimary
<1>5. \A v \in Nat : \A q \in ReplicaID : w.ack[v][q] \in Nat
  BY HistoryNumbers DEF HistoryInv
<1>6. r.view_number \in Nat
  BY <1>1 DEF NumbersOK
<1>7. InView(w, id, r) => InView(w, id, s)
  <2> SUFFICES ASSUME InView(w, id, r) PROVE InView(w, id, s)
    OBVIOUS
  <2>1. w.ack[s.view_number][id] <= s.op_number
    BY <1>1 DEF InView
  <2>2. ~IsPrimary(s) => Member(w, s.view_number, Value(s), s.op_number)
    BY <1>1, <1>4 DEF InView
  <2>3. IsPrimary(s) => Leads(w, s)
    <3> SUFFICES ASSUME IsPrimary(s) PROVE Leads(w, s)
      OBVIOUS
    <3>1. Leads(w, r)
      BY <1>4 DEF InView
    <3>2. \A x \in ReplicaID : s.acked[x] <= w.ack[s.view_number][x]
      BY <1>5, <1>6
    <3>3. s.view_number \in w.started =>
            /\ w.len[s.view_number] <= s.op_number
            /\ \A i \in 1 .. w.len[s.view_number] : EntryAt(s, i) = w.log[s.view_number][i]
      <4> SUFFICES ASSUME s.view_number \in w.started
                   PROVE  /\ w.len[s.view_number] <= s.op_number
                          /\ \A i \in 1 .. w.len[s.view_number] :
                               EntryAt(s, i) = w.log[s.view_number][i]
        OBVIOUS
      <4>1. w.len[s.view_number] <= s.op_number /\ w.len[s.view_number] \in Nat
        BY <1>1, <1>6, <3>1, HistoryNumbers DEF Leads, HistoryInv
      <4>2. 1 .. w.len[s.view_number] \subseteq 1 .. r.op_number
        BY <1>1, <4>1 DEF NumbersOK
      <4> QED
        BY <1>1, <3>1, <4>1, <4>2 DEF Leads
    <3> QED
      BY <1>1, <1>2, <3>1, <3>2, <3>3 DEF Leads
  <2> QED
    BY <2>1, <2>2, <2>3 DEF InView
<1>8. Left(w, id, r) => Left(w, id, s)
  BY <1>1, <1>4 DEF Left
<1> QED
  BY <1>1, <1>3, <1>7, <1>8 DEF Stands

\* s is r started again with d on disk, before it goes on.
Again(r, s, d, k) ==
  /\ Runs(r, s, d, k) /\ Fresh(s) /\ ReplicaOK(s) /\ s.id = r.id
  /\ s.view_number = r.view_number
  /\ d.recovering => s.status = "Recovering"
  /\ ~d.recovering => /\ s.status = "Normal" /\ s.last_normal_view = r.last_normal_view
                      /\ s.recovery_nonce = r.recovery_nonce
  /\ d.recovering => s.recovery_nonce = r.recovery_nonce + 1

\* Restart starts a replica again.
LEMMA RestartIsAgain ==
  ASSUME NEW id \in ReplicaID, NEW r, Whole(r), OrderedLog(Value(r), r.op_number), r.id = id,
         NEW d, DiskOK(d), Stored(r, d), NEW k \in Nat, r.log_start <= k, k <= r.applied,
         r.status = "Recovering" => r.op_number = 0,
         NEW nonce, d.recovering => nonce = r.recovery_nonce + 1,
         ~d.recovering => nonce = r.recovery_nonce,
         NEW sm, sm = [i \in 1 .. k |-> r.sm[i]]
  PROVE  \E ran : /\ Again(r, ran, d, k)
                  /\ GoesOnAs(d, ran, Restart(id, d, sm, k, nonce))
<1>1. nonce \in Nat /\ r.recovery_nonce \in Nat
  BY DEF Whole, NumbersOK
<1> DEFINE base == Restarted(id, d, nonce)
<1>2. PICK ran : /\ Runs(r, ran, d, k)
                 /\ SameBut(base, ran, LoadedFields \union ApplyFields)
                 /\ GoesOnAs(d, ran, Restart(id, d, sm, k, nonce))
  BY <1>1, RestartKeeps
<1>3. /\ DOMAIN base = Fields /\ Fresh(base) /\ base.id = id /\ base.recovery_nonce = nonce
  BY <1>1, RestartedIsFresh
<1>4. /\ ReplicaOK(base) /\ base.view_number = d.view_number
      /\ d.recovering => base.status = "Recovering"
      /\ ~d.recovering => base.status = "Normal" /\ base.last_normal_view = d.last_normal_view
  BY <1>1, RestartedIs
<1> HIDE DEF base
<1>5. /\ ran.id = base.id /\ ran.status = base.status /\ ran.recovery_nonce = base.recovery_nonce
      /\ ran.view_number = base.view_number /\ ran.last_normal_view = base.last_normal_view
      /\ ran.do_view_change_from = base.do_view_change_from /\ ran.catching_up = base.catching_up
      /\ ran.fetch = base.fetch /\ ran.recovery_responses = base.recovery_responses
      /\ ran.acked = base.acked /\ ran.serving = base.serving
      /\ ran.early = base.early /\ ran.outbox = base.outbox
      /\ ran.outbox_waiting = base.outbox_waiting
      /\ ran.outbox_ready = base.outbox_ready /\ DOMAIN ran = Fields
  BY <1>2 DEF SameBut, LoadedFields, ApplyFields, Fields
<1>6. Fresh(ran)
  BY <1>3, <1>5 DEF Fresh
<1>7. NumbersOK(ran)
  BY <1>2 DEF Runs, SameLog, Whole
<1>8. ReplicaOK(ran)
  <2>1. ReceivedOK(ran) /\ OutboxesOK(ran)
    BY <1>4, <1>5 DEF ReplicaOK, ReceivedOK, OutboxesOK
  <2> QED
    BY <1>4, <1>5, <1>7, <2>1 DEF ReplicaOK
<1>9. /\ d.view_number = r.view_number /\ d.last_normal_view = r.last_normal_view
  BY DEF Stored
<1>11. Again(r, ran, d, k)
  BY <1>2, <1>3, <1>4, <1>5, <1>6, <1>8, <1>9 DEF Again
<1> QED
  BY <1>2, <1>11

\* A replica that was in its view goes on in it.
LEMMA AgainInView ==
  ASSUME NEW w, World(w, rep, msgs, committed), NEW id \in ReplicaID, NEW d, NEW k,
         Stored(rep[id], d), ~d.recovering, d.last_normal_view = d.view_number,
         NEW s, Again(rep[id], s, d, k)
  PROVE  \E z : At(z, id, s, Before(d, k, k))
<1> DEFINE r == rep[id]
<1>1. Known(w, id, r) /\ HistoryInv(w)
  BY DEF World
<1>2. Ready(r) /\ r.id = id /\ Stands(w, id, r) /\ NumbersOK(r)
  BY <1>1 DEF Known, Rests, Ready, ReplicaOK
<1>3. /\ SameLog(r, s) /\ s.commit_number <= r.commit_number /\ Marked(s, Before(d, k, k))
      /\ Fresh(s) /\ ReplicaOK(s) /\ s.id = id /\ s.view_number = r.view_number
      /\ s.status = "Normal" /\ s.last_normal_view = r.last_normal_view
      /\ s.recovery_nonce = r.recovery_nonce
  BY <1>2 DEF Again, Runs
<1>4. r.status # "Recovering" /\ r.last_normal_view = r.view_number
  BY DEF Stored
<1> HIDE DEF r
<1>5. Ready(s)
  BY <1>3, <1>4 DEF Ready, Placed, Fresh, NoFetch
<1>6. Stands(w, id, s)
  BY <1>1, <1>2, <1>3, <1>4, AgainStands DEF Fresh
<1>7. Succeeds(r, s)
  BY <1>2, <1>3 DEF Succeeds, NumbersOK
<1>8. s.ok /\ Sound(s) /\ s.outbox = {}
  BY <1>3 DEF SameLog, Whole, Fresh
<1> QED
  BY <1>3, <1>5, <1>6, <1>7, <1>8, StartsAgain DEF r

\* One that had left its view goes on waiting for the next.
LEMMA AgainLeft ==
  ASSUME NEW w, World(w, rep, msgs, committed), NEW id \in ReplicaID, NEW d, NEW k,
         Stored(rep[id], d), ~d.recovering, d.last_normal_view < d.view_number,
         NEW ran, Again(rep[id], ran, d, k), DiskOK(d)
  PROVE  \E z : At(z, id, StartViewChange(ran, d.view_number), Before(d, k, k))
<1> DEFINE r == rep[id]
           e == Before(d, k, k)
           s == [ClearViewChangeState(ran) EXCEPT !.view_number = d.view_number,
                                                  !.status = "ViewChange"]
<1>1. Known(w, id, r) /\ HistoryInv(w)
  BY DEF World
<1>2. Ready(r) /\ r.id = id /\ Stands(w, id, r) /\ NumbersOK(r)
  BY <1>1 DEF Known, Rests, Ready, ReplicaOK
<1>3. /\ SameLog(r, ran) /\ ran.commit_number <= r.commit_number /\ Marked(ran, e)
      /\ Fresh(ran) /\ ReplicaOK(ran) /\ ran.id = id /\ ran.view_number = r.view_number
      /\ ran.status = "Normal" /\ ran.last_normal_view = r.last_normal_view
      /\ ran.recovery_nonce = r.recovery_nonce
  BY <1>2 DEF Again, Runs
<1>4. /\ r.status # "Recovering" /\ r.last_normal_view < r.view_number
      /\ d.view_number = r.view_number /\ d.view_number \in Nat
  BY DEF Stored, DiskOK
<1>5. r.status = "ViewChange"
  BY <1>2, <1>4 DEF Ready, ReplicaOK, NumbersOK, Placed, Status
<1>6. DOMAIN ran = Fields
  BY <1>3 DEF ReplicaOK
<1>7. /\ StartViewChange(ran, d.view_number) = SendStartViewChange(s)
      /\ SameBut(ran, s, ClearFields \union {"view_number", "status"})
      /\ s.view_number = d.view_number /\ s.status = "ViewChange"
      /\ Cleared(s) /\ s.catching_up = Nobody
  BY <1>6, StartViewChangeIs
<1>8. DiskOK(e)
  BY BeforeIs
<1> HIDE DEF r, s, e
<1>9. /\ s.id = ran.id /\ s.ok = ran.ok /\ s.replies = ran.replies /\ s.log = ran.log
      /\ s.log_start = ran.log_start /\ s.last_normal_view = ran.last_normal_view
      /\ s.applied = ran.applied /\ s.sm = ran.sm /\ s.serving = ran.serving
      /\ s.op_number = ran.op_number /\ s.commit_number = ran.commit_number
      /\ s.recovery_nonce = ran.recovery_nonce
      /\ s.log_changed_from = ran.log_changed_from /\ s.written = ran.written
      /\ s.recovery_responses = ran.recovery_responses /\ s.acked = ran.acked
      /\ s.early = ran.early /\ s.outbox = ran.outbox /\ s.outbox_waiting = ran.outbox_waiting
      /\ s.outbox_ready = ran.outbox_ready /\ s.durable = ran.durable /\ DOMAIN s = Fields
  BY <1>7 DEF SameBut, ClearFields, Fields
<1>10. NumbersOK(ran) /\ Whole(ran) /\ ran.outbox = {}
  BY <1>3 DEF SameLog, Whole, Fresh
<1>11. NumbersOK(s) /\ s.view_number = r.view_number
  BY <1>3, <1>4, <1>7, <1>9, <1>10 DEF NumbersOK
<1>12. Sound(s) /\ Whole(s) /\ s.ok
  BY <1>9, <1>10, <1>11 DEF Whole, Sound
<1>13. SameLog(r, s)
  BY <1>3, <1>9, <1>12 DEF SameLog, EntryAt
<1>14. Fresh(s)
  BY <1>3, <1>7, <1>9, <1>10 DEF Fresh, Cleared
<1>15. Ready(s)
  <2>1. ReceivedOK(s) /\ OutboxesOK(s)
    BY <1>3, <1>9, <1>14, FS_EmptySet DEF Fresh, ReplicaOK, ReceivedOK, OutboxesOK, FetchOK, NoFetch
  <2>2. Placed(s)
    BY <1>3, <1>4, <1>7, <1>9, <1>14 DEF Placed, Fresh, NoFetch
  <2> QED
    BY <1>3, <1>7, <1>9, <1>11, <2>1, <2>2 DEF Ready, ReplicaOK, Status
<1>16. Marked(s, e)
  BY <1>3, <1>9 DEF Marked
<1>17. s.id = id /\ s.commit_number <= r.commit_number /\ s.last_normal_view = r.last_normal_view
       /\ s.status \notin {"Recovering"} /\ s.acked = [q \in ReplicaID |-> 0] /\ s.outbox = {}
  BY <1>3, <1>7, <1>9, <1>10, <1>14 DEF Fresh
<1>18. Stands(w, id, s)
  BY <1>1, <1>2, <1>4, <1>11, <1>13, <1>17, AgainStands
<1>19. Succeeds(r, s)
  <2>1. s.op_number = r.op_number /\ Value(s) = Value(r)
    BY <1>13, SameValue DEF SameLog
  <2>2. r.view_number <= s.view_number /\ r.recovery_nonce <= s.recovery_nonce
    BY <1>2, <1>3, <1>9, <1>11 DEF NumbersOK
  <2> QED
    BY <1>5, <1>17, <2>1, <2>2 DEF Succeeds
<1>20. PICK y : At(y, id, s, e)
  BY <1>12, <1>14, <1>15, <1>16, <1>17, <1>18, <1>19, StartsAgain DEF r
<1>21. GoesOn(y, id, SendStartViewChange(s), e)
  BY <1>8, <1>20, SendStartViewChangeMoves
<1>22. \E z : At(z, id, StartViewChange(ran, d.view_number), e)
  BY <1>7, <1>21 DEF GoesOn
<1> QED
  BY <1>22 DEF e

\* A replica that restarts goes on in the history.
LEMMA RestartMoves ==
  ASSUME NEW w, World(w, rep, msgs, committed), NEW id \in ReplicaID, NEW d, DiskOK(d),
         Stored(rep[id], d), NEW k \in Nat, rep[id].log_start <= k, k <= rep[id].applied,
         NEW nonce, d.recovering => nonce = rep[id].recovery_nonce + 1,
         ~d.recovering => nonce = rep[id].recovery_nonce,
         NEW sm, sm = [i \in 1 .. k |-> rep[id].sm[i]],
         NEW s, s = Restart(id, d, sm, k, nonce)
  PROVE  \E z : At(z, id, s, Before(d, k, k))
<1> DEFINE r == rep[id]
           e == Before(d, k, k)
<1>1. Known(w, id, r) /\ HistoryInv(w) /\ CommittedInv(w)
  BY DEF World
<1>2. /\ Ready(r) /\ r.id = id /\ Stands(w, id, r) /\ NumbersOK(r)
      /\ Whole(r) /\ OrderedLog(Value(r), r.op_number)
  BY <1>1, KnownIs DEF Known, Ready, ReplicaOK
<1>3. r.status = "Recovering" => r.op_number = 0
  BY <1>2 DEF Stands
<1>4. PICK ran : Again(r, ran, d, k) /\ GoesOnAs(d, ran, s)
  BY <1>2, <1>3, RestartIsAgain
<1>5. CASE d.recovering
  <2>1. /\ s = ran /\ SameLog(r, s) /\ s.commit_number <= r.commit_number /\ Marked(s, e)
        /\ Fresh(s) /\ ReplicaOK(s) /\ s.id = id /\ s.view_number = r.view_number
        /\ s.status = "Recovering" /\ s.recovery_nonce = r.recovery_nonce + 1
    BY <1>2, <1>4, <1>5 DEF Again, Runs, GoesOnAs
  <2>2. /\ s.op_number = 0 /\ s.commit_number = 0 /\ s.ok /\ Sound(s)
    <3>1. r.op_number = 0
      BY <1>3, <1>5 DEF Stored
    <3>2. s.op_number = 0 /\ NumbersOK(s) /\ s.commit_number <= s.op_number /\ s.ok /\ Sound(s)
      BY <2>1, <3>1 DEF SameLog, Whole
    <3> QED
      BY SMTT(30), <3>2 DEF NumbersOK
  <2>3. MaxLosses # 0
    BY <1>5 DEF DiskOK
  <2>4. Ready(s)
    BY SMTT(30), <2>1, <2>3 DEF Ready, Placed, Fresh, NoFetch
  <2>5. /\ r.view_number <= s.view_number /\ r.recovery_nonce < s.recovery_nonce
        /\ r.recovery_nonce \in Nat
    BY <1>2, <2>1 DEF NumbersOK
  <2> QED
    BY <2>1, <2>2, <2>4, <2>5, RecoversAgain
<1>6. CASE ~d.recovering
  <2>1. s = Resumed(ran, d)
    BY <1>4, <1>6 DEF GoesOnAs
  <2>2. d.last_normal_view \in Nat /\ d.view_number \in Nat /\ d.last_normal_view <= d.view_number
    BY DEF DiskOK
  <2>3. CASE d.last_normal_view < d.view_number
    <3>1. s = StartViewChange(ran, d.view_number)
      <4>1. ~ (d.last_normal_view >= d.view_number)
        BY <2>2, <2>3
      <4> QED
        BY <2>1, <2>3, <4>1, Zenon DEF Resumed
    <3> QED
      BY <1>4, <1>6, <2>3, <3>1, AgainLeft
  <2>4. CASE d.last_normal_view = d.view_number
    <3>1. \E z : At(z, id, ran, e)
      BY <1>4, <1>6, <2>4, AgainInView
    <3>2. PICK y : At(y, id, ran, e)
      BY <3>1
    <3>3. ~ (d.last_normal_view < d.view_number) /\ d.last_normal_view >= d.view_number
      BY <2>2, <2>4
    <3>4. \/ s = ran
          \/ s = StartViewChange(ran, d.view_number + 1)
      BY <2>1, <3>3, Zenon DEF Resumed
    <3>5. CASE s = ran
      BY <3>1, <3>5
    <3>6. CASE s = StartViewChange(ran, d.view_number + 1)
      <4> DEFINE view == d.view_number + 1
      <4>1. /\ ran.status # "Recovering" /\ ran.view_number <= view /\ ran.last_normal_view < view
            /\ view \in Nat
        <5>1. /\ ran.status = "Normal" /\ ran.view_number = d.view_number
              /\ ran.last_normal_view = d.last_normal_view
          BY <1>4, <1>6 DEF Again, Stored
        <5> QED
          BY <2>2, <5>1
      <4>2. DiskOK(e)
        BY BeforeIs
      <4> HIDE DEF view, e
      <4>3. GoesOn(y, id, StartViewChange(ran, view), e)
        BY <3>2, <4>1, <4>2, StartViewChangeMoves
      <4>4. \E z : At(z, id, StartViewChange(ran, view), e)
        BY <4>3 DEF GoesOn
      <4> QED
        BY <3>6, <4>4 DEF view, e
    <3> QED
      BY <3>4, <3>5, <3>6
  <2>5. d.last_normal_view < d.view_number \/ d.last_normal_view = d.view_number
    BY <2>2
  <2> QED
    BY <2>3, <2>4, <2>5, Zenon
<1> QED
  BY <1>5, <1>6

\* Starting a view change leaves the log alone.
LEMMA StartViewChangeStart ==
  ASSUME NEW r, DOMAIN r = Fields, NEW view
  PROVE  /\ StartViewChange(r, view).log_start = r.log_start
         /\ StartViewChange(r, view).status = "ViewChange"
<1> DEFINE s == [ClearViewChangeState(r) EXCEPT !.view_number = view, !.status = "ViewChange"]
<1>1. /\ StartViewChange(r, view) = SendStartViewChange(s)
      /\ SameBut(r, s, ClearFields \union {"view_number", "status"}) /\ s.status = "ViewChange"
  BY StartViewChangeIs
<1> HIDE DEF s
<1>2. s.log_start = r.log_start /\ DOMAIN s = Fields
  BY <1>1 DEF SameBut, ClearFields, Fields
<1>3. SameBut(s, SendStartViewChange(s), {"outbox"})
  BY <1>2, SendStartViewChangeFrame
<1> QED
  BY <1>1, <1>2, <1>3 DEF SameBut, Fields

\* A replica that starts again reaches back to what it flushed, and recovers
\* only if it did.
LEMMA RestartStart ==
  ASSUME NEW w, World(w, rep, msgs, committed), NEW id \in ReplicaID, NEW d, DiskOK(d),
         Stored(rep[id], d), NEW k \in Nat, rep[id].log_start <= k, k <= rep[id].applied,
         NEW nonce, d.recovering => nonce = rep[id].recovery_nonce + 1,
         ~d.recovering => nonce = rep[id].recovery_nonce,
         NEW sm, sm = [i \in 1 .. k |-> rep[id].sm[i]],
         NEW s, s = Restart(id, d, sm, k, nonce)
  PROVE  s.log_start <= k /\ (s.status = "Recovering" => rep[id].status = "Recovering")
<1> DEFINE r == rep[id]
<1>1. Known(w, id, r) /\ HistoryInv(w) /\ CommittedInv(w)
  BY DEF World
<1>2. /\ r.id = id /\ Stands(w, id, r) /\ Whole(r) /\ OrderedLog(Value(r), r.op_number)
  BY <1>1, KnownIs DEF Known
<1>3. r.status = "Recovering" => r.op_number = 0
  BY <1>2 DEF Stands
<1>4. PICK ran : Again(r, ran, d, k) /\ GoesOnAs(d, ran, s)
  BY <1>2, <1>3, RestartIsAgain
<1>5. ran.log_start <= k /\ DOMAIN ran = Fields /\ (~d.recovering => ran.status = "Normal")
  BY <1>4 DEF Again, Runs, ReplicaOK
<1>6. d.recovering => r.status = "Recovering"
  BY DEF Stored
<1>7. CASE d.recovering
  BY <1>4, <1>5, <1>6, <1>7 DEF GoesOnAs
<1>8. CASE ~d.recovering
  <2>1. s = Resumed(ran, d)
    BY <1>4, <1>8 DEF GoesOnAs
  <2>2. s = ran \/ s = StartViewChange(ran, d.view_number)
                \/ s = StartViewChange(ran, d.view_number + 1)
    <3>1. d.last_normal_view < d.view_number \/ ~ (d.last_normal_view < d.view_number)
      OBVIOUS
    <3>2. ~ (d.last_normal_view < d.view_number) \/ ~ (d.last_normal_view >= d.view_number)
      BY DEF DiskOK
    <3> QED
      BY <2>1, <3>1, <3>2, Zenon DEF Resumed
  <2> QED
    BY <1>5, <1>8, <2>2, StartViewChangeStart
<1> QED
  BY <1>7, <1>8

\* A replica crashes and starts again.
LEMMA CrashEnds ==
  ASSUME IInv, SteppingOn = {}, AInv, NEW id \in ReplicaID, Crash(id)
  PROVE  AInv' /\ NoneRecovers
<1> DEFINE w == rep[id].outstanding
<1>1. PICK happened \in BOOLEAN, k \in flushed[id] .. rep[id].applied :
        LET d == IF happened THEN Landed(disk[id], w) ELSE disk[id]
            r == Restart(id, d, [i \in 1 .. k |-> rep[id].sm[i]], k,
                         rep[id].recovery_nonce + IF d.recovering THEN 1 ELSE 0)
        IN  (happened => w.out) /\ LeaveWith(id, r, d, k)
  BY DEF Crash
<1> DEFINE d == disk[id]
           sm == [i \in 1 .. k |-> rep[id].sm[i]]
           nonce == rep[id].recovery_nonce + IF d.recovering THEN 1 ELSE 0
           r == Restart(id, d, sm, k, nonce)
<1>2. ~w.out
  BY StepBegins DEF IInv
<1>3. LeaveWith(id, r, d, k)
  BY <1>1, <1>2
<1>4. ReplicaInv(rep[id], d) /\ flushed[id] \in Nat /\ \A e \in msgs : SentInv(rep[id], d, e[2])
  BY DEF IInv
<1>5. DiskOK(d) /\ rep[id].recovery_nonce \in Nat /\ rep[id].applied \in Nat /\ rep[id].log_start \in Nat
  BY <1>4 DEF ReplicaInv, ReplicaOK, NumbersOK
<1>6. ASSUME NEW e \in msgs, IsPromise(e[2]), Signer(e[2]) = id
      PROVE  KeepsOnDisk(d, e[2])
  BY <1>4, <1>6 DEF SentInv, IInv
<1>7. Stored(rep[id], d) /\ rep[id].log_start <= flushed[id]
  BY DEF AInv
<1>8. k \in Nat /\ rep[id].log_start <= k /\ k <= rep[id].applied
  BY <1>4, <1>5, <1>7
<1>9. /\ nonce \in Nat /\ (d.recovering => nonce = rep[id].recovery_nonce + 1)
      /\ ~d.recovering => nonce = rep[id].recovery_nonce
  BY <1>5
<1>10. PICK v : World(v, rep, msgs, committed)
  BY DEF AInv
<1> HIDE DEF d, nonce
<1>11. sm = [i \in 1 .. k |-> rep[id].sm[i]]
  OBVIOUS
<1> HIDE DEF sm
<1>12. r = Restart(id, d, sm, k, nonce)
  OBVIOUS
<1> HIDE DEF r
<1>13. PICK z : At(z, id, r, Before(d, k, k))
  BY <1>5, <1>7, <1>8, <1>9, <1>10, <1>11, <1>12, RestartMoves
<1>14. r.log_start <= k /\ (r.status = "Recovering" => rep[id].status = "Recovering")
  BY <1>5, <1>7, <1>8, <1>9, <1>10, <1>11, <1>12, RestartStart
<1>15. Rebuilt(id, r, d)
  BY <1>5, <1>8, <1>9, <1>12, RestartRebuilt
<1>16. Owned(id, r, d) /\ ~r.outstanding.out
  BY <1>5, <1>6, <1>15, RebuiltOwned
<1>17. k <= k \/ k <= r.log_start
  BY <1>8
<1>18. AInv' /\ LeftAs(id, r)
  BY <1>3, <1>8, <1>13, <1>14, <1>16, <1>17, StepEnds
<1> QED
  BY <1>14, <1>18 DEF LeftAs, NoneRecovers

\* There are N replicas.
LEMMA FiniteReplicas == IsFiniteSet(ReplicaID) /\ Cardinality(ReplicaID) = N
  BY ConfigAssumption, FS_Interval DEF ReplicaID

\* Too few replicas recover at a time to make a quorum of those that do.
RecInv == Cardinality({q \in ReplicaID : rep[q].status = "Recovering"}) <= (N - 1) \div 2

\* A replica loses its disk.
LEMMA LoseDiskEnds ==
  ASSUME IInv, SteppingOn = {}, AInv, NEW id \in ReplicaID, LoseDisk(id)
  PROVE  AInv' /\ RecInv'
<1> DEFINE d == LostDisk(id)
           view == disk[id].view_number
           nonce == rep[id].recovery_nonce + 1
           r == Recover(id, view, nonce)
<1>1. /\ LeaveWith(id, r, d, 0) /\ MaxLosses # 0 /\ Rebuilt(id, r, d) /\ DiskOK(d)
      /\ \A e \in msgs : IsPromise(e[2]) /\ Signer(e[2]) = id => KeepsOnDisk(d, e[2])
  BY LoseDiskRebuilt
<1>2. /\ view \in Nat /\ nonce \in Nat /\ rep[id].recovery_nonce \in Nat
      /\ rep[id].recovery_nonce < nonce
  BY DEF IInv, ReplicaInv, ReplicaOK, NumbersOK, DiskOK
<1>3. rep[id].view_number <= view
  BY <1>2 DEF AInv, Stored
<1>4. /\ d.log_start = 0 /\ d.op_number = 0 /\ d.commit_number = 0
  BY DEF LostDisk, EmptyState
<1>5. PICK w : World(w, rep, msgs, committed)
  BY DEF AInv
<1> HIDE DEF view, nonce, d
<1>6. r = Recover(id, view, nonce)
  OBVIOUS
<1> HIDE DEF r
<1>7. /\ DOMAIN r = Fields /\ Fresh(r) /\ r.id = id /\ r.ok /\ r.replies = {}
      /\ r.status = "Recovering" /\ r.view_number = view /\ r.recovery_nonce = nonce
      /\ r.op_number = 0 /\ r.commit_number = 0 /\ r.applied = 0 /\ r.log_start = 0
      /\ r.log_changed_from = 0 /\ ~r.written.is
  BY <1>2, <1>6, RecoverIsFresh
<1>8. Ready(r)
  BY <1>1, <1>2, <1>6, RecoverIs
<1>9. Sound(r)
  BY <1>7 DEF Sound, Fresh
<1> DEFINE e == Before(d, 0, 0)
<1>10. /\ e.op_number = 0 /\ e.log_start = 0 /\ e.commit_number = 0 /\ e.flushed = 0
       /\ e.applied = 0
  BY <1>4 DEF Before
<1> HIDE DEF e
<1>11. Marked(r, e)
  BY <1>7, <1>10 DEF Marked, Higher
<1>12. PICK z : At(z, id, r, e)
  BY <1>2, <1>3, <1>5, <1>7, <1>8, <1>9, <1>11, RecoversAgain
<1>13. Owned(id, r, d) /\ ~r.outstanding.out
  BY <1>1, RebuiltOwned
<1>14. r.log_start <= 0 /\ (0 <= 0 \/ 0 <= r.log_start) /\ 0 \in Nat
  BY <1>7
<1>15. AInv' /\ LeftAs(id, r)
  BY <1>1, <1>12, <1>13, <1>14, StepEnds DEF e
<1>16. RecInv'
  <2> DEFINE S == {q \in ReplicaID : rep[q].status = "Recovering"}
             T == {q \in ReplicaID : rep'[q].status = "Recovering"}
             f == (N - 1) \div 2
  <2>1. {q \in ReplicaID : rep[q].status = "Recovering" \/ disk[q].recovering} = S
    BY DEF AInv, Stored
  <2>2. Cardinality(S) < f
    BY <2>1 DEF LoseDisk
  <2>3. f \in Int
    BY ConfigAssumption
  <2>4. T \subseteq S \union {id}
    BY <1>15 DEF LeftAs
  <2>5. IsFiniteSet(S)
    BY FiniteReplicas, FS_Subset
  <2> HIDE DEF S, T, f
  <2>6. /\ IsFiniteSet(S \union {id}) /\ Cardinality(S) \in Nat
        /\ Cardinality(S \union {id}) <= Cardinality(S) + 1
    BY <2>5, FS_AddElement, FS_CardinalityType
  <2>7. IsFiniteSet(T) /\ Cardinality(T) <= Cardinality(S \union {id})
    BY <2>4, <2>6, FS_Subset
  <2>8. Cardinality(T) \in Nat /\ Cardinality(S \union {id}) \in Nat
    BY <2>6, <2>7, FS_CardinalityType
  <2>9. Cardinality(T) <= f
    BY <2>2, <2>3, <2>6, <2>7, <2>8
  <2> QED
    BY <2>9 DEF RecInv, T, f
<1> QED
  BY <1>15, <1>16

\* Steps that lose no disk leave no more replicas recovering.
LEMMA NoneRecoversRec ==
  ASSUME RecInv, NoneRecovers
  PROVE  RecInv'
<1> DEFINE S == {q \in ReplicaID : rep[q].status = "Recovering"}
           T == {q \in ReplicaID : rep'[q].status = "Recovering"}
           f == (N - 1) \div 2
<1>1. T \subseteq S
  BY DEF NoneRecovers
<1>2. IsFiniteSet(S)
  BY FiniteReplicas, FS_Subset
<1>3. f \in Int /\ Cardinality(S) <= f
  BY ConfigAssumption DEF RecInv
<1> HIDE DEF S, T, f
<1>4. IsFiniteSet(T) /\ Cardinality(T) <= Cardinality(S)
  BY <1>1, <1>2, FS_Subset
<1>5. Cardinality(T) \in Nat /\ Cardinality(S) \in Nat
  BY <1>2, <1>4, FS_CardinalityType
<1>6. Cardinality(T) <= f
  BY <1>3, <1>4, <1>5
<1> QED
  BY <1>6 DEF RecInv, T, f

\* An empty log is in order.
LEMMA OrderedEmpty ==
  ASSUME NEW g, g = [i \in 1 .. 0 |-> g[i]]
  PROVE  OrderedLog(g, 0)
<1>1. g \in [1 .. 0 -> Entries]
  OBVIOUS
<1> QED
  BY <1>1 DEF OrderedLog

\* The history before anything happened: view 0 has started, with an empty log.
Beginning ==
  [started |-> {0}, log |-> [v \in Nat |-> [i \in 1 .. 0 |-> 0]], len |-> [v \in Nat |-> 0],
   base |-> [v \in Nat |-> 0], ack |-> [v \in Nat |-> [q \in ReplicaID |-> 0]],
   view |-> [q \in ReplicaID |-> 0], rep |-> rep, known |-> 0,
   committed |-> [i \in 1 .. 0 |-> 0]]

\* A new replica is in it.
LEMMA NewIsKnown ==
  ASSUME NEW w, HistoryTyped(w), 0 \in w.started, w.len[0] = 0, w.base[0] = 0,
         \A v \in Nat : \A q \in ReplicaID : w.ack[v][q] = 0, \A q \in ReplicaID : w.view[q] = 0,
         w.known = 0, NEW id \in ReplicaID
  PROVE  Known(w, id, New(id))
<1> DEFINE r == New(id)
<1>1. /\ DOMAIN r = Fields /\ r.id = id /\ r.ok /\ r.replies = {} /\ r.status = "Normal"
      /\ r.do_view_change_from = {} /\ r.catching_up = Nobody /\ r.fetch = NoFetch
      /\ r.recovery_responses = {} /\ r.serving = Nobody /\ r.acked = [q \in ReplicaID |-> 0]
      /\ r.early = {} /\ r.outbox = {} /\ r.outbox_waiting = {} /\ r.outbox_ready = {}
      /\ r.op_number = 0 /\ r.commit_number = 0 /\ r.applied = 0 /\ r.log_start = 0
      /\ r.log_changed_from = 0 /\ ~r.written.is
  BY NewIsFresh
<1>2. Ready(r) /\ r.view_number = 0 /\ r.last_normal_view = 0
  BY NewIs
<1> HIDE DEF r
<1>3. Sound(r)
  BY <1>1 DEF Sound
<1>4. Fresh(r)
  BY <1>1 DEF Fresh
<1>5. ReceivedInv(w, id, r)
  BY <1>4, FreshReceived
<1>6. Out(r) = {}
  BY <1>1 DEF Out
<1>7. OrderedLog(Value(r), 0)
  <2>1. Value(r) = [i \in 1 .. 0 |-> Value(r)[i]]
    BY <1>1 DEF Value
  <2> QED
    BY <2>1, OrderedEmpty
<1>8. w.ack[0][id] = 0 /\ w.view[id] = 0
  OBVIOUS
<1>9. InView(w, id, r)
  <2>1. \A x \in ReplicaID : r.acked[x] <= w.ack[0][x]
    BY <1>1
  <2>2. Leads(w, r)
    BY <1>1, <1>2, <1>7, <2>1 DEF Leads
  <2>3. Member(w, 0, Value(r), 0)
    BY DEF Member
  <2> QED
    BY <1>1, <1>2, <1>8, <2>2, <2>3 DEF InView
<1>10. Stands(w, id, r)
  BY <1>1, <1>2, <1>9 DEF Stands
<1>11. Rests(w, id, r)
  BY <1>1, <1>2, <1>8, <1>10 DEF Rests
<1>12. Known(w, id, r)
  BY <1>1, <1>2, <1>3, <1>5, <1>6, <1>8, <1>11 DEF Known
<1> QED
  BY <1>12 DEF r

\* The invariant holds at first,
LEMMA InitAInv ==
  ASSUME Init
  PROVE  AInv /\ RecInv
<1> DEFINE w == Beginning
<1>1. /\ w.started = {0} /\ w.known = 0 /\ w.rep = rep /\ w.committed = [i \in 1 .. 0 |-> 0]
      /\ w.log = [v \in Nat |-> [i \in 1 .. 0 |-> 0]]
      /\ w.len = [v \in Nat |-> 0] /\ w.base = [v \in Nat |-> 0]
      /\ w.ack = [v \in Nat |-> [q \in ReplicaID |-> 0]] /\ w.view = [q \in ReplicaID |-> 0]
  BY DEF Beginning
<1> HIDE DEF w
<1>2. HistoryTyped(w)
  BY <1>1 DEF HistoryTyped
<1>3. /\ \A v \in Nat : w.len[v] = 0 /\ w.base[v] = 0 /\ w.log[v] = [i \in 1 .. 0 |-> 0]
      /\ \A v \in Nat : \A q \in ReplicaID : w.ack[v][q] = 0
      /\ \A q \in ReplicaID : w.view[q] = 0
  BY <1>1
<1>4. OrderedLog(w.log[0], 0)
  <2>1. w.log[0] = [i \in 1 .. 0 |-> w.log[0][i]]
    BY <1>3
  <2> QED
    BY <2>1, OrderedEmpty
<1>5. PrimaryOf(0) \in ReplicaID
  BY ConfigAssumption DEF PrimaryOf, ReplicaID
<1>6. Safe(w, 0, w.log[0], 0)
  BY DEF Safe
<1>7. HistoryInv(w)
  <2>1. \A v \in w.started : v = 0
    BY <1>1
  <2>2. \A v \in w.started :
          /\ w.base[v] <= w.len[v] /\ Safe(w, v, w.log[v], w.base[v])
          /\ OrderedLog(w.log[v], w.len[v])
          /\ w.view[PrimaryOf(v)] >= v
    BY <1>3, <1>4, <1>5, <1>6, <2>1
  <2> QED
    BY <1>1, <1>2, <1>3, <2>2 DEF HistoryInv
<1>8. CommittedInv(w)
  BY <1>1 DEF CommittedInv
<1>9. Agreed(w, committed)
  <2>1. DOMAIN committed = 1 .. 0
    BY DEF Init, NoEntries
  <2> QED
    BY <2>1 DEF Agreed
<1>10. /\ DOMAIN rep = ReplicaID /\ rep = [q \in ReplicaID |-> rep[q]]
       /\ \A q \in ReplicaID : rep[q] = New(q) /\ disk[q] = EmptyState /\ flushed[q] = 0
       /\ msgs = {} /\ replies = {} /\ committed = NoEntries
  BY DEF Init
<1>11. \A x \in ReplicaID : Known(w, x, rep[x])
  BY SMTT(30), <1>1, <1>2, <1>3, <1>10, NewIsKnown
<1>12. World(w, rep, msgs, committed)
  BY <1>1, <1>7, <1>8, <1>9, <1>10, <1>11 DEF World
<1>13. ASSUME NEW q \in ReplicaID
       PROVE  /\ Stored(rep[q], disk[q])
              /\ rep[q].log_start <= flushed[q] /\ flushed[q] <= rep[q].applied
              /\ rep[q].commit_number <= Cardinality(DOMAIN committed)
              /\ rep[q].status # "Recovering"
  <2> DEFINE r == New(q)
  <2>1. /\ r.status = "Normal" /\ r.op_number = 0 /\ r.commit_number = 0 /\ r.applied = 0
        /\ r.log_start = 0 /\ r.log_changed_from = 0 /\ ~r.written.is
    BY NewIsFresh
  <2>2. r.view_number = 0 /\ r.last_normal_view = 0
    BY NewIs
  <2> HIDE DEF r
  <2>3. Cardinality(DOMAIN committed) = 0
    <3>1. DOMAIN committed = {}
      BY <1>10 DEF NoEntries
    <3> QED
      BY <3>1, FS_EmptySet
  <2>4. Stored(r, EmptyState)
    BY <2>1, <2>2 DEF Stored, EmptyState
  <2> QED
    BY <1>10, <2>1, <2>3, <2>4 DEF r
<1>14. AInv
  BY <1>10, <1>12, <1>13 DEF AInv
<1>15. RecInv
  <2>1. {q \in ReplicaID : rep[q].status = "Recovering"} = {}
    BY <1>13
  <2>2. 0 <= (N - 1) \div 2
    BY ConfigAssumption
  <2> QED
    BY <2>1, <2>2, FS_EmptySet DEF RecInv
<1> QED
  BY <1>14, <1>15

\* and every step keeps it.
LEMMA NextAInv ==
  ASSUME IInv, SteppingOn = {}, AInv, RecInv, [Next]_vars
  PROVE  AInv' /\ RecInv'
<1>1. CASE \E e \in msgs : OnMessage(e[1], e[2])
  BY <1>1, OnMessageEnds, NoneRecoversRec
<1>2. CASE Drop
  <2>1. msgs' \subseteq msgs /\ UNCHANGED <<rep, disk, flushed, replies, committed>>
    BY <1>2 DEF Drop
  <2> QED
    BY <2>1, StillEnds, NoneRecoversRec
<1>3. ASSUME NEW id \in ReplicaID, NEW c \in Client,
             Register(id, c) \/ ClientRequest(id, c) \/ ClientQuery(id, c)
      PROVE  AInv' /\ RecInv'
  BY <1>3, RegisterEnds, RequestEnds, QueryEnds, NoneRecoversRec
<1>4. ASSUME NEW id \in ReplicaID, Idle(id) \/ TimeOut(id)
      PROVE  AInv' /\ RecInv'
  BY <1>4, IdleEnds, NoneRecoversRec DEF Idle, TimeOut
<1>5. ASSUME NEW id \in ReplicaID,
             \/ OwnerDrains(id) \/ OwnerTakesWrite(id) \/ OwnerHandsBack(id)
             \/ OwnerFlushes(id) \/ OwnerCompacts(id)
      PROVE  AInv' /\ RecInv'
  BY <1>5, OwnerEnds, NoneRecoversRec
<1>6. ASSUME NEW id \in ReplicaID, Crash(id) PROVE AInv' /\ RecInv'
  BY <1>6, CrashEnds, NoneRecoversRec
<1>7. ASSUME NEW id \in ReplicaID, LoseDisk(id) PROVE AInv' /\ RecInv'
  BY <1>7, LoseDiskEnds
<1>8. CASE UNCHANGED vars
  <2>1. msgs' \subseteq msgs /\ UNCHANGED <<rep, disk, flushed, replies, committed>>
    BY <1>8 DEF vars
  <2> QED
    BY <2>1, StillEnds, NoneRecoversRec
<1> QED
  BY <1>1, <1>2, <1>3, <1>4, <1>5, <1>6, <1>7, <1>8 DEF Next

\* Whatever the network, the timers, crashes and lost disks do, the cluster has a
\* history that all its replicas, disks and messages are part of, if every owner
\* persists a step before the next, as Replica::persist does.
THEOREM HistoryHolds ==
  ASSUME SteppingOn = {}
  PROVE  Spec => [](AInv /\ RecInv)
<1>1. Init => IInv /\ AInv /\ RecInv
  BY InitIInv, InitAInv
<1>2. IInv /\ AInv /\ RecInv /\ [Next]_vars => (IInv /\ AInv /\ RecInv)'
  BY NextIInv, NextAInv
<1> QED
  BY <1>1, <1>2, PTL DEF Spec

\* Between steps, a replica in its view has the log of the view.
LEMMA InViewLog ==
  ASSUME NEW w, HistoryInv(w), NEW q \in ReplicaID, NEW r, Known(w, q, r),
         r.status # "Recovering", r.last_normal_view = r.view_number
  PROVE  LET v == r.view_number IN
         /\ v \in w.started /\ v \in Nat /\ w.ack[v][q] = r.op_number
         /\ w.base[v] <= r.op_number /\ r.op_number <= w.len[v]
         /\ IsPrimary(r) => w.len[v] = r.op_number
         /\ \A i \in 1 .. r.op_number : EntryAt(r, i) = w.log[v][i]
<1> DEFINE v == r.view_number
           n == r.op_number
<1>1. Rests(w, q, r) /\ v \in Nat /\ n \in Nat
  BY DEF Known, Ready, ReplicaOK, NumbersOK
<1>2. w.ack[v][q] = n /\ InView(w, q, r)
  BY <1>1 DEF Rests, Stands
<1>3. CASE IsPrimary(r)
  <2>1. v \in w.started /\ w.len[v] = n /\ Leads(w, r)
    BY <1>1, <1>2, <1>3 DEF Rests, InView
  <2>2. \A i \in 1 .. n : EntryAt(r, i) = w.log[v][i]
    BY <2>1 DEF Leads
  <2>3. w.base[v] <= w.len[v]
    BY <2>1 DEF HistoryInv
  <2> QED
    BY <1>1, <1>2, <2>1, <2>2, <2>3
<1>4. CASE ~IsPrimary(r)
  <2>1. Member(w, v, Value(r), n)
    BY <1>2, <1>4 DEF InView
  <2>2. \A i \in 1 .. n : Value(r)[i] = EntryAt(r, i)
    BY DEF Value
  <2> QED
    BY <1>1, <1>2, <1>4, <2>1, <2>2 DEF Member
<1> QED
  BY <1>3, <1>4

\* What was chosen is with all of the replicas that took part, but those that
\* lost their disks.
LEMMA ChosenHeld ==
  ASSUME NEW w, HistoryInv(w), NEW q \in ReplicaID, NEW r, Known(w, q, r),
         r.status # "Recovering", NEW c \in Nat, NEW i, Chosen(w, c, i), w.ack[c][q] >= i
  PROVE  c <= r.last_normal_view /\ i \in 1 .. r.op_number /\ EntryAt(r, i) = w.log[c][i]
<1> DEFINE l == r.last_normal_view
           v == r.view_number
           n == r.op_number
<1>1. HistoryTyped(w)
  BY DEF HistoryInv
<1>2. c \in w.started /\ i \in Nat \ {0} /\ i \in 1 .. w.len[c]
  BY ChosenStarted
<1>3. w.ack[c][q] \in Nat
  BY <1>1, HistoryNumbers
<1>4. Stands(w, q, r) /\ l \in Nat /\ v \in Nat /\ n \in Nat /\ l <= v
  BY DEF Known, Rests, Ready, ReplicaOK, NumbersOK
<1>5. w.ack[c][q] > 0
  BY <1>2, <1>3
<1>6. c <= l
  BY <1>4, <1>5 DEF Stands
<1>7. CASE l = v
  <2>1. /\ v \in w.started /\ w.ack[v][q] = n /\ w.base[v] <= n /\ n <= w.len[v]
        /\ \A j \in 1 .. n : EntryAt(r, j) = w.log[v][j]
    BY <1>7, InViewLog
  <2>2. CASE c = v
    <3>1. i \in 1 .. n
      BY <1>2, <1>3, <1>4, <2>1, <2>2
    <3> QED
      BY <1>6, <2>1, <2>2, <3>1
  <2>3. CASE c # v
    <3>1. c < v
      BY <1>4, <1>6, <1>7, <2>3
    <3>2. i \in 1 .. w.base[v] /\ w.log[v][i] = w.log[c][i] /\ w.base[v] \in Nat
      BY <1>1, <1>2, <1>4, <2>1, <3>1, ChosenInView, HistoryNumbers
    <3>3. i \in 1 .. n
      BY <1>4, <2>1, <3>2
    <3> QED
      BY <1>6, <2>1, <3>2, <3>3
  <2> QED
    BY <2>2, <2>3
<1>8. CASE l < v
  <2>1. Safe(w, l, Value(r), n) /\ Own(w, q, l, Value(r), n)
    BY <1>4, <1>8 DEF Stands, Left, Carried
  <2>2. ~Blocked(w, c, i)
    BY <1>1, <1>2, ChosenNotBlocked
  <2>3. Holds(w, c, i, Value(r), n)
    <3>1. CASE c = l
      BY <1>2, <2>1, <2>2, <3>1 DEF Own
    <3>2. CASE c # l
      <4>1. c \in 0 .. l - 1
        BY <1>4, <1>6, <3>2
      <4> QED
        BY <1>2, <2>1, <2>2, <4>1 DEF Safe
    <3> QED
      BY <3>1, <3>2
  <2>4. i \in 1 .. n /\ Value(r)[i] = w.log[c][i]
    BY <1>2, <1>4, <2>3 DEF Holds
  <2>5. Value(r)[i] = EntryAt(r, i)
    BY <2>4 DEF Value
  <2> QED
    BY <1>6, <2>4, <2>5
<1>9. l = v \/ l < v
  BY <1>4
<1> QED
  BY <1>7, <1>8, <1>9

\* Some quorum chose each of the committed ops.
LEMMA CommittedChosen ==
  ASSUME NEW w, Agreed(w, committed), NEW i \in DOMAIN committed
  PROVE  \E c \in Nat : /\ Chosen(w, c, i) /\ w.log[c][i] = committed[i]
                        /\ \E D \in Quorums : \A q \in D : w.ack[c][q] >= i
<1>1. PICK v \in Nat : Decided(w, v, i, committed[i])
  BY DEF Agreed
<1>2. PICK c \in 0 .. v : Chosen(w, c, i) /\ w.log[c][i] = committed[i]
  BY <1>1 DEF Decided
<1>3. \E D \in Quorums : \A q \in D : w.ack[c][q] >= i
  BY <1>2 DEF Chosen
<1>4. c \in Nat
  BY <1>1, <1>2
<1> QED
  BY <1>2, <1>3, <1>4

\* No replica of a history panicked.
LEMMA NobodyPanics ==
  ASSUME AInv
  PROVE  NoPanic
<1>1. PICK w : World(w, rep, msgs, committed)
  BY DEF AInv
<1> QED
  BY <1>1 DEF World, Known, NoPanic

\* What replicas committed was decided, and so was what the history records.
LEMMA AllAgree ==
  ASSUME AInv
  PROVE  Agreement
<1> SUFFICES ASSUME NEW id \in ReplicaID, NEW i \in 1 .. rep[id].commit_number
             PROVE  i \in DOMAIN committed /\ EntryAt(rep[id], i) = committed[i]
  BY DEF Agreement
<1> DEFINE r == rep[id]
<1>1. PICK w : World(w, rep, msgs, committed)
  BY DEF AInv
<1>2. HistoryInv(w) /\ Agreed(w, committed) /\ Known(w, id, r)
  BY <1>1 DEF World
<1>3. PICK k \in Nat : /\ DOMAIN committed = 1 .. k
                       /\ \A j \in 1 .. k : \E v \in Nat : Decided(w, v, j, committed[j])
  BY <1>2 DEF Agreed
<1>4. Cardinality(DOMAIN committed) = k
  BY <1>3, CommittedMany
<1>5. r.commit_number <= k /\ r.commit_number \in Nat /\ r.view_number \in Nat
  BY <1>2, <1>4 DEF AInv, Known, Ready, ReplicaOK, NumbersOK
<1>6. i \in 1 .. k
  BY <1>3, <1>5
<1>7. Decided(w, r.view_number, i, EntryAt(r, i))
  BY <1>2 DEF Known, Rests, Stands
<1>8. PICK v \in Nat : Decided(w, v, i, committed[i])
  BY <1>3, <1>6
<1> QED
  BY <1>2, <1>3, <1>5, <1>6, <1>7, <1>8, DecidedOnce

\* Replicas in a view hold the log of the view.
LEMMA ViewsHaveOneLog ==
  ASSUME AInv
  PROVE  OneLogPerView
<1>1. PICK w : World(w, rep, msgs, committed)
  BY DEF AInv
<1>2. HistoryInv(w) /\ CommittedInv(w)
  BY <1>1 DEF World
<1>3. ASSUME NEW q \in ReplicaID, rep[q].status \in {"Normal", "StateTransfer"},
             NEW i, i \in rep[q].log_start + 1 .. rep[q].op_number
      PROVE  rep[q].log[i] = w.log[rep[q].view_number][i]
  <2> DEFINE r == rep[q]
  <2>1. Known(w, q, r)
    BY <1>1 DEF World
  <2>2. r.last_normal_view = r.view_number /\ r.op_number \in Nat /\ r.log_start \in Nat
    BY <1>3, <2>1 DEF Known, Ready, Placed, ReplicaOK, NumbersOK
  <2>3. r.log[i] = EntryAt(r, i)
    BY <1>2, <1>3, <2>1, KnownIs
  <2>4. i \in 1 .. r.op_number
    BY <1>3, <2>2
  <2>5. EntryAt(r, i) = w.log[r.view_number][i]
    BY <1>2, <1>3, <2>1, <2>2, <2>4, InViewLog
  <2> QED
    BY <2>3, <2>5
<1> SUFFICES ASSUME NEW p \in ReplicaID, NEW q \in ReplicaID,
                    rep[p].status \in {"Normal", "StateTransfer"},
                    rep[q].status \in {"Normal", "StateTransfer"},
                    rep[p].view_number = rep[q].view_number,
                    NEW i \in Higher(rep[p].log_start, rep[q].log_start) + 1
                              .. Lower(rep[p].op_number, rep[q].op_number)
             PROVE  rep[p].log[i] = rep[q].log[i]
  BY DEF OneLogPerView
<1>4. /\ rep[p].log_start \in Nat /\ rep[p].op_number \in Nat
      /\ rep[q].log_start \in Nat /\ rep[q].op_number \in Nat
  BY <1>1 DEF World, Known, Ready, ReplicaOK, NumbersOK
<1>5. /\ i \in rep[p].log_start + 1 .. rep[p].op_number
      /\ i \in rep[q].log_start + 1 .. rep[q].op_number
  BY <1>4 DEF Higher, Lower
<1> QED
  BY <1>3, <1>5

\* A quorum is not all recovering.
LEMMA QuorumAble ==
  ASSUME RecInv, NEW D \in Quorums
  PROVE  \E q \in D : q \in ReplicaID /\ rep[q].status # "Recovering"
<1> DEFINE S == {q \in ReplicaID : rep[q].status = "Recovering"}
<1>1. D \in SUBSET ReplicaID /\ Cardinality(D) >= Quorum
  BY DEF Quorums
<1>2. IsFiniteSet(S) /\ IsFiniteSet(D)
  BY <1>1, FiniteReplicas, FS_Subset
<1>3. Cardinality(S) \in Nat /\ Cardinality(D) \in Nat
  BY <1>2, FS_CardinalityType
<1>4. Cardinality(S) <= (N - 1) \div 2
  BY DEF RecInv
<1>5. (N - 1) \div 2 < Quorum /\ (N - 1) \div 2 \in Int /\ Quorum \in Int
  BY ConfigAssumption DEF Quorum
<1> SUFFICES ASSUME D \subseteq S PROVE FALSE
  BY <1>1
<1> HIDE DEF S, Quorum
<1>6. Cardinality(D) <= Cardinality(S)
  BY <1>2, FS_Subset
<1> QED
  BY <1>1, <1>3, <1>4, <1>5, <1>6

\* A quorum chose each committed op; one of it is not recovering, and so knows of no
\* view later than that of the primary.
LEMMA PrimariesHold ==
  ASSUME AInv, RecInv
  PROVE  PrimaryHoldsCommitted
<1> SUFFICES ASSUME NEW id \in ReplicaID, Serves(rep[id]),
                    \A q \in ReplicaID : rep[q].last_normal_view <= rep[id].view_number,
                    NEW i \in DOMAIN committed
             PROVE  i <= rep[id].op_number /\ EntryAt(rep[id], i) = committed[i]
  BY DEF PrimaryHoldsCommitted
<1> DEFINE r == rep[id]
           v == r.view_number
<1>1. PICK w : World(w, rep, msgs, committed)
  BY DEF AInv
<1>2. /\ HistoryInv(w) /\ Agreed(w, committed) /\ Known(w, id, r) /\ Ready(r) /\ v \in Nat
      /\ r.op_number \in Nat
  BY <1>1 DEF World, Known, Ready, ReplicaOK, NumbersOK
<1>3. PICK c \in Nat : /\ Chosen(w, c, i) /\ w.log[c][i] = committed[i]
                       /\ \E D \in Quorums : \A q \in D : w.ack[c][q] >= i
  BY <1>2, CommittedChosen
<1>4. PICK D \in Quorums : \A q \in D : w.ack[c][q] >= i
  BY <1>3
<1>5. PICK q \in D : q \in ReplicaID /\ rep[q].status # "Recovering"
  BY QuorumAble
<1>6. Known(w, q, rep[q]) /\ rep[q].last_normal_view \in Nat
  BY <1>1, <1>5 DEF World, Known, Ready, ReplicaOK, NumbersOK
<1>7. c <= rep[q].last_normal_view
  BY <1>2, <1>3, <1>4, <1>5, <1>6, ChosenHeld
<1>8. c \in 0 .. v
  <2>1. rep[q].last_normal_view <= v
    BY <1>5
  <2> QED
    BY <1>2, <1>6, <1>7, <2>1
<1>9. Decided(w, v, i, committed[i])
  BY <1>3, <1>8 DEF Decided
<1>10. IsPrimary(r) /\ r.status # "Recovering" /\ r.last_normal_view = v
  BY <1>2, ServesIs DEF InItsView
<1>11. /\ v \in w.started /\ w.len[v] = r.op_number
       /\ \A j \in 1 .. r.op_number : EntryAt(r, j) = w.log[v][j]
  BY <1>2, <1>10, InViewLog
<1>12. i \in 1 .. w.len[v] /\ w.log[v][i] = committed[i]
  BY <1>2, <1>9, <1>11, DecidedInView
<1> QED
  BY <1>2, <1>11, <1>12

\* A quorum and some replicas have most of those in common.
LEMMA QuorumPart ==
  ASSUME NEW D \in Quorums, NEW A \in SUBSET ReplicaID, NEW H, D \cap A \subseteq H, H \subseteq A
  PROVE  Cardinality(H) >= Cardinality(A) + 1 - Quorum
<1>1. D \in SUBSET ReplicaID /\ Cardinality(D) >= Quorum
  BY DEF Quorums
<1>2. /\ IsFiniteSet(D) /\ IsFiniteSet(A) /\ IsFiniteSet(H)
  BY <1>1, FiniteReplicas, FS_Subset
<1>3. /\ IsFiniteSet(D \cup A) /\ IsFiniteSet(D \cap A)
      /\ Cardinality(D \cup A) = Cardinality(D) + Cardinality(A) - Cardinality(D \cap A)
  BY <1>2, FS_Union, FS_Intersection
<1>4. Cardinality(D \cup A) <= N
  <2>1. D \cup A \in SUBSET ReplicaID
    BY <1>1
  <2> QED
    BY <2>1, FiniteReplicas, FS_Subset
<1>5. Cardinality(D \cap A) <= Cardinality(H)
  BY <1>2, FS_Subset
<1>6. /\ Cardinality(D) \in Nat /\ Cardinality(A) \in Nat /\ Cardinality(H) \in Nat
      /\ Cardinality(D \cap A) \in Nat /\ Cardinality(D \cup A) \in Nat
  BY <1>2, <1>3, FS_CardinalityType
<1>7. Quorum + Quorum >= N + 1 /\ Quorum \in Int /\ N \in Nat
  BY ConfigAssumption DEF Quorum
<1> HIDE DEF Quorum
<1> QED
  BY <1>1, <1>3, <1>4, <1>5, <1>6, <1>7

\* A quorum chose each committed op; those of it that are not recovering have it on
\* their disks.
LEMMA CommittedDurable ==
  ASSUME IInv, AInv
  PROVE  Durability
<1> DEFINE able == {id \in ReplicaID : ~disk[id].recovering}
           holds(id, i) == \/ i <= flushed[id]
                           \/ /\ i \in disk[id].log_start + 1 .. disk[id].op_number
                              /\ disk[id].log[i] = committed[i]
<1> SUFFICES ASSUME NEW i \in DOMAIN committed
             PROVE  Cardinality({id \in able : holds(id, i)}) >= Cardinality(able) + 1 - Quorum
  BY DEF Durability
<1>1. PICK w : World(w, rep, msgs, committed)
  BY DEF AInv
<1>2. HistoryInv(w) /\ CommittedInv(w) /\ Agreed(w, committed)
  BY <1>1 DEF World
<1>3. PICK c \in Nat : /\ Chosen(w, c, i) /\ w.log[c][i] = committed[i]
                       /\ \E D \in Quorums : \A q \in D : w.ack[c][q] >= i
  BY <1>2, CommittedChosen
<1>4. PICK D \in Quorums : \A q \in D : w.ack[c][q] >= i
  BY <1>3
<1>5. ASSUME NEW q \in D \cap able PROVE holds(q, i)
  <2> DEFINE r == rep[q]
  <2>1. Known(w, q, r) /\ Stored(r, disk[q]) /\ r.log_start <= flushed[q] /\ flushed[q] \in Nat
    BY <1>1, <1>5 DEF World, AInv, IInv
  <2>2. r.status # "Recovering" /\ r.log_start \in Nat /\ r.op_number \in Nat
    BY <1>5, <2>1 DEF Stored, Known, Ready, ReplicaOK, NumbersOK
  <2>3. i \in 1 .. r.op_number /\ EntryAt(r, i) = committed[i]
    BY <1>2, <1>3, <1>4, <1>5, <2>1, <2>2, ChosenHeld
  <2>4. CASE i <= r.log_start
    BY <2>1, <2>2, <2>3, <2>4
  <2>5. CASE i \in r.log_start + 1 .. r.op_number
    <3>1. r.log[i] = EntryAt(r, i)
      BY <1>2, <2>1, <2>5, KnownIs
    <3>2. /\ disk[q].log[i] = r.log[i] /\ disk[q].log_start = r.log_start
          /\ disk[q].op_number = r.op_number
      BY <2>1, <2>5 DEF Stored
    <3> QED
      BY <2>3, <2>5, <3>1, <3>2
  <2>6. i <= r.log_start \/ i \in r.log_start + 1 .. r.op_number
    BY <2>2, <2>3
  <2> QED
    BY <2>4, <2>5, <2>6
<1> DEFINE H == {id \in able : holds(id, i)}
<1>6. D \cap able \subseteq H /\ H \subseteq able /\ able \in SUBSET ReplicaID
  BY <1>5
<1> HIDE DEF H, able
<1>7. Cardinality(H) >= Cardinality(able) + 1 - Quorum
  BY <1>6, QuorumPart
<1> QED
  BY <1>7 DEF H

-----------------------------------------------------------------------------
(* The properties, if every owner persists a step before the next          *)

\* No assert, unwrap or index of take_write, apply, merge_log,
\* restore_checkpoint, keep_checkpoint, execute and restart fails, and no
\* unreachable arm is reached.
THEOREM NeverPanics ==
  ASSUME SteppingOn = {}
  PROVE  Spec => []NoPanic
<1>1. AInv /\ RecInv => NoPanic
  BY NobodyPanics
<1> QED
  BY <1>1, HistoryHolds, PTL

\* Replicas commit the same entries, whatever views, crashes, lost disks, state
\* transfers and checkpoints brought them there.
THEOREM ReplicasAgree ==
  ASSUME SteppingOn = {}
  PROVE  Spec => []Agreement
<1>1. AInv /\ RecInv => Agreement
  BY AllAgree
<1> QED
  BY <1>1, HistoryHolds, PTL

\* Replicas that are normal in the same view hold the same entries, wherever both
\* logs reach: on_prepare, on_start_view and state transfer fill in one log.
THEOREM ViewHasOneLog ==
  ASSUME SteppingOn = {}
  PROVE  Spec => []OneLogPerView
<1>1. AInv /\ RecInv => OneLogPerView
  BY ViewsHaveOneLog
<1> QED
  BY <1>1, HistoryHolds, PTL

\* try_start_view starts a view with every committed op: the primary of the latest
\* view that is normal anywhere holds them all.
THEOREM LatestPrimaryHolds ==
  ASSUME SteppingOn = {}
  PROVE  Spec => []PrimaryHoldsCommitted
<1>1. AInv /\ RecInv => PrimaryHoldsCommitted
  BY PrimariesHold
<1> QED
  BY <1>1, HistoryHolds, PTL

\* A committed op is on so many disks that every quorum of the replicas that are
\* not recovering includes one: commit_up_to commits nothing that crashes and lost
\* disks could take back.
THEOREM CommittedIsDurable ==
  ASSUME SteppingOn = {}
  PROVE  Spec => []Durability
<1>1. IInv /\ (AInv /\ RecInv) => Durability
  BY CommittedDurable
<1> QED
  BY <1>1, HistoryHolds, InvariantHolds, PTL

=============================================================================
