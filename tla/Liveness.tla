------------------------------ MODULE Liveness ------------------------------
(***************************************************************************)
(* What a cluster whose network is fair in the end must do.  A message is  *)
(* lost for good only MaxDrops times; after that a message a replica keeps *)
(* sending arrives, and idle periods keep coming.  Timeouts are not fair:  *)
(* no progress here rests on another view change.                          *)
(*                                                                         *)
(* The fairness is the weakest that says so: the cluster does not stand    *)
(* still for ever while a message in flight, or an idle period, would      *)
(* change something.  Which of them comes next is nobody's promise.        *)
(***************************************************************************)
EXTENDS Cluster

\* Some delivery would change the state.
Deliverable ==
  \E e \in msgs :
    rep[e[1]].ok /\ \E r \in Handled(rep[e[1]], e[2]) : Matters(e[1], r)

\* Some idle period of the replica would change the state.
Stirs(id) ==
  LET r == rep[id] IN
  /\ id \in Idlers /\ r.ok
  /\ \E stall, release \in BOOLEAN, due \in {0} \union r.commit_number + 1 .. r.op_number :
       /\ stall => Fetching(r)
       /\ release => r.serving # Nobody
       /\ due # 0 => Serves(r)
       /\ Matters(id, OnIdle(r, FALSE, stall, release, due))

Quiet == ~Deliverable /\ \A id \in ReplicaID : ~Stirs(id)

\* The cluster does not stop while it is not quiet.
FairSpec == Spec /\ ([]<>Quiet \/ []<><<TRUE>>_vars)

-----------------------------------------------------------------------------

\* What committed executes on every replica, though messages are lost, views
\* change and disks are lost on the way.
CommittedExecutesEverywhere ==
  \A i \in 1 .. MaxOp :
    i \in DOMAIN committed ~> \A id \in ReplicaID : rep[id].applied >= i

\* A replica that changes views, fills a gap or recovers returns to normal
\* status.
NormalAgain ==
  \A id \in ReplicaID : rep[id].status # "Normal" ~> rep[id].status = "Normal"

=============================================================================
