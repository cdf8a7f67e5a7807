------------------------------- MODULE Config -------------------------------
(* What replicas and clients know of the cluster: struct Config of         *)
(* src/lib.rs.                                                             *)
EXTENDS Integers

CONSTANTS N,            \* the number of replicas
          ClientsMax,   \* clients_max
          InFlightMax   \* in_flight_max

ASSUME ConfigAssumption ==
  /\ N \in Nat /\ N >= 3
  /\ ClientsMax \in Nat \ {0}
  /\ InFlightMax \in Nat \ {0}

ReplicaID == 0 .. N - 1
Others(id) == ReplicaID \ {id}
PrimaryOf(v) == v % N
Quorum == N \div 2 + 1

Lower(m, n) == IF m <= n THEN m ELSE n
Higher(m, n) == IF m <= n THEN n ELSE m
=============================================================================
