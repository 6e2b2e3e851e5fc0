------------------------------- MODULE MCIdle -------------------------------
(***************************************************************************)
(* Idle workers for TLC: the containers one operation after another, and   *)
(* the goroutines that share one.  The two specifications share no state:  *)
(* a behaviour is about one of them.                                       *)
(***************************************************************************)
EXTENDS Idle, Parking

VARIABLE part

MCInit ==
    /\ Init /\ ParkInit
    /\ part \in {"containers", "parking"}
    /\ part = "parking" => kind = "RingQueue"

MCNext ==
    \/ part = "containers" /\ Next /\ UNCHANGED <<parkVars, part>>
    \/ part = "parking" /\ ParkNext /\ UNCHANGED <<vars, part>>

MCSpec == MCInit /\ [][MCNext]_<<vars, parkVars, part>>

\* Workers and treap nodes are interchangeable.
IdleSymmetry == Permutations(Worker) \cup Permutations(Node)
=============================================================================
