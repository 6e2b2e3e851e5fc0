----------------------------- MODULE MCShutdown -----------------------------
(***************************************************************************)
(* Wait and Close of one pool, and the default pool of a program, for TLC. *)
(* The two share no state: a behaviour is about one of them.               *)
(***************************************************************************)
EXTENDS Shutdown, DefaultPool

VARIABLE part

MCInit == Init /\ DefaultInit /\ part \in {"wait", "default"}

MCNext ==
    \/ part = "wait" /\ Next /\ UNCHANGED <<defaultVars, part>>
    \/ part = "default" /\ DefaultNext /\ UNCHANGED <<vars, part>>

MCSpec == MCInit /\ [][MCNext]_<<vars, defaultVars, part>> /\ Fairness
=============================================================================
