-------------------------- MODULE MCAgilePoolLive --------------------------
(***************************************************************************)
(* A small instance of AgilePool for TLC: liveness.  Symmetry would make   *)
(* the check unsound; to keep it small, two goroutines submit: one the     *)
(* task Alone, the other the remaining tasks, one after another in the     *)
(* order of their numbers.                                                 *)
(***************************************************************************)
EXTENDS AgilePool

Alone == CHOOSE t \in Task : \A u \in Task : u <= t

OneAfterAnother ==
    \A t, u \in Task \ {Alone} :
        u < t /\ ~SubmitReturned(u) /\ spc[t] = "ready" => spc'[t] = "ready"

TwoSubmittersSpec == Init /\ [][Next /\ OneAfterAnother]_vars /\ Fairness
=============================================================================
