---------------------------- MODULE MCAgilePool ----------------------------
(* Small instances of AgilePool for TLC: safety. *)
EXTENDS AgilePool, TLC

\* Tasks submitted the same way are interchangeable.
PlainTaskSymmetry == Permutations(Task \ Cancellable)
=============================================================================
