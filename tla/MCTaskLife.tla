----------------------------- MODULE MCTaskLife -----------------------------
(***************************************************************************)
(* The life of tasks, the pauses between the tries of one, and the hook    *)
(* sets that observe them, for TLC.  The three share no state: a behaviour *)
(* is about one of them.                                                   *)
(***************************************************************************)
EXTENDS TaskLife, HookRegistry, TLC

VARIABLES
    part,
    backOff     \* the last pause of a task that keeps failing, and its retry

MCInit ==
    /\ LifeInit /\ RegistryInit
    /\ part \in {"life", "backoff", "registry"}
    /\ part # "registry" => dynamic /\ event = [d \in Dispatcher |-> "Started"]
    /\ backOff \in [min : 0 .. Longest, max : 0 .. Longest, retry : {0}, pause : {0}]
    /\ part # "backoff" => backOff.min = 0 /\ backOff.max = 0

\* getBackOffTime of the next retry, until the power has been infinite twice.
NextBackOff ==
    /\ backOff.retry <= MaxExponent + 1
    /\ \E pause \in BackOffs(backOff.min, backOff.max, backOff.retry + 1) :
          backOff' = [backOff EXCEPT !.retry = @ + 1, !.pause = pause]

MCNext ==
    \/ part = "life" /\ LifeNext /\ UNCHANGED <<registryVars, backOff, part>>
    \/ part = "backoff" /\ NextBackOff /\ UNCHANGED <<lifeVars, registryVars, part>>
    \/ part = "registry" /\ RegistryNext /\ UNCHANGED <<lifeVars, backOff, part>>

MCSpec == MCInit /\ [][MCNext]_<<lifeVars, registryVars, backOff, part>>

\* Two callbacks of one event and one of another.
MCSubscribes == [r \in Registrar |-> IF r = "r3" THEN "Completed" ELSE "Started"]

\* Tasks are interchangeable.
LifeSymmetry == Permutations(Task)

-----------------------------------------------------------------------------
\* "exponential backoff" between MinBackOff and MaxBackOff (task.go:27): every
\* pause is MinBackOff doubled once per retry, and MaxBackOff from the moment
\* that is more, on either platform and however far the product overflows.  (A
\* zero MinBackOff turns into MaxBackOff when the power becomes infinite.)
BackOffDoublesUpToMax ==
    LET doubled == backOff.min * 2 ^ backOff.retry
    IN  backOff.retry > 0 =>
            \/ backOff.pause = (IF doubled > backOff.max THEN backOff.max ELSE doubled)
            \/ /\ backOff.min = 0 /\ backOff.retry > MaxExponent
               /\ backOff.pause = backOff.max
=============================================================================
