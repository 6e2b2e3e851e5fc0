------------------------------- MODULE Retry -------------------------------
(***************************************************************************)
(* TaskWithRetry: how often a failing task is tried, and how long it is    *)
(* put off.  A time.Duration has Width bits.  2^retryNum is infinite as a  *)
(* float beyond MaxExponent, and no integer equals an infinite product or  *)
(* one of zero and infinity.                                               *)
(***************************************************************************)
EXTENDS Integers

CONSTANTS
    RetryNum,       \* the RetryNum of the tasks
    Width,          \* bits of a time.Duration
    MaxExponent     \* largest exponent of a finite float

ASSUME RetryAssumption == RetryNum \in Nat /\ Width \in Nat \ {0} /\ MaxExponent \in Nat

Longest == 2 ^ (Width - 1) - 1

\* time.Duration(mult).  Out of range it is the least integer on amd64 and the
\* nearest on arm64.
Durations(mult) ==
    IF mult \in -Longest - 1 .. Longest THEN {mult} ELSE {-Longest - 1, Longest}

\* Mutant: an overflow goes unnoticed.
SameFloatAlways(sleep, mult) == TRUE

\* float64(sleep) == mult, where the longest Duration rounds up.
SameFloat(sleep, mult) == (IF sleep = Longest THEN sleep + 1 ELSE sleep) = mult

\* What defaultBackOffStrategy may return, depending on the platform.
BackOffs(min, max, retryNum) ==
    LET mult == min * 2 ^ retryNum
    IN  {IF retryNum > MaxExponent \/ ~SameFloat(sleep, mult) \/ sleep > max
         THEN max ELSE sleep : sleep \in Durations(mult)}

\* Mutant: the last retry is skipped.
RetriesAgainLess(tries) == tries < RetryNum

\* Whether a task that has failed this often is tried again.
RetriesAgain(tries) == tries <= RetryNum
=============================================================================
