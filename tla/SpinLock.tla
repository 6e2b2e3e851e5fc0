------------------------------ MODULE SpinLock ------------------------------
(***************************************************************************)
(* spinLock: Lock is a loop of compare-and-swaps in three phases, which    *)
(* differ in how they yield the processor between two attempts.            *)
(***************************************************************************)
EXTENDS Integers

CONSTANTS
    Actor,                  \* the goroutines that use the lock
    FastSpin, MaxRounds     \* attempts of the first and of the second phase

VARIABLES
    state,      \* 0 = free, 1 = held
    tries       \* the failed attempts of the Lock call in progress

LockTypeOK ==
    /\ state \in {0, 1}
    /\ tries \in [Actor -> 0 .. FastSpin + MaxRounds]

LockInit == state = 0 /\ tries = [a \in Actor |-> 0]

\* Mutant: the last phase stores 1 without comparing.
WinsBlindly(a) == state = 0 \/ tries[a] = FastSpin + MaxRounds

\* The compare-and-swap of an attempt succeeds.
Wins(a) == state = 0

\* Lock returns to its caller.
Lock(a) ==
    /\ Wins(a)
    /\ state' = 1
    /\ tries' = [tries EXCEPT ![a] = 0]

\* An attempt fails; the third phase does not count any more.
Spin(a) ==
    /\ ~Wins(a)
    /\ tries[a] < FastSpin + MaxRounds
    /\ tries' = [tries EXCEPT ![a] = @ + 1]
    /\ UNCHANGED state

\* An atomic store, whoever holds the lock.
Unlock == state' = 0 /\ UNCHANGED tries
=============================================================================
